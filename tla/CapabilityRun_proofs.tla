------------------------ MODULE CapabilityRun_proofs ------------------------
(***************************************************************************)
(* Theorems about CapabilityRun for any limits, any command lines and any  *)
(* amount of outside work: a receipt says what the probes showed, and it   *)
(* closes the ledger.  The inductive invariant IInv ties each point of     *)
(* execute() to the probes that have been recorded by then; Papers ties it *)
(* to the ledger and the evidence files.                                   *)
(***************************************************************************)
EXTENDS CapabilityRun, SequenceTheorems, FiniteSetTheorems, TLAPS

\* The point of execute() that is being decided; a receipt about to be written
\* belongs to the point that decided it.
Where == IF pc = "receipt" THEN stop.point ELSE pc

Live == pc \notin {"idle", "return", "exited"}

Blank(t) == probes[t] = NoRecord
Regressed == probes["first"].result = "failed" /\ request.rounds # 0

Early == {"binding", "approved", "baseline"}
Looking == {"execute", "recheck", "reidentify", "record"}
Probing == {"probe", "identify"} \union Looking
Probed == {"probed", "decide"}
Working == {"build", "built", "seal", "reviewed", "integrate"}
Ending == {"final", "complete"}

\* Before the first probe there is nothing but the baseline revision.
StageEarly ==
    Where \in Early =>
        /\ rev.first = 0 /\ rev.repaired = 0 /\ rev.second = 0
        /\ \A t \in Targets: Blank(t)
        /\ Where # "binding" => rev.baseline = 1 /\ head # 0

\* From the first probe on, each revision execute() holds rests on a result.
StageRevisions ==
    Where \notin Early =>
        /\ rev.baseline = 1 /\ head # 0
        /\ rev.first = 0 => Blank("first") /\ rev.repaired = 0
        /\ rev.first # 0 => /\ probes["baseline"].result = "passed"
                            /\ Blank("first") \/ probes["first"].expected = rev.first
        /\ rev.repaired # 0 => Regressed /\ ~Blank("first")
        /\ rev.second = 0 => Blank("second")
        /\ rev.second # 0 => /\ rev.repaired # 0
                             /\ Blank("second") \/ probes["second"].expected = rev.second
        /\ rev.repaired # 0 => rev.first # 0

\* Around a probe.
StageProbe ==
    /\ Where \in Probing => Blank(Target)
    /\ Where \in Probed => ~Blank(Target)
    /\ (Where \in Probing \union Probed /\ rev.first # 0 /\ rev.second = 0) => rev.repaired = 0
    /\ (pc \in Looking /\ probing.result # "inconclusive") =>
            probing.found = Expected /\ probing.found # 0
    /\ pc = "execute" => probing.result = "not_run"
    /\ pc \in Looking \ {"execute"} => probing.result # "not_run"

\* Work is licensed by a passing baseline, a repair by a measured regression.
StageWork ==
    Where \in Working =>
        /\ probes["baseline"].result = "passed"
        /\ rev.second = 0
        /\ rev.first # 0 => Regressed /\ ~Blank("first")
        /\ IF Where = "build" THEN rev.repaired = 0
           ELSE rev.repaired = 0 <=> rev.first = 0

\* Only a repaired integration that passed comes to the end.
StageEnd ==
    /\ Where \in Ending => rev.second # 0 /\ probes["second"].result = "passed"
    /\ pc = "complete" => elapsed <= Limit

\* What a stop about to be reported was decided on.
StageStop ==
    pc = "receipt" =>
        /\ stop \in StopType
        /\ stop.status = "mission_mismatch" <=> stop.point = "binding"
        /\ stop.status = "completed" => stop.point = "final" /\ elapsed <= Limit /\ stop.clock = "gate"
        /\ stop.status = "budget_exhausted" =>
            \/ elapsed > Limit /\ stop.clock = "gate"
            \/ /\ request.rounds = 0 /\ stop.point = "probed" /\ Target = "first"
               /\ probes["first"].result = "failed"
        /\ stop.status = "capability_unproven" =>
            /\ stop.point = "probed" /\ Target # "second"
            /\ Target = "baseline" => probes["baseline"].result # "passed"
            /\ Target = "first" => probes["first"].result = "inconclusive"

Stages ==
    Live =>
        /\ StageEarly /\ StageRevisions /\ StageProbe /\ StageWork /\ StageEnd /\ StageStop
        /\ request.rounds >= 0

\* Before it starts, and after it has ended, a process has nothing of its own;
\* an empty directory has seen no run, and a directory with a receipt is full.
Directory ==
    /\ pc = "idle" => rev = NoRevisions
    /\ Reported => pc \in {"idle", "return", "exited"}
    /\ disk = {} => ~Live /\ ~Reported /\ \A t \in Targets: Blank(t)

\* A pass or a failure is about the revision the caller expected.
Exact ==
    /\ \A t \in Targets:
        probes[t].result \in {"passed", "failed"} => probes[t].artifact = probes[t].expected
    /\ probes["baseline"].result \in {"passed", "failed"} => probes["baseline"].artifact = 1

\* A probe under way, unless it is inconclusive already, began at a commit that
\* descends from the baseline.
Descends ==
    pc \in Looking /\ probing.result # "inconclusive" =>
        /\ probing.found \in 1..Len(commits)
        /\ rev.baseline \in commits[probing.found].line

\* What was executed is the code of the revision found, or others left what the
\* looks that remain will see, or it takes two steps of theirs.
Watched ==
    pc \in Probing \ {"probe"} =>
        /\ outside >= probing.since
        /\ pc \in {"identify", "execute"} => probing.ran = "none"
        /\ outside = probing.since =>
              /\ tree = commits[head].code
              /\ pc \in Looking /\ probing.result # "inconclusive" => head = probing.found
        /\ /\ outside <= probing.since + 1
           /\ pc \in Looking /\ probing.result # "inconclusive" /\ probing.ran # "none"
           => \/ probing.ran = commits[probing.found].code
              \/ /\ outside = probing.since + 1
                 /\ \/ pc = "recheck" /\ tree # commits[head].code
                    \/ pc \in {"recheck", "reidentify"} /\ head # probing.found

\* As long as nobody else touches the workspace, it holds what execute() last
\* committed there, and each integrated revision is the reviewed one.
Kept(r) == r # 0 => r \in 1..Len(commits) /\ r \in commits[r].line
Undisturbed ==
    outside = 0 =>
        /\ commits # <<>> => tree = commits[head].code
        /\ pc = "binding" => rev.worker = 0
        /\ pc \in Working \ {"build"} => rev.worker # 0
        /\ Kept(rev.worker) /\ Kept(rev.first) /\ Kept(rev.repaired) /\ Kept(rev.second)
        /\ rev.worker # 0 /\ rev.first = 0 => head = rev.worker
        /\ rev.repaired # 0 /\ rev.second = 0 => head = rev.repaired
        /\ rev.first # 0 => rev.worker # 0 /\ Keeps(rev.first, rev.worker)
        /\ rev.second # 0 => rev.repaired # 0 /\ Keeps(rev.second, rev.repaired)

IInv ==
    /\ TypeOK /\ Stages /\ Directory /\ Exact /\ Descends /\ Watched /\ Undisturbed
    /\ ReportMatchesProbes /\ CompletedOnProof /\ BudgetStopIsReal

-----------------------------------------------------------------------------
(* The type invariant.                                                     *)

\* A commit on HEAD keeps the repository well formed, and HEAD is the new commit.
LEMMA ExtendTypes ==
    ASSUME commits \in Seq(CommitType), NEW code \in Codes, NEW line \in SUBSET Nat,
           Extend(code, line)
    PROVE  /\ commits' \in Seq(CommitType)
           /\ head' \in 1..Len(commits') /\ head' # 0 /\ head' \in Nat
<1>1. Len(commits) \in Nat
  OBVIOUS
<1>2. [code |-> code, line |-> line \union {Len(commits) + 1}] \in CommitType
  <2>1. PICK n \in Nat: n = Len(commits) + 1
    BY <1>1
  <2>2. line \union {n} \in SUBSET Nat
    OBVIOUS
  <2> QED
    BY <2>1, <2>2 DEF CommitType
<1> QED
  BY <1>1, <1>2 DEF Extend

\* A commit of what the tree holds on top of HEAD leaves the earlier ones alone.
LEMMA ExtendKeeps ==
    ASSUME commits \in Seq(CommitType), NEW code, NEW line, Extend(code, line)
    PROVE  /\ head' = Len(commits) + 1 /\ head' \in 1..Len(commits')
           /\ commits'[head'].code = code
           /\ head' \in commits'[head'].line /\ line \subseteq commits'[head'].line
           /\ commits' # <<>>
           /\ \A i \in 1..Len(commits): i \in 1..Len(commits') /\ commits'[i] = commits[i]
BY DEF Extend

\* What a probe does before it writes its record: it looks, and runs the artifact.
Look == StartProbe \/ IdentifyProbe \/ ExecuteProbe \/ RecheckProbe \/ ReidentifyProbe
LEMMA Looks ==
    Look => /\ UNCHANGED <<request, elapsed, ok, rev, stop>> /\ UNCHANGED <<now, outside>>
            /\ UNCHANGED <<ledger, disk, probes, receipt>> /\ UNCHANGED <<commits, head, tree>>
            /\ \/ pc \in {"probe", "recheck"} /\ pc' = "exited" /\ exit' = 2
               \/ /\ exit' = exit
                  /\ \/ pc = "probe" /\ pc' = "identify"
                     \/ pc = "identify" /\ pc' \in {"execute", "recheck"}
                     \/ pc = "execute" /\ pc' = "recheck"
                     \/ pc = "recheck" /\ pc' = "reidentify"
                     \/ pc = "reidentify" /\ pc' = "record"
BY DEF Look, StartProbe, IdentifyProbe, ExecuteProbe, RecheckProbe, ReidentifyProbe, output,
   workspace, world, Fail

\* Each step of execute() leaves its variables within their types.
LEMMA ProcessStep == TypeOK /\ [Next]_vars => ProcessTypes'
<1> SUFFICES ASSUME TypeOK, [Next]_vars PROVE ProcessTypes'
  OBVIOUS
<1> USE DEF TypeOK, ProcessTypes, Points, Fail
<1>1. CASE Start
  BY <1>1 DEF Start, world
<1>2. CASE Bind
  <2>0. rev' = rev \/ rev' = [rev EXCEPT !.baseline = 1]
    BY <1>2 DEF Bind
  <2>1. rev' \in Revisions
    BY <2>0 DEF Revisions
  <2>2. stop' = stop \/ stop' \in StopType
    <3>1. stop' = stop \/ stop' = [status |-> "mission_mismatch", point |-> "binding",
                                   refs |-> {}, clock |-> "again"]
      BY <1>2 DEF Bind, StopWith
    <3> QED
      BY <3>1 DEF StopType, Stops
  <2> QED
    BY <1>2, <2>1, <2>2 DEF Bind, StopWith, world
<1>3. CASE Gate
  <2>1. pc \in Points /\ Gates[pc] \in {"baseline", "seal", "integrate", "decide", "complete"}
    BY <1>3 DEF Gate, Gates
  <2>2. stop' = stop \/ stop' \in StopType
    <3>1. stop' = stop \/ stop' = [status |-> "budget_exhausted", point |-> pc,
                                   refs |-> {}, clock |-> "gate"]
      BY <1>3 DEF Gate, StopWith
    <3> QED
      BY <2>1, <3>1 DEF StopType, Stops
  <2> QED
    BY <1>3, <2>1, <2>2 DEF Gate, StopWith, world
<1>4. CASE CaptureBaseline
  BY <1>4 DEF CaptureBaseline, world
<1>5. CASE StartProbe
  <2>1. probing' = probing \/ probing' = [found |-> 0, result |-> "not_run", ran |-> "none", since |-> outside]
    BY <1>5 DEF StartProbe, NoProbe
  <2>2. probing' \in ProbingType
    BY <2>1 DEF ProbingType
  <2> QED
    BY <1>5, <2>2 DEF StartProbe, world
<1>6. CASE IdentifyProbe \/ ExecuteProbe \/ RecheckProbe \/ ReidentifyProbe
  <2>1. PICK n \in Nat, result \in Results \union {"not_run"}, ran \in Codes \union {"none"}:
            probing' = [probing EXCEPT !.found = n, !.result = result, !.ran = ran]
    <3>1. head \in Nat /\ tree \in Codes
      BY DEF WorkspaceTypes
    <3>2. /\ probing.found \in Nat /\ probing.result \in Results \union {"not_run"}
          /\ probing.ran \in Codes \union {"none"}
          /\ probing = [probing EXCEPT !.found = probing.found, !.result = probing.result, !.ran = probing.ran]
      BY DEF ProbingType
    <3>3. CASE IdentifyProbe
      <4>1. Forced \in Results \union {"normal"}
        BY RequestsAssumption DEF Forced, RequestType, Results
      <4>2. PICK result \in Results \union {"not_run"}: probing' = [probing EXCEPT !.found = head, !.result = result]
        BY <3>3, <4>1 DEF IdentifyProbe, Results
      <4>3. probing' = [probing EXCEPT !.found = head, !.result = result, !.ran = probing.ran]
        BY <4>2 DEF ProbingType
      <4> QED
        BY <3>1, <3>2, <4>3
    <3>4. CASE ExecuteProbe
      <4>1. PICK result \in Results: probing' = [probing EXCEPT !.result = result, !.ran = tree]
        BY <3>4 DEF ExecuteProbe, Observed, Results
      <4>2. probing' = [probing EXCEPT !.found = probing.found, !.result = result, !.ran = tree]
        BY <4>1 DEF ProbingType
      <4> QED
        BY <3>1, <3>2, <4>2
    <3>5. CASE RecheckProbe
      <4>1. probing' = [probing EXCEPT !.found = probing.found, !.result = probing.result, !.ran = probing.ran]
        BY <3>2, <3>5 DEF RecheckProbe
      <4> QED
        BY <3>2, <4>1
    <3>6. CASE ReidentifyProbe
      <4>1. PICK result \in Results \union {"not_run"}: probing' = [probing EXCEPT !.found = head, !.result = result]
        BY <3>2, <3>6 DEF ReidentifyProbe, Results
      <4>2. probing' = [probing EXCEPT !.found = head, !.result = result, !.ran = probing.ran]
        BY <4>1 DEF ProbingType
      <4> QED
        BY <3>1, <3>2, <4>2
    <3> QED
      BY <1>6, <3>3, <3>4, <3>5, <3>6
  <2>2. probing' \in ProbingType
    BY <2>1 DEF ProbingType
  <2>3. pc' \in {"execute", "recheck", "reidentify", "record", "exited"}
    BY <1>6 DEF IdentifyProbe, ExecuteProbe, RecheckProbe, ReidentifyProbe
  <2>4. UNCHANGED <<request, elapsed, ok, rev, stop, now, outside>> /\ (exit' = exit \/ exit' = 2)
    BY <1>6 DEF IdentifyProbe, ExecuteProbe, RecheckProbe, ReidentifyProbe, world
  <2> QED
    BY <2>2, <2>3, <2>4
<1>7. CASE RecordProbe
  BY <1>7 DEF RecordProbe, world, NoProbe, ProbingType
<1>8. CASE Decide
  <2>1. stop' = stop \/ stop' \in StopType
    <3>1. \/ stop' = stop
          \/ \E status \in {"capability_unproven", "budget_exhausted"},
                refs \in {{}, {"disposition-1"}}:
                  stop' = [status |-> status, point |-> "probed", refs |-> refs, clock |-> "again"]
      BY <1>8 DEF Decide, DecideBaseline, DecideFirst, DecideSecond, StopWith
    <3> QED
      BY <3>1 DEF StopType, Stops, Files
  <2> QED
    BY <1>8, <2>1 DEF Decide, DecideBaseline, DecideFirst, DecideSecond, StopWith, world
<1>9. CASE Build
  <2>1. head' \in Nat
    BY <1>9 DEF Build, Extend, WorkspaceTypes
  <2>0. rev' = rev \/ rev' = [rev EXCEPT !.worker = head'] \/ rev' = [rev EXCEPT !.repaired = head']
    BY <1>9 DEF Build
  <2>2. rev' \in Revisions
    BY <2>0, <2>1 DEF Revisions
  <2> QED
    BY <1>9, <2>2 DEF Build, world
<1>10. CASE Review
  BY <1>10 DEF Review, world
<1>11. CASE Integrate
  <2>1. head' \in Nat
    BY <1>11 DEF Integrate, Extend, WorkspaceTypes
  <2>0. rev' = rev \/ rev' = [rev EXCEPT !.first = head'] \/ rev' = [rev EXCEPT !.second = head']
    BY <1>11 DEF Integrate
  <2>2. rev' \in Revisions
    BY <2>0, <2>1 DEF Revisions
  <2> QED
    BY <1>11, <2>2 DEF Integrate, world
<1>12. CASE Complete
  <2>1. stop' \in StopType
    BY <1>12 DEF Complete, StopWith, StopType, Stops
  <2> QED
    BY <1>12, <2>1 DEF Complete, StopWith, world
<1>13. CASE WriteReceipt
  BY <1>13 DEF WriteReceipt, world
<1>14. CASE Return
  BY <1>14 DEF Return, world, ExitCode
<1>15. CASE Tick \/ Die
  BY <1>15 DEF Tick, Die, process, world
<1>16. CASE Rerun
  BY <1>16 DEF Rerun, world, NoRevisions, Revisions, NoProbe, ProbingType
<1>17. CASE Outside
  BY <1>17 DEF Outside, process
<1>18. CASE UNCHANGED vars
  BY <1>18 DEF vars, process, world
<1> QED
  BY <1>1, <1>2, <1>3, <1>4, <1>5, <1>6, <1>7, <1>8, <1>9, <1>10, <1>11, <1>12, <1>13,
     <1>14, <1>15, <1>16, <1>17, <1>18 DEF Next, Step

\* The repository stays well formed, whoever commits to it.
LEMMA WorkspaceStep == TypeOK /\ Stages /\ [Next]_vars => WorkspaceTypes'
<1> SUFFICES ASSUME TypeOK, Stages, [Next]_vars PROVE WorkspaceTypes'
  OBVIOUS
<1> USE DEF TypeOK, WorkspaceTypes
<1>1. CASE UNCHANGED workspace
  BY <1>1 DEF workspace
<1>2. CASE Bind
  <2>1. CASE UNCHANGED workspace
    BY <2>1 DEF workspace
  <2>2. CASE commits' = << [code |-> "adaptive", line |-> {1}] >> /\ head' = 1 /\ tree' = "adaptive"
    <3>1. [code |-> "adaptive", line |-> {1}] \in CommitType
      BY DEF CommitType, Codes
    <3> QED
      BY <2>2, <3>1 DEF Codes
  <2> QED
    BY <1>2, <2>1, <2>2 DEF Bind
<1>3. ASSUME NEW code \in Codes, NEW line \in SUBSET Nat, Extend(code, line), tree' \in Codes
      PROVE  WorkspaceTypes'
  BY <1>3, ExtendTypes
<1>4. ASSUME head # 0
      PROVE  commits[head].code \in Codes /\ commits[head].line \in SUBSET Nat
  <2>1. commits[head] \in CommitType
    BY <1>4
  <2> QED
    BY <2>1 DEF CommitType
<1>5. CASE Build
  <2>1. head # 0
    BY <1>5 DEF Build, Stages, Live, StageRevisions, Where, Early
  <2>2. PICK code \in Codes:
          /\ tree' = code
          /\ \/ UNCHANGED <<commits, head>>
             \/ Extend(code, commits[head].line)
    BY <1>5 DEF Build, Written, Codes
  <2> QED
    BY <1>3, <1>4, <2>1, <2>2
<1>6. CASE Integrate
  <2>1. head # 0
    BY <1>6 DEF Integrate, Stages, Live, StageRevisions, Where, Early
  <2>2. \/ UNCHANGED <<commits, head>>
        \/ \E code \in {commits[head].code, tree}: Extend(code, commits[head].line)
    BY <1>6 DEF Integrate
  <2>3. tree' = tree
    BY <1>6 DEF Integrate
  <2>4. \A code \in {commits[head].code, tree}: code \in Codes
    BY <1>4, <2>1
  <2> QED
    BY <1>3, <1>4, <2>1, <2>2, <2>3, <2>4
<1>7. CASE Outside
  <2>1. head # 0
    BY <1>7 DEF Outside
  <2>2. CASE \E line \in {commits[head].line, {}}: Extend(tree, line) /\ tree' = tree
    <3>1. PICK line \in {commits[head].line, {}}: Extend(tree, line) /\ tree' = tree
      BY <2>2
    <3>2. line \in SUBSET Nat
      BY <1>4, <2>1, <3>1
    <3> QED
      BY <1>3, <3>1, <3>2
  <2>3. CASE tree' \in Codes /\ UNCHANGED <<commits, head>>
    BY <2>3
  <2>4. CASE \E revision \in 1..Len(commits) \ {head}:
                head' = revision /\ tree' = commits[revision].code /\ commits' = commits
    <3>1. PICK revision \in 1..Len(commits):
                head' = revision /\ tree' = commits[revision].code /\ commits' = commits
      BY <2>4
    <3>2. commits[revision] \in CommitType
      BY <3>1
    <3> QED
      BY <3>1, <3>2 DEF CommitType
  <2> QED
    BY <1>7, <2>2, <2>3, <2>4 DEF Outside
<1> QED
  BY <1>1, <1>2, <1>5, <1>6, <1>7, Looks DEF Next, Step, Start, Gate, CaptureBaseline, Look,
     RecordProbe, Decide,
      Review, Complete, WriteReceipt, Return, Tick, Die, Rerun, vars, workspace

\* The evidence files, probe records and receipt keep their types.
LEMMA OutputStep == TypeOK /\ Stages /\ [Next]_vars => OutputTypes'
<1> SUFFICES ASSUME TypeOK, Stages, [Next]_vars PROVE OutputTypes'
  OBVIOUS
<1> USE DEF TypeOK, OutputTypes
<1>1. CASE UNCHANGED <<disk, probes, receipt>>
  BY <1>1
<1>2. CASE UNCHANGED <<probes, receipt>> /\ disk' \subseteq Files
  BY <1>2
<1>3. CASE RecordProbe
  <2>1. Target \in Targets /\ Target \in Files /\ Expected \in Nat /\ probing.found \in Nat
    BY DEF Target, Targets, Files, Expected, ProcessTypes, ProbingType, Revisions
  <2>2. /\ probes' = [probes EXCEPT ![Target] =
                        [expected |-> Expected, artifact |-> probing.found, result |-> probing.result]]
        /\ disk' = disk \union {Target} /\ receipt' = receipt
    BY <1>3 DEF RecordProbe
  <2>3. probing.result \in Results
    BY <1>3 DEF RecordProbe, Stages, Live, StageProbe, Looking, ProcessTypes, ProbingType
  <2>4. [expected |-> Expected, artifact |-> probing.found, result |-> probing.result] \in RecordType
    BY <2>1, <2>3 DEF RecordType
  <2> QED
    BY <2>1, <2>2, <2>4
<1>4. CASE WriteReceipt
  <2>1. Supporting(stop.point) \subseteq Files
    BY DEF Supporting, Files
  <2>2. ProbeRefs(stop.point) \subseteq Files
    BY DEF ProbeRefs, Files
  <2>3. stop.refs \subseteq Files
    BY DEF ProcessTypes, StopType, NoStop
  <2> QED
    BY <1>4, <2>1, <2>2, <2>3 DEF WriteReceipt, Receipt
<1>5. CASE Start
  BY <1>5, <1>2 DEF Start, Files
<1>6. CASE Bind
  BY <1>6, <1>2 DEF Bind, Files
<1>7. CASE Decide
  BY <1>7, <1>2 DEF Decide, DecideBaseline, DecideFirst, DecideSecond, Files
<1>8. CASE Build
  BY <1>8, <1>2 DEF Build, Files
<1>9. CASE Review
  BY <1>9, <1>2 DEF Review, Packet, Verdict, Files
<1> QED
  BY <1>1, <1>3, <1>4, <1>5, <1>6, <1>7, <1>8, <1>9, Looks DEF Next, Step, Gate,
     CaptureBaseline, Look, Integrate, Complete, Return,
      Tick, Die, Rerun, Outside, vars, output

-----------------------------------------------------------------------------
(* The points of execute() and what they rest on.                          *)

\* Time and other people's work change nothing that a stage speaks of.
LEMMA FrameStages ==
    ASSUME Stages, UNCHANGED <<pc, stop, rev, probes, request, probing, elapsed>>,
           head # 0 => head' # 0
    PROVE  Stages'
BY DEF Stages, Live, Where, Early, Looking, Probing, Probed, Working, Ending, Blank, Regressed,
   Target,
       Expected, StageEarly, StageRevisions, StageProbe, StageWork, StageEnd, StageStop

\* Each statement of execute() leaves what the next one relies on: which
\* revisions it holds, which artifacts are probed, and with what result.
LEMMA StagesStep == IInv /\ [Next]_vars => Stages'
<1> SUFFICES ASSUME IInv, [Next]_vars PROVE Stages'
  OBVIOUS
<1>0. TypeOK /\ Stages /\ TypeOK'
  BY ProcessStep, WorkspaceStep, OutputStep DEF IInv, TypeOK
<1>4. CASE Tick
  <2>1. UNCHANGED <<pc, stop, rev, probes, request, probing, elapsed>> /\ head' = head
    BY <1>4 DEF Tick, process, output, workspace
  <2> QED
    BY <1>0, <2>1, FrameStages
<1>5. CASE Outside
  <2>1. head' # 0
    BY <1>5, <1>0 DEF Outside, TypeOK, WorkspaceTypes, Extend
  <2>2. UNCHANGED <<pc, stop, rev, probes, request, probing, elapsed>>
    BY <1>5 DEF Outside, process, output
  <2> QED
    BY <1>0, <2>1, <2>2, FrameStages
<1>7. CASE UNCHANGED vars
  <2>1. UNCHANGED <<pc, stop, rev, probes, request, probing, elapsed>> /\ head' = head
    BY <1>7 DEF vars, process, output, workspace
  <2> QED
    BY <1>0, <2>1, FrameStages
<1> USE DEF Stages, Live, Where, Early, Looking, Probing, Probed, Working, Ending
<1>1. CASE Start
  <2>1. pc' # "exited" => /\ pc' = "binding" /\ request.rounds >= 0 /\ disk = {}
                          /\ UNCHANGED <<rev, probes, request>>
    BY <1>1, <1>0, RequestsAssumption
    DEF Start, Fail, Refused, TypeOK, ProcessTypes, RequestType
  <2>2. CASE pc' = "exited"
    BY <2>2
  <2>3. CASE pc' # "exited"
    <3>1. pc' = "binding" /\ rev' = NoRevisions /\ \A t \in Targets: Blank(t)'
      BY <1>1, <2>1, <2>3 DEF Start, IInv, Directory, Blank
    <3>2. StageEarly' /\ StageRevisions' /\ StageProbe' /\ StageWork' /\ StageEnd' /\ StageStop'
      BY <3>1 DEF NoRevisions, StageEarly, StageRevisions, StageProbe, StageWork, StageEnd,
         StageStop
    <3> QED
      BY <3>2, <2>1, <2>3
  <2> QED
    BY <2>2, <2>3
<1>2. CASE Bind
  <2>1. /\ UNCHANGED <<request, probes>> /\ pc = "binding" /\ StageEarly /\ request.rounds >= 0
        /\ \/ /\ pc' = "receipt" /\ stop'.status = "mission_mismatch" /\ stop'.point = "binding"
              /\ rev' = rev
           \/ pc' = "approved" /\ rev' = [rev EXCEPT !.baseline = 1] /\ head' = 1
    <3>1. pc = "binding" /\ UNCHANGED <<request, probes>> /\ StageEarly /\ request.rounds >= 0
      BY <1>0, <1>2 DEF Bind
    <3>2. \/ /\ pc' = "receipt" /\ stop'.status = "mission_mismatch" /\ stop'.point = "binding"
             /\ rev' = rev
          \/ pc' = "approved" /\ rev' = [rev EXCEPT !.baseline = 1] /\ head' = 1
      BY <1>2 DEF Bind, StopWith
    <3> QED
      BY <3>1, <3>2
  <2>2. rev \in Revisions /\ (pc' = "receipt" => stop' \in StopType)
    BY <1>0, <1>2 DEF TypeOK, ProcessTypes, Bind, StopWith, NoStop, Stops
  <2>3. CASE pc' = "receipt"
    BY <2>1, <2>2, <2>3 DEF Blank, StageEarly, StageRevisions, StageProbe, StageWork, StageEnd,
       StageStop
  <2>4. CASE pc' = "approved"
    <3>1. rev' = [rev EXCEPT !.baseline = 1] /\ head' = 1
      BY <2>1, <2>4
    <3>2. rev'.baseline = 1 /\ rev'.first = 0 /\ rev'.repaired = 0 /\ rev'.second = 0
      BY <2>1, <2>2, <3>1 DEF Revisions, StageEarly
    <3> QED
      BY <2>1, <2>4, <3>1, <3>2 DEF Blank, StageEarly, StageRevisions, StageProbe, StageWork,
         StageEnd, StageStop
  <2> QED
    BY <2>1, <2>3, <2>4
<1>3. CASE CaptureBaseline
  <2>1. /\ UNCHANGED <<request, probes, rev, head, stop>> /\ pc = "baseline" /\ pc' = "probe"
        /\ StageEarly /\ request.rounds >= 0
    BY <1>0, <1>3 DEF CaptureBaseline, workspace
  <2> QED
    BY <2>1 DEF Blank, Targets, Target, StageEarly, StageRevisions, StageProbe, StageWork,
       StageEnd, StageStop
<1>6. CASE Die \/ Rerun \/ WriteReceipt \/ Return
  BY <1>6 DEF Die, Rerun, WriteReceipt, Return
<1>8. ASSUME pc \notin {"idle", "return", "exited"}
      PROVE  /\ StageEarly /\ StageRevisions /\ StageProbe /\ StageWork /\ StageEnd /\ StageStop
             /\ request.rounds >= 0
  BY <1>0, <1>8
<1>9. CASE Gate
  <2>1. pc \in Points \ {"binding"} /\ UNCHANGED <<request, rev, probes, head, probing>> /\ elapsed' = now
    BY <1>9 DEF Gate, Gates, Points, workspace
  <2>2. CASE Exhausted
    <3>1. pc' = "receipt" /\ stop' = [status |-> "budget_exhausted", point |-> pc,
                                      refs |-> {}, clock |-> "gate"]
      BY <1>9, <2>2 DEF Gate, StopWith
    <3>2. pc' = "receipt" /\ stop'.point = pc /\ stop'.status = "budget_exhausted"
          /\ stop'.clock = "gate" /\ stop' \in StopType
      BY <2>1, <2>2, <3>1 DEF StopType, Stops
    <3> QED
      BY <1>8, <2>1, <2>2, <3>2 DEF Exhausted, Gates, Points, Target, Blank, Regressed,
         StageEarly, StageRevisions, StageProbe, StageWork, StageEnd, StageStop
  <2>3. CASE pc' = Gates[pc] /\ stop' = stop /\ now <= Limit
    BY <1>8, <2>1, <2>3 DEF Gates, Points, Target, Blank, Regressed, StageEarly, StageRevisions,
       StageProbe, StageWork, StageEnd, StageStop
  <2> QED
    BY <1>9, <2>2, <2>3, <1>0, LimitsAssumption DEF Gate, Exhausted, TypeOK, ProcessTypes
<1>10. CASE StartProbe \/ RecheckProbe
  <2>1. CASE pc' = "exited"
    BY <2>1
  <2>2. CASE pc' # "exited"
    <3>1. /\ UNCHANGED <<request, rev, probes, head, stop>>
          /\ \/ pc = "probe" /\ pc' = "identify"
             \/ pc = "recheck" /\ pc' = "reidentify" /\ probing' = probing
      BY <1>10, <2>2 DEF StartProbe, RecheckProbe, Fail, output, workspace
    <3>2. UNCHANGED <<Target, Expected>>
      BY <3>1 DEF Target, Expected
    <3> QED
      BY <1>8, <3>1, <3>2 DEF Blank, Regressed, StageEarly, StageRevisions, StageProbe,
         StageWork, StageEnd, StageStop
  <2> QED
    BY <2>1, <2>2
<1>18. CASE IdentifyProbe
  <2>1. /\ pc = "identify" /\ UNCHANGED <<request, rev, probes, head, stop>>
        /\ pc' = IF probing'.result = "not_run" THEN "execute" ELSE "recheck"
        /\ probing'.found = head
        /\ probing'.result = IF IdentityError THEN "inconclusive"
                             ELSE IF Forced # "normal" THEN Forced ELSE "not_run"
    BY <1>0, <1>18 DEF IdentifyProbe, output, workspace, TypeOK, ProcessTypes, ProbingType
  <2>2. probing'.found = head /\ (probing'.result # "inconclusive" => head = Expected)
    BY <2>1 DEF IdentityError
  <2>3. head # 0
    BY <1>8, <2>1 DEF StageRevisions
  <2>4. pc' \in {"execute", "recheck"} /\ (pc' = "recheck" <=> probing'.result # "not_run")
    BY <2>1
  <2>5. UNCHANGED <<Target, Expected>>
    BY <2>1 DEF Target, Expected
  <2> QED
    BY <1>8, <2>1, <2>2, <2>3, <2>4, <2>5 DEF Blank, Regressed, StageEarly, StageRevisions,
       StageProbe, StageWork, StageEnd, StageStop
<1>11. CASE ExecuteProbe \/ ReidentifyProbe
  <2>1. /\ UNCHANGED <<request, rev, probes, head, stop>>
        /\ \/ pc = "execute" /\ pc' = "recheck"
           \/ pc = "reidentify" /\ pc' = "record"
    BY <1>11 DEF ExecuteProbe, ReidentifyProbe, output, workspace
  <2>2. probing.result # "inconclusive" \/ pc = "reidentify"
    BY <1>8, <2>1 DEF StageProbe
  <2>3. /\ probing'.result # "not_run"
        /\ probing'.result # "inconclusive" =>
              probing.result # "inconclusive" /\ probing'.found = probing.found
    <3>1. CASE ExecuteProbe
      <4>1. pc = "execute" /\ probing.result = "not_run"
        BY <1>8, <3>1 DEF ExecuteProbe, StageProbe
      <4>2. PICK result \in Results: probing' = [probing EXCEPT !.result = result, !.ran = tree]
        BY <3>1 DEF ExecuteProbe, Observed, Results
      <4> QED
        BY <1>0, <4>1, <4>2 DEF TypeOK, ProcessTypes, ProbingType, Results
    <3>2. CASE ReidentifyProbe
      <4>1. probing.result # "not_run"
        BY <1>8, <3>2 DEF ReidentifyProbe, StageProbe
      <4>2. /\ probing'.found = head
            /\ probing'.result = IF head # probing.found THEN "inconclusive" ELSE probing.result
        BY <1>0, <3>2 DEF ReidentifyProbe, TypeOK, ProcessTypes, ProbingType
      <4> QED
        BY <4>1, <4>2
    <3> QED
      BY <1>11, <3>1, <3>2
  <2>4. UNCHANGED <<Target, Expected>>
    BY <2>1 DEF Target, Expected
  <2> QED
    BY <1>8, <2>1, <2>2, <2>3, <2>4 DEF Blank, Regressed, StageEarly, StageRevisions,
       StageProbe, StageWork, StageEnd, StageStop
<1>12. CASE RecordProbe
  <2>1. PICK result \in Results:
          /\ pc = "record" /\ pc' = "probed" /\ UNCHANGED <<request, rev, head, stop>>
          /\ probes' = [probes EXCEPT ![Target] =
                          [expected |-> Expected, artifact |-> probing.found, result |-> result]]
    <3>1. probing.result \in Results
      BY <1>0, <1>8, <1>12 DEF RecordProbe, StageProbe, TypeOK, ProcessTypes, ProbingType
    <3> QED
      BY <1>12, <3>1 DEF RecordProbe, workspace
  <2>2. Target \in Targets /\ Target' = Target
    BY <2>1 DEF Target, Targets
  <2>3. probes'[Target].expected = Expected /\ probes'[Target].result \in Results
        /\ \A t \in Targets \ {Target}: probes'[t] = probes[t]
    BY <1>0, <2>1, <2>2 DEF TypeOK, OutputTypes
  <2>4. probes'[Target] # NoRecord
    BY <2>3 DEF NoRecord, Results
  <2>5. Target # "baseline" => Expected = rev[Target]
    BY DEF Expected
  <2> QED
    BY <1>8, <2>1, <2>2, <2>3, <2>4, <2>5 DEF Targets, Target, Blank, Regressed, StageEarly,
       StageRevisions, StageProbe, StageWork, StageEnd, StageStop
<1>13. CASE Decide
  <2>1. pc = "decide" /\ UNCHANGED <<request, rev, probes, head, elapsed>>
    BY <1>13 DEF Decide, workspace
  <2>2. CASE pc' = "exited"
    BY <2>2
  <2>3. CASE pc' = "receipt"
    <3>1. stop'.point = "probed" /\ stop' \in StopType
      <4>1. \E status \in {"capability_unproven", "budget_exhausted"},
                refs \in {{}, {"disposition-1"}}:
                  stop' = [status |-> status, point |-> "probed", refs |-> refs, clock |-> "again"]
        BY <1>13, <2>1, <2>3 DEF Decide, DecideBaseline, DecideFirst, DecideSecond, StopWith, Fail
      <4> QED
        BY <4>1 DEF StopType, Stops, Files, Points
    <3>2. \/ /\ stop'.status = "capability_unproven"
             /\ \/ Target = "baseline" /\ probes["baseline"].result # "passed"
                \/ Target = "first" /\ probes["first"].result = "inconclusive"
          \/ /\ stop'.status = "budget_exhausted" /\ Target = "first"
             /\ probes["first"].result = "failed" /\ request.rounds = 0
      BY <1>13, <2>1, <2>3 DEF Decide, DecideBaseline, DecideFirst, DecideSecond, StopWith, Fail
    <3> QED
      BY <1>8, <2>1, <2>3, <3>1, <3>2 DEF Target, Blank, Regressed, StageEarly, StageRevisions,
         StageProbe, StageWork, StageEnd, StageStop
  <2>4. CASE pc' = "build"
    <3>1. \/ Target = "baseline" /\ probes["baseline"].result = "passed"
          \/ Target = "first" /\ probes["first"].result = "failed" /\ request.rounds # 0
      BY <1>13, <2>4 DEF Decide, DecideBaseline, DecideFirst, DecideSecond, StopWith, Fail
    <3> QED
      BY <1>8, <2>1, <2>4, <3>1 DEF Target, Blank, Regressed, StageEarly, StageRevisions,
         StageProbe, StageWork, StageEnd, StageStop
  <2>5. CASE pc' = "final"
    <3>1. Target = "second" /\ probes["second"].result = "passed"
      BY <1>13, <2>5 DEF Decide, DecideBaseline, DecideFirst, DecideSecond, StopWith, Fail
    <3> QED
      BY <1>8, <2>1, <2>5, <3>1 DEF Target, Blank, Regressed, StageEarly, StageRevisions,
         StageProbe, StageWork, StageEnd, StageStop
  <2> QED
    BY <1>13, <2>2, <2>3, <2>4, <2>5 DEF Decide, DecideBaseline, DecideFirst, DecideSecond,
       StopWith, Fail
<1>14. CASE Build
  <2>1. CASE pc' = "exited"
    BY <2>1
  <2>2. CASE pc' # "exited"
    <3>1. /\ pc = "build" /\ pc' = "built" /\ UNCHANGED <<request, probes, stop, probing, elapsed>>
          /\ rev' = IF rev.first = 0 THEN [rev EXCEPT !.worker = head'] ELSE [rev EXCEPT !.repaired = head']
          /\ head' = Len(commits) + 1
      BY <1>14, <2>2 DEF Build, Extend, Fail
    <3>2. head' # 0
      BY <1>0, <3>1 DEF TypeOK, WorkspaceTypes
    <3>3. /\ rev'.baseline = rev.baseline /\ rev'.first = rev.first /\ rev'.second = rev.second
          /\ rev'.repaired = IF rev.first = 0 THEN rev.repaired ELSE head'
      BY <1>0, <3>1 DEF TypeOK, ProcessTypes, Revisions
    <3> QED
      BY <1>8, <3>1, <3>2, <3>3 DEF Blank, Regressed, StageEarly, StageRevisions, StageProbe,
         StageWork, StageEnd, StageStop
  <2> QED
    BY <2>1, <2>2
<1>15. CASE Review
  <2>1. \/ pc' = "exited"
        \/ /\ pc = "seal" /\ pc' = "reviewed"
           /\ UNCHANGED <<request, rev, probes, head, stop, probing, elapsed>>
    BY <1>15 DEF Review, Fail, workspace
  <2> QED
    BY <1>8, <2>1 DEF Blank, Regressed, StageEarly, StageRevisions, StageProbe, StageWork,
       StageEnd, StageStop
<1>16. CASE Integrate
  <2>1. CASE pc' = "exited"
    BY <2>1
  <2>2. CASE pc' # "exited"
    <3>1. /\ pc = "integrate" /\ pc' = "probe" /\ UNCHANGED <<request, probes, stop, probing, elapsed>>
          /\ rev' = IF rev.repaired = 0 THEN [rev EXCEPT !.first = head'] ELSE [rev EXCEPT !.second = head']
          /\ head' = Len(commits) + 1
      BY <1>16, <2>2 DEF Integrate, Extend, Fail, Round
    <3>2. head' # 0
      BY <1>0, <3>1 DEF TypeOK, WorkspaceTypes
    <3>3. /\ rev'.baseline = rev.baseline /\ rev'.repaired = rev.repaired
          /\ rev'.first = IF rev.repaired = 0 THEN head' ELSE rev.first
          /\ rev'.second = IF rev.repaired = 0 THEN rev.second ELSE head'
      BY <1>0, <3>1 DEF TypeOK, ProcessTypes, Revisions
    <3> QED
      BY <1>8, <3>1, <3>2, <3>3 DEF Target, Blank, Regressed, StageEarly, StageRevisions,
         StageProbe, StageWork, StageEnd, StageStop
  <2> QED
    BY <2>1, <2>2
<1>17. CASE Complete
  <2>1. /\ pc = "complete" /\ pc' = "receipt" /\ UNCHANGED <<request, rev, probes, head, probing, elapsed>>
        /\ stop' = [status |-> "completed", point |-> "final", refs |-> {}, clock |-> "gate"]
    BY <1>17 DEF Complete, StopWith, workspace
  <2>2. stop' \in StopType
    BY <2>1 DEF StopType, Stops, Points
  <2> QED
    BY <1>8, <2>1, <2>2 DEF Blank, Regressed, StageEarly, StageRevisions, StageProbe, StageWork,
       StageEnd, StageStop
<1> QED
  BY <1>1, <1>2, <1>3, <1>4, <1>5, <1>6, <1>7, <1>9, <1>10, <1>11, <1>12, <1>13, <1>14,
     <1>15, <1>16, <1>17, <1>18 DEF Next, Step

-----------------------------------------------------------------------------
(* The output directory and the probes' exactness.                         *)

\* Nothing is removed from the directory, and only a run that has left its
\* events there probes or reports.
LEMMA DirectoryStep == IInv /\ [Next]_vars => Directory'
<1> SUFFICES ASSUME IInv, [Next]_vars PROVE Directory'
  OBVIOUS
<1> USE DEF IInv, Directory, Live, Reported
<1>1. disk \subseteq disk'
  BY Looks DEF Next, Step, Start, Bind, Gate, CaptureBaseline, Look, RecordProbe,
         Decide, DecideBaseline, DecideFirst, DecideSecond, Build, Review, Integrate, Complete,
         WriteReceipt, Return, Tick, Die, Rerun, Outside, output, vars
<1>2. CASE pc \in {"idle", "exited", "return"}
  <2>1. UNCHANGED <<probes, receipt>>
    BY <1>2, Looks DEF Next, Step, Start, Bind, Gate, CaptureBaseline, Look, RecordProbe,
       Decide, Build, Review, Integrate, Complete, WriteReceipt, Return, Tick,
         Die, Rerun, Outside, output, vars, Gates
  <2>2. \/ pc' \in {"idle", "exited", "return"} /\ (pc' = "idle" => rev' = NoRevisions)
        \/ pc = "idle" /\ pc' = "binding" /\ disk' # {} /\ disk = {}
    BY <1>2, Looks DEF Next, Step, Start, Bind, Gate, CaptureBaseline, Look, RecordProbe,
       Decide, Build, Review, Integrate, Complete, WriteReceipt, Return, Tick,
         Die, Rerun, Outside, process, vars, Gates, Refused, Fail
  <2> QED
    BY <1>1, <2>1, <2>2 DEF Blank
<1>3. CASE pc \notin {"idle", "exited", "return"}
  <2>1. disk' # {} /\ receipt = NoReceipt
    BY <1>1, <1>3
  <2>2. pc' # "idle" /\ (pc' = "return" \/ receipt' = receipt)
    BY <1>3, Looks DEF Next, Step, Start, Bind, Gate, CaptureBaseline, Look, RecordProbe,
       Decide, DecideBaseline, DecideFirst, DecideSecond, StopWith, Build, Review,
         Integrate, Complete, WriteReceipt, Return, Tick, Die, Rerun, Outside, process, output,
         vars, Gates, Fail
  <2> QED
    BY <2>1, <2>2
<1> QED
  BY <1>2, <1>3

\* What one probe adds to the records.
LEMMA RecordedProbe ==
    ASSUME IInv, RecordProbe, probes' # probes
    PROVE  /\ Target \in Targets /\ Blank(Target)
           /\ \A t \in Targets \ {Target}: probes'[t] = probes[t]
           /\ probes'[Target] \in RecordType
           /\ probes'[Target].artifact = probing.found
           /\ probes'[Target].expected = Expected
           /\ probes'[Target].result \in {"passed", "failed"} =>
                /\ probing.found = Expected /\ probing.found # 0
                /\ rev.baseline \in commits[probing.found].line
                /\ probing.ran # "none" /\ outside <= probing.since + 1 =>
                       probing.ran = commits[probing.found].code
           /\ DOMAIN probes' = Targets
<1> USE DEF Looking, Probing
<1>1. /\ pc = "record" /\ StageProbe /\ StageRevisions /\ TypeOK /\ Watched
      /\ probes' = [probes EXCEPT ![Target] =
            [expected |-> Expected, artifact |-> probing.found, result |-> probing.result]]
  BY DEF IInv, Stages, Live, RecordProbe
<1>2. Target \in Targets /\ Blank(Target)
  BY <1>1 DEF Target, Targets, StageProbe, Where
<1>3. Expected \in Nat /\ probing.found \in Nat
  BY <1>1 DEF TypeOK, ProcessTypes, ProbingType, Revisions, Expected, Target
<1>4. probing.result \in Results
  BY <1>1 DEF StageProbe, TypeOK, ProcessTypes, ProbingType, Results
<1>5. probing.result # "inconclusive" =>
        /\ probing.found = Expected /\ probing.found # 0
        /\ rev.baseline \in commits[probing.found].line
  BY <1>1 DEF StageProbe, Descends, IInv
<1>6. probing.result # "inconclusive" /\ probing.ran # "none" /\ outside <= probing.since + 1 =>
        probing.ran = commits[probing.found].code
  BY <1>1 DEF Watched
<1> QED
  BY <1>1, <1>2, <1>3, <1>4, <1>5, <1>6 DEF TypeOK, OutputTypes, RecordType

\* Only RecordProbe writes a probe's record, and only WriteReceipt the receipt.
LEMMA Writers ==
    ASSUME [Next]_vars
    PROVE  /\ probes' # probes => RecordProbe /\ UNCHANGED receipt
           /\ receipt' # receipt => WriteReceipt /\ UNCHANGED probes
BY Looks DEF Next, Step, Start, Bind, Gate, CaptureBaseline, Look, RecordProbe,
       Decide, Build, Review, Integrate, Complete, WriteReceipt, Return, Tick, Die, Rerun,
       Outside, output, vars

\* Commits are only added, so what descended from the baseline still does.
LEMMA DescendsStep == IInv /\ [Next]_vars => Descends'
<1> SUFFICES ASSUME IInv, [Next]_vars, pc' \in Looking, probing'.result # "inconclusive"
             PROVE  /\ probing'.found \in 1..Len(commits')
                    /\ rev'.baseline \in commits'[probing'.found].line
  BY DEF Descends
<1> USE DEF IInv, TypeOK, WorkspaceTypes, Looking
<1>1. CASE IdentifyProbe
  <2>1. /\ probing'.found = head /\ ~IdentityError /\ UNCHANGED <<commits, rev>> /\ pc = "identify"
    BY <1>1 DEF IdentifyProbe, workspace, ProcessTypes, ProbingType
  <2>2. head \in 1..Len(commits)
    BY <2>1 DEF Stages, Live, StageRevisions, Where, Early
  <2> QED
    BY <2>1, <2>2 DEF IdentityError
<1>2. CASE ExecuteProbe \/ ReidentifyProbe
  <2>1. pc \in Looking /\ UNCHANGED <<commits, rev>>
    BY <1>2 DEF ExecuteProbe, ReidentifyProbe, workspace
  <2>2. probing'.found = probing.found /\ probing.result # "inconclusive"
    <3>1. CASE ExecuteProbe
      <4>1. probing.result = "not_run"
        BY <3>1 DEF ExecuteProbe, Stages, Live, StageProbe
      <4> QED
        BY <3>1, <4>1 DEF ExecuteProbe, ProcessTypes, ProbingType
    <3>2. CASE ReidentifyProbe
      BY <3>2 DEF ReidentifyProbe, ProcessTypes, ProbingType
    <3> QED
      BY <1>2, <3>1, <3>2
  <2> QED
    BY <2>1, <2>2 DEF Descends
<1>3. CASE Outside
  <2>1. UNCHANGED <<pc, probing, rev>>
    BY <1>3 DEF Outside, process
  <2>2. \A i \in 1..Len(commits): i \in 1..Len(commits') /\ commits'[i] = commits[i]
    <3>1. CASE commits' = commits
      BY <3>1
    <3>2. CASE commits' # commits
      <4>1. PICK line \in {commits[head].line, {}}: Extend(tree, line)
        BY <1>3, <3>2 DEF Outside
      <4> QED
        BY <4>1, ExtendKeeps
    <3> QED
      BY <3>1, <3>2
  <2> QED
    BY <2>1, <2>2 DEF Descends
<1>4. CASE RecheckProbe
  BY <1>4 DEF RecheckProbe, Fail, workspace, Descends
<1>5. CASE UNCHANGED <<pc, probing, rev, commits>>
  BY <1>5 DEF Descends
<1> QED
  BY <1>1, <1>2, <1>3, <1>4, <1>5
  DEF Next, Step, Start, Bind, Gate, Gates, CaptureBaseline, StartProbe, RecordProbe, Decide,
      DecideBaseline, DecideFirst, DecideSecond, StopWith, Build, Review, Integrate, Complete,
      WriteReceipt, Return, Tick, Die, Rerun, Fail, process, workspace, vars

\* One step of others while a probe is under way does not go unseen.
LEMMA WatchedStep == IInv /\ [Next]_vars => Watched'
<1> SUFFICES ASSUME IInv, [Next]_vars, pc' \in Probing \ {"probe"}
             PROVE  Watched'
  BY DEF Watched
<1> USE DEF Looking, Probing
<1>0. /\ outside \in Nat /\ probing.since \in Nat /\ probing \in ProbingType /\ Watched
  BY DEF IInv, TypeOK, ProcessTypes, ProbingType
<1>1. CASE StartProbe
  <2>1. /\ pc' = "identify" /\ UNCHANGED <<outside, head, tree, commits>> /\ tree = commits[head].code
        /\ probing' = [found |-> 0, result |-> "not_run", ran |-> "none", since |-> outside]
    BY <1>1 DEF StartProbe, Fail, Dirty, NoProbe, workspace, world
  <2> QED
    BY <1>0, <2>1 DEF Watched
<1>2. CASE IdentifyProbe
  <2>1. /\ pc = "identify" /\ pc' \in {"execute", "recheck"}
        /\ UNCHANGED <<outside, head, tree, commits>>
        /\ probing'.found = head /\ probing'.ran = probing.ran /\ probing'.since = probing.since
    BY <1>0, <1>2 DEF IdentifyProbe, ProbingType, workspace, world
  <2> QED
    BY <1>0, <2>1 DEF Watched
<1>3. CASE ExecuteProbe
  <2>1. /\ pc = "execute" /\ pc' = "recheck" /\ UNCHANGED <<outside, head, tree, commits>>
        /\ probing'.found = probing.found /\ probing'.ran = tree /\ probing'.since = probing.since
    BY <1>0, <1>3 DEF ExecuteProbe, ProbingType, workspace, world
  <2>2. probing.result # "inconclusive"
    BY <2>1 DEF IInv, Stages, Live, StageProbe
  <2>3. outside >= probing.since /\ (outside <= probing.since + 1 => outside = probing.since \/ outside = probing.since + 1)
    BY <1>0, <2>1 DEF Watched
  <2> QED
    BY <1>0, <2>1, <2>2, <2>3 DEF Watched
<1>4. CASE RecheckProbe
  <2>1. /\ pc = "recheck" /\ pc' = "reidentify" /\ UNCHANGED <<probing, outside, head, tree, commits>>
        /\ tree = commits[head].code
    BY <1>4 DEF RecheckProbe, Fail, Dirty, workspace, world
  <2> QED
    BY <1>0, <2>1 DEF Watched
<1>5. CASE ReidentifyProbe
  <2>1. /\ pc = "reidentify" /\ pc' = "record" /\ UNCHANGED <<outside, head, tree, commits>>
        /\ probing'.found = head /\ probing'.ran = probing.ran /\ probing'.since = probing.since
        /\ probing'.result = IF head # probing.found THEN "inconclusive" ELSE probing.result
    BY <1>0, <1>5 DEF ReidentifyProbe, ProbingType, workspace, world
  <2> QED
    BY <1>0, <2>1 DEF Watched
<1>6. CASE Outside
  <2>1. UNCHANGED <<pc, probing>> /\ outside' = outside + 1
    BY <1>6 DEF Outside, process
  <2>2. /\ \A i \in 1..Len(commits): commits'[i] = commits[i]
        /\ \/ tree' # tree /\ UNCHANGED <<commits, head>>
           \/ head' # head
    <3>1. CASE commits' = commits
      BY <1>6, <3>1 DEF Outside, Extend, IInv, TypeOK, WorkspaceTypes
    <3>2. CASE commits' # commits
      <4>1. PICK line \in {commits[head].line, {}}: Extend(tree, line)
        BY <1>6, <3>2 DEF Outside
      <4>2. Len(commits) \in Nat /\ head <= Len(commits) /\ head' = Len(commits) + 1
        BY <4>1 DEF Extend, IInv, TypeOK, WorkspaceTypes
      <4> QED
        BY <4>1, <4>2 DEF Extend, IInv, TypeOK, WorkspaceTypes
    <3> QED
      BY <3>1, <3>2
  <2>3. /\ outside \in Nat /\ outside' # probing.since /\ outside' >= probing.since
        /\ outside' <= probing.since + 1 => outside = probing.since /\ outside' = probing.since + 1
    BY <1>0, <2>1 DEF Watched
  <2>4. pc \in Looking /\ probing.result # "inconclusive" => probing.found \in 1..Len(commits)
    BY DEF IInv, Descends
  <2>5. pc \in {"identify", "execute"} => probing.ran = "none"
    BY <1>0, <2>1 DEF Watched
  <2>6. ASSUME outside' <= probing.since + 1, pc \in Looking,
               probing.result # "inconclusive", probing.ran # "none"
        PROVE  \/ probing.ran = commits'[probing.found].code
               \/ /\ outside' = probing.since + 1
                  /\ \/ pc = "recheck" /\ tree' # commits'[head'].code
                     \/ pc \in {"recheck", "reidentify"} /\ head' # probing.found
    <3>1. outside = probing.since /\ tree = commits[head].code /\ head = probing.found
      BY <1>0, <2>3, <2>6, <2>1 DEF Watched
    <3>2. probing.ran = commits[probing.found].code
      BY <1>0, <2>6, <2>1, <2>3, <3>1 DEF Watched
    <3> QED
      BY <2>2, <2>4, <2>6, <3>1, <3>2
  <2> QED
    BY <2>1, <2>3, <2>5, <2>6 DEF Watched
<1>7. CASE Tick \/ UNCHANGED vars
  <2>1. UNCHANGED <<pc, probing, outside, head, tree, commits>>
    BY <1>7 DEF Tick, process, workspace, world, vars
  <2> QED
    BY <1>0, <2>1 DEF Watched
<1>8. ~(Start \/ Bind \/ Gate \/ CaptureBaseline \/ RecordProbe \/ Die \/ Rerun \/ Return)
  BY DEF Start, Bind, Gate, Gates, StopWith, CaptureBaseline, RecordProbe, Die, Rerun, Return, Fail
<1>9. ~(Build \/ Review \/ Integrate \/ Complete \/ WriteReceipt)
  BY DEF Build, Review, Integrate, Complete, WriteReceipt, StopWith, Fail
<1>10. ~Decide
  BY DEF Decide, DecideBaseline, DecideFirst, DecideSecond, StopWith, Fail
<1> QED
  BY <1>1, <1>2, <1>3, <1>4, <1>5, <1>6, <1>7, <1>8, <1>9, <1>10 DEF Next, Step

\* A probe that counts was recorded for the revision it expected.
LEMMA ExactStep == IInv /\ [Next]_vars => Exact'
<1> SUFFICES ASSUME IInv, [Next]_vars PROVE Exact'
  OBVIOUS
<1>1. CASE probes' = probes
  BY <1>1 DEF IInv, Exact
<1>2. CASE probes' # probes
  <2>1. RecordProbe
    BY <1>2, Writers
  <2>2. Target = "baseline" => Expected \in {0, 1}
    BY <2>1 DEF RecordProbe, IInv, Stages, Live, StageRevisions, Where, Early, Expected
  <2> QED
    BY <1>2, <2>1, <2>2, RecordedProbe DEF IInv, Exact, Targets
<1> QED
  BY <1>1, <1>2

-----------------------------------------------------------------------------
(* The workspace while nobody else touches it.                             *)

\* Nothing but a commit, an edit or a checkout moves what Undisturbed speaks of.
LEMMA FrameUndisturbed ==
    ASSUME Undisturbed, outside' = outside,
           UNCHANGED <<rev, commits, head, tree>>,
           pc' = "binding" => rev.worker = 0,
           pc' \in Working \ {"build"} => rev.worker # 0
    PROVE  Undisturbed'
BY DEF Undisturbed, Kept, Keeps

\* Every revision execute() holds was committed from its own tree, on top of
\* the revision it held before.
LEMMA UndisturbedStep == IInv /\ [Next]_vars => Undisturbed'
<1> SUFFICES ASSUME IInv, [Next]_vars, outside' = 0 PROVE Undisturbed'
  BY DEF Undisturbed
<1>0. /\ TypeOK /\ commits \in Seq(CommitType) /\ rev \in Revisions
      /\ head \in 1..Len(commits) \/ head = 0
  BY DEF IInv, TypeOK, WorkspaceTypes, ProcessTypes
<1>1. outside = 0 /\ ~Outside
  BY <1>0, Looks DEF TypeOK, ProcessTypes, Next, Step, Start, Bind, Gate, CaptureBaseline, Look,
     RecordProbe, Decide, Build, Review, Integrate, Complete, WriteReceipt, Return,
      Tick, Die, Rerun, Outside, world, vars
<1>2. Undisturbed
  BY DEF IInv
<1>3. CASE Bind
  <2>1. pc = "binding" /\ rev.worker = 0 /\ rev.first = 0 /\ rev.repaired = 0 /\ rev.second = 0
    BY <1>1, <1>2, <1>3 DEF Bind, Undisturbed, IInv, Stages, Live, StageEarly, Where, Early
  <2>2. /\ pc' \in {"receipt", "approved"}
        /\ \/ UNCHANGED <<rev, commits, head, tree>>
           \/ /\ commits' = << [code |-> "adaptive", line |-> {1}] >>
              /\ head' = 1 /\ tree' = "adaptive"
              /\ rev' = [rev EXCEPT !.baseline = 1]
    BY <1>3 DEF Bind, StopWith, workspace
  <2>3. CASE UNCHANGED <<rev, commits, head, tree>>
    BY <1>1, <1>2, <2>2, <2>3, FrameUndisturbed DEF Working
  <2>4. CASE /\ commits' = << [code |-> "adaptive", line |-> {1}] >>
             /\ head' = 1 /\ tree' = "adaptive"
             /\ rev' = [rev EXCEPT !.baseline = 1]
    <3>1. rev'.worker = 0 /\ rev'.first = 0 /\ rev'.repaired = 0 /\ rev'.second = 0
      BY <1>0, <2>1, <2>4 DEF Revisions
    <3>2. commits'[head'].code = tree'
      BY <2>4
    <3> QED
      BY <2>2, <3>1, <3>2 DEF Undisturbed, Kept, Keeps, Working
  <2> QED
    BY <2>2, <2>3, <2>4
<1>4. CASE Build
  <2>1. pc = "build" /\ rev.second = 0 /\ rev.repaired = 0 /\ head # 0
    BY <1>4 DEF Build, IInv, Stages, Live, StageRevisions, StageWork, Where, Early, Working
  <2>2. CASE pc' = "exited"
    <3>1. PICK code \in Codes: /\ tree' = code /\ code = commits[head].code
                               /\ UNCHANGED <<rev, commits, head>>
      BY <1>4, <2>2 DEF Build, Written, Codes
    <3>2. UNCHANGED <<rev, commits, head, tree, outside>>
      BY <1>0, <1>1, <1>2, <2>1, <3>1 DEF Undisturbed
    <3> QED
      BY <1>2, <2>2, <3>2, FrameUndisturbed DEF Working
  <2>3. CASE pc' # "exited"
    <3>1. PICK code \in Codes: tree' = code /\ Extend(code, commits[head].line)
      BY <1>4, <2>3 DEF Build, Written, Fail, Codes
    <3>2. /\ pc' = "built"
          /\ rev' = IF rev.first = 0 THEN [rev EXCEPT !.worker = head'] ELSE [rev EXCEPT !.repaired = head']
      BY <1>4, <2>3 DEF Build, Fail
    <3>3. /\ rev'.first = rev.first /\ rev'.second = rev.second
          /\ rev'.worker = IF rev.first = 0 THEN head' ELSE rev.worker
          /\ rev'.repaired = IF rev.first = 0 THEN rev.repaired ELSE head'
      BY <1>0, <3>2 DEF Revisions
    <3>4. /\ head' = Len(commits) + 1 /\ head' \in 1..Len(commits')
          /\ commits'[head'].code = code /\ head' \in commits'[head'].line
          /\ \A i \in 1..Len(commits): i \in 1..Len(commits') /\ commits'[i] = commits[i]
      BY <1>0, <3>1, ExtendKeeps
    <3> QED
      BY <1>0, <1>1, <1>2, <2>1, <3>1, <3>2, <3>3, <3>4 DEF Undisturbed, Kept, Keeps, Working
  <2> QED
    BY <2>2, <2>3
<1>5. CASE Integrate
  <2>1. pc = "integrate" /\ rev.second = 0 /\ head # 0 /\ (rev.repaired = 0 <=> rev.first = 0)
    BY <1>5 DEF Integrate, IInv, Stages, Live, StageRevisions, StageWork, Where, Early, Working
  <2>2. tree' = tree
    BY <1>5 DEF Integrate
  <2>3. CASE pc' = "exited"
    <3>1. UNCHANGED <<rev, commits, head, tree, outside>>
      BY <1>1, <1>5, <2>3 DEF Integrate
    <3> QED
      BY <1>2, <2>3, <3>1, FrameUndisturbed DEF Working
  <2>4. CASE pc' # "exited"
    <3>1. tree = commits[head].code
      BY <1>0, <1>1, <1>2, <2>1 DEF Undisturbed
    <3>2. Extend(tree, commits[head].line)
      BY <1>5, <2>4, <3>1 DEF Integrate, Fail
    <3>3. /\ pc' = "probe"
          /\ rev' = IF rev.repaired = 0 THEN [rev EXCEPT !.first = head'] ELSE [rev EXCEPT !.second = head']
      BY <1>5, <2>4 DEF Integrate, Fail, Round
    <3>4. /\ rev'.worker = rev.worker /\ rev'.repaired = rev.repaired
          /\ rev'.first = IF rev.repaired = 0 THEN head' ELSE rev.first
          /\ rev'.second = IF rev.repaired = 0 THEN rev.second ELSE head'
      BY <1>0, <3>3 DEF Revisions
    <3>5. /\ head' = Len(commits) + 1 /\ head' \in 1..Len(commits')
          /\ commits'[head'].code = tree /\ head' \in commits'[head'].line
          /\ commits[head].line \subseteq commits'[head'].line
          /\ \A i \in 1..Len(commits): i \in 1..Len(commits') /\ commits'[i] = commits[i]
      BY <1>0, <3>2, ExtendKeeps
    <3>6. rev.worker # 0 /\ head = IF rev.repaired = 0 THEN rev.worker ELSE rev.repaired
      BY <1>1, <1>2, <2>1 DEF Undisturbed, Working
    <3>7. \A r \in {rev.worker, rev.repaired, rev.first, rev.second}: Kept(r) => Kept(r)'
      BY <3>5 DEF Kept
    <3>8. (Kept(rev.worker) /\ Kept(rev.repaired) /\ Kept(rev.first) /\ Kept(rev.second))'
      BY <1>1, <1>2, <3>4, <3>5, <3>7 DEF Undisturbed, Kept
    <3>9. Keeps(head, head)' /\ commits' # <<>> /\ tree' = commits'[head'].code
      BY <2>2, <3>5 DEF Keeps
    <3>10. head \in 1..Len(commits) /\ head \in commits[head].line
      BY <1>1, <1>2, <2>1, <3>6 DEF Undisturbed, Kept
    <3>11. commits'[head] = commits[head] /\ head \in commits'[head'].line /\ commits'[head'].code = commits'[head].code
      BY <3>1, <3>5, <3>10
    <3>12. CASE rev.repaired = 0
      <4>1. /\ rev'.first = head' /\ rev'.worker = head /\ rev'.repaired = 0 /\ rev'.second = 0
            /\ head' # 0
        BY <1>0, <2>1, <3>4, <3>5, <3>6, <3>12
      <4>2. (rev.first # 0 => rev.worker # 0 /\ Keeps(rev.first, rev.worker))'
        BY <3>6, <3>11, <3>12, <4>1 DEF Keeps
      <4> QED
        BY <3>3, <3>6, <3>8, <3>9, <3>12, <4>1, <4>2 DEF Undisturbed, Working
    <3>13. CASE rev.repaired # 0
      <4>1. /\ rev'.second = head' /\ rev'.repaired = head /\ rev'.worker = rev.worker /\ rev'.first = rev.first
            /\ rev.first # 0 /\ head # 0 /\ head' # 0
        BY <2>1, <3>4, <3>5, <3>6, <3>13, <1>0
      <4>2. (rev.second # 0 => rev.repaired # 0 /\ Keeps(rev.second, rev.repaired))'
        BY <3>11, <3>13, <4>1 DEF Keeps
      <4>3. Keeps(rev.first, rev.worker) /\ rev.first \in 1..Len(commits) /\ rev.worker \in 1..Len(commits)
        BY <1>1, <1>2, <3>6, <4>1 DEF Undisturbed, Kept
      <4>4. (rev.first # 0 => rev.worker # 0 /\ Keeps(rev.first, rev.worker))'
        BY <3>5, <3>6, <4>1, <4>3 DEF Keeps
      <4> QED
        BY <3>3, <3>6, <3>8, <3>9, <3>13, <4>1, <4>2, <4>4 DEF Undisturbed, Working
    <3> QED
      BY <3>12, <3>13
  <2> QED
    BY <2>3, <2>4
<1>6. CASE Rerun
  <2>1. /\ pc' = "idle" /\ UNCHANGED <<commits, head, tree>>
        /\ rev'.worker = 0 /\ rev'.first = 0 /\ rev'.repaired = 0 /\ rev'.second = 0
    BY <1>6 DEF Rerun, NoRevisions, workspace
  <2> QED
    BY <1>1, <1>2, <2>1 DEF Undisturbed, Kept, Keeps, Working
<1>7. CASE UNCHANGED <<rev, workspace>>
  <2>1. pc' = "binding" => rev.worker = 0
    <3>1. CASE pc = "idle"
      BY <3>1 DEF IInv, Directory, NoRevisions
    <3>2. CASE pc = "binding"
      BY <1>1, <1>2, <3>2 DEF Undisturbed
    <3>3. pc' = "binding" => pc \in {"idle", "binding"}
      BY Looks DEF Next, Step, Start, Bind, Gate, Gates, CaptureBaseline, Look, RecordProbe,
         Decide, DecideBaseline, DecideFirst, DecideSecond, StopWith, Build, Review,
        Integrate, Complete, WriteReceipt, Return, Tick, Die, Rerun, Outside, Fail, process, vars
    <3> QED
      BY <3>1, <3>2, <3>3
  <2>2. pc' \in Working \ {"build"} => rev.worker # 0
    <3>1. CASE pc \in Working \ {"build"}
      BY <1>1, <1>2, <3>1 DEF Undisturbed
    <3>2. CASE Build
      BY <1>4, <1>7, <3>2 DEF Undisturbed, workspace
    <3>3. pc' \in Working \ {"build"} => pc \in Working \ {"build"} \/ Build
      BY Looks DEF Working, Next, Step, Start, Bind, Gate, Gates, CaptureBaseline, Look,
         RecordProbe, Decide, DecideBaseline, DecideFirst, DecideSecond, StopWith, Review,
        Integrate, Complete, WriteReceipt, Return, Tick, Die, Rerun, Outside, Fail, process, vars
    <3> QED
      BY <1>1, <1>4, <3>1, <3>2, <3>3 DEF Undisturbed
  <2> QED
    BY <1>1, <1>2, <1>7, <2>1, <2>2, FrameUndisturbed DEF workspace
<1> QED
  BY <1>1, <1>3, <1>4, <1>5, <1>6, <1>7, Looks DEF Next, Step, Start, Gate, CaptureBaseline,
     Look, RecordProbe, Decide,
      Review, Complete, WriteReceipt, Return, Tick, Die, process, workspace, vars

-----------------------------------------------------------------------------
(* The receipt.                                                            *)

\* What a receipt says of the probes at the point it was decided.
LEMMA ReportedResults ==
    ASSUME IInv, pc = "receipt"
    PROVE  /\ Before(stop.point) = probes["baseline"].result
           /\ \/ Integration = 0 /\ After(stop.point) = "not_run"
              \/ \E t \in {"first", "second"}:
                    /\ ~Blank(t)
                    /\ t = "second" <=> rev.second # 0
                    /\ Integration # 0
                    /\ probes[t].expected = Integration
                    /\ probes[t].result = After(stop.point)
<1>1. /\ StageEarly /\ StageRevisions /\ StageProbe /\ StageWork /\ StageEnd /\ StageStop
      /\ stop.point \in Points
  BY DEF IInv, Stages, Live, StageStop, StopType
<1> USE DEF Where, Early, Looking, Probing, Probed, Working, Ending
<1>2. CASE stop.point \in {"binding", "approved"}
  BY <1>1, <1>2 DEF StageEarly, Before, After, Integration, Blank, Targets, NoRecord
<1>3. CASE stop.point \in {"built", "reviewed"}
  BY <1>1, <1>3 DEF StageWork, StageRevisions, Before, After, Integration, Blank, Regressed
<1>4. CASE stop.point = "probed"
  <2>1. ~Blank(Target) /\ After("probed") = IF Integration = 0 THEN "not_run" ELSE probes[Target].result
    BY <1>1, <1>4 DEF StageProbe, After
  <2>2. CASE rev.second # 0
    <3>1. rev.first # 0 /\ Target = "second" /\ Integration = rev.second
      BY <1>1, <1>4, <2>2 DEF StageRevisions, Target, Integration
    <3> QED
      BY <1>1, <1>4, <2>1, <2>2, <3>1 DEF StageRevisions, Before
  <2>3. CASE rev.second = 0 /\ rev.first # 0
    <3>1. Target = "first" /\ Integration = rev.first
      BY <2>3 DEF Target, Integration
    <3> QED
      BY <1>1, <1>4, <2>1, <2>3, <3>1 DEF StageRevisions, Before
  <2>4. CASE rev.second = 0 /\ rev.first = 0
    BY <1>4, <2>1, <2>4 DEF Target, Integration, Before
  <2> QED
    BY <2>2, <2>3, <2>4
<1>5. CASE stop.point = "final"
  <2>1. ~Blank("second")
    BY <1>1, <1>5 DEF StageEnd, Blank, NoRecord
  <2> QED
    BY <1>1, <1>5, <2>1 DEF StageEnd, StageRevisions, Before, After, Integration, Blank
<1> QED
  BY <1>1, <1>2, <1>3, <1>4, <1>5 DEF Points

\* The receipt says of the probes what they say, and no later step of the run
\* changes either.
LEMMA ReceiptStep ==
    IInv /\ [Next]_vars => (ReportMatchesProbes /\ CompletedOnProof /\ BudgetStopIsReal)'
<1> SUFFICES ASSUME IInv, [Next]_vars
             PROVE  (ReportMatchesProbes /\ CompletedOnProof /\ BudgetStopIsReal)'
  OBVIOUS
<1>1. CASE receipt' = receipt
  <2>1. Reported => probes' = probes /\ request' = request
    <3>1. Reported => pc \in {"idle", "exited", "return"}
      BY DEF IInv, Directory
    <3>2. probes' # probes => pc = "record"
      BY Writers DEF RecordProbe
    <3>3. request' = request
      BY Looks DEF Next, Step, Start, Bind, Gate, CaptureBaseline, Look, RecordProbe,
         Decide, Build, Review, Integrate, Complete, WriteReceipt, Return, Tick, Die, Rerun,
         Outside, process, vars
    <3> QED
      BY <3>1, <3>2, <3>3
  <2>2. Reported /\ outside' = 0 => outside = 0 /\ commits' = commits
    <3>1. Reported => pc \in {"idle", "exited", "return"}
      BY DEF IInv, Directory
    <3> QED
      BY <3>1, Looks DEF IInv, TypeOK, ProcessTypes, Next, Step, Start, Bind, Gate, Gates,
         CaptureBaseline,
         Look, RecordProbe, Decide, Build, Review, Integrate, Complete,
         WriteReceipt, Return, Tick, Die, Rerun, Outside, process, workspace, world, vars
  <2> QED
    BY <1>1, <2>1, <2>2
    DEF IInv, Reported, ReportMatchesProbes, CompletedOnProof, Keeps, BudgetStopIsReal
<1>2. CASE receipt' # receipt
  <2>1. WriteReceipt /\ UNCHANGED probes
    BY <1>2, Writers
  <2>2. pc = "receipt" /\ UNCHANGED <<request, rev, probes>>
    BY <2>1 DEF WriteReceipt
  <2>3. /\ receipt'.status = stop.status
        /\ receipt'.integration = Integration /\ receipt'.result = ResultRevision
        /\ receipt'.before = Before(stop.point)
        /\ receipt'.after = After(stop.point)
        /\ receipt'.disposition = Disposition(Before(stop.point), After(stop.point))
        /\ receipt'.rounds = Round - 1
        /\ receipt'.elapsed = IF stop.clock = "again" THEN now ELSE elapsed
    BY <2>1 DEF WriteReceipt, Receipt
  <2>4. StageRevisions /\ StageEnd /\ StageStop /\ Exact /\ TypeOK /\ request.rounds >= 0
    BY <2>2 DEF IInv, Stages, Live
  <2>5. ReportMatchesProbes'
    <3>1. \A t \in {"first", "second"}:
            probes[t].result \in {"passed", "failed"} => probes[t].artifact = probes[t].expected
      BY <2>4 DEF Exact, Targets
    <3> QED
      BY <2>2, <2>3, <3>1, ReportedResults DEF ReportMatchesProbes
  <2>6. CompletedOnProof'
    <3>1. SUFFICES ASSUME stop.status = "completed" PROVE CompletedOnProof'
      BY <2>3 DEF CompletedOnProof
    <3>2. stop.point = "final" /\ elapsed <= Limit /\ stop.clock = "gate"
      BY <2>2, <2>4, <3>1 DEF StageStop
    <3>3. /\ rev.second # 0 /\ probes["second"].result = "passed"
          /\ rev.repaired # 0 /\ rev.first # 0 /\ Regressed
          /\ probes["baseline"].result = "passed"
      BY <2>2, <2>4, <3>2 DEF StageEnd, StageRevisions, Where, Ending, Early
    <3>4. probes["second"].artifact = rev.second
      BY <2>2, <2>4, <3>2, <3>3 DEF StageRevisions, Where, Early, Blank, NoRecord, Exact, Targets
    <3>5. probes["baseline"].artifact = 1
      BY <2>4, <3>3 DEF Exact
    <3>6. receipt'.rounds <= request.rounds
      BY <2>3, <2>4, <3>3, RequestsAssumption
      DEF Round, Regressed, TypeOK, ProcessTypes, RequestType
    <3>7. outside' = 0 => Keeps(rev.second, rev.repaired)'
      <4>1. UNCHANGED <<outside, commits, rev>>
        BY <2>1 DEF WriteReceipt, world, workspace
      <4> QED
        BY <3>3, <4>1 DEF IInv, Undisturbed, Keeps
    <3>8. receipt'.result = rev.repaired
      BY <2>3, <3>3 DEF ResultRevision, Round
    <3> QED
      BY <2>2, <2>3, <3>2, <3>3, <3>4, <3>5, <3>6, <3>7, <3>8
      DEF CompletedOnProof, Integration, Regressed
  <2>7. BudgetStopIsReal'
    <3>1. SUFFICES ASSUME stop.status = "budget_exhausted" PROVE BudgetStopIsReal'
      BY <2>3 DEF BudgetStopIsReal
    <3>2. CASE elapsed > Limit /\ stop.clock = "gate"
      BY <2>3, <3>2 DEF BudgetStopIsReal
    <3>3. CASE /\ request.rounds = 0 /\ stop.point = "probed" /\ Target = "first"
               /\ probes["first"].result = "failed"
      BY <2>2, <2>3, <3>3 DEF BudgetStopIsReal, Disposition, After, Integration, Target
    <3> QED
      BY <2>2, <2>4, <3>1, <3>2, <3>3 DEF StageStop
  <2> QED
    BY <2>5, <2>6, <2>7
<1> QED
  BY <1>1, <1>2

-----------------------------------------------------------------------------
(* The theorems.                                                           *)

\* IInv holds at the start and every step keeps it.
LEMMA Inductive == (Init => IInv) /\ (IInv /\ [Next]_vars => IInv')
<1>1. Init => IInv
  <2> SUFFICES ASSUME Init PROVE IInv
    OBVIOUS
  <2>1. TypeOK
    BY RequestsAssumption
    DEF Init, TypeOK, ProcessTypes, OutputTypes, WorkspaceTypes, NoRevisions, Revisions, NoProbe,
        ProbingType, Files, Codes
  <2>2. Stages /\ Directory /\ Descends
    BY DEF Init, Stages, Live, Directory, Reported, Blank, Descends, Looking
  <2>3. Exact /\ Watched /\ Undisturbed
    BY DEF Init, Watched, Looking, Probing, Exact, NoRecord, Targets, Undisturbed, Kept,
       NoRevisions, Working
  <2>4. ReportMatchesProbes /\ CompletedOnProof /\ BudgetStopIsReal
    BY DEF Init, Reported, ReportMatchesProbes, CompletedOnProof, BudgetStopIsReal
  <2> QED
    BY <2>1, <2>2, <2>3, <2>4 DEF IInv
<1>2. IInv /\ [Next]_vars => IInv'
  <2> SUFFICES ASSUME IInv, [Next]_vars PROVE IInv'
    OBVIOUS
  <2>1. TypeOK'
    BY ProcessStep, WorkspaceStep, OutputStep DEF IInv, TypeOK
  <2> QED
    BY <2>1, StagesStep, DirectoryStep, DescendsStep, ExactStep, WatchedStep, UndisturbedStep,
       ReceiptStep DEF IInv
<1> QED
  BY <1>1, <1>2

\* The inductive invariant holds throughout every behaviour of the runs on one
\* output directory.
THEOREM Invariant == Spec => []IInv
BY Inductive, PTL DEF Spec

\* Every variable but the ledger keeps its type.
THEOREM TypeCorrect == Spec => []TypeOK
<1>1. IInv => TypeOK
  BY DEF IInv
<1> QED
  BY <1>1, Invariant, PTL

\* Whatever the receipt says of the capability, the auditor's records of the
\* baseline and of the revision it names say too.
THEOREM ReportsAreBacked == Spec => []ReportMatchesProbes
<1>1. IInv => ReportMatchesProbes
  BY DEF IInv
<1> QED
  BY <1>1, Invariant, PTL

\* A run completes only within its limits and on proof from the very revision
\* it integrates.
THEOREM CompletionIsProved == Spec => []CompletedOnProof
<1>1. IInv => CompletedOnProof
  BY DEF IInv
<1> QED
  BY <1>1, Invariant, PTL

\* A budget is never reported exhausted that was not.
THEOREM BudgetStopsAreReal == Spec => []BudgetStopIsReal
<1>1. IInv => BudgetStopIsReal
  BY DEF IInv
<1> QED
  BY <1>1, Invariant, PTL

\* A pass or a failure is recorded for the expected revision only, and for what its
\* own code did unless others changed the directory and changed it back meanwhile.
THEOREM ProbesAreExact == Spec => ProbeIsExact
<1> DEFINE Exactly ==
      \A t \in Targets:
        probes'[t] # probes[t] /\ probes'[t].result \in {"passed", "failed"} =>
            LET artifact == probes'[t].artifact
            IN  /\ artifact = probes'[t].expected
                /\ rev.baseline \in commits[artifact].line
                /\ probing.ran # "none" /\ outside <= probing.since + 1 =>
                       probing.ran = commits[artifact].code
<1>1. IInv /\ [Next]_vars => [Exactly]_vars
  <2> SUFFICES ASSUME IInv, [Next]_vars PROVE Exactly
    OBVIOUS
  <2>1. CASE probes' = probes
    BY <2>1
  <2>2. CASE probes' # probes
    <3>1. RecordProbe
      BY <2>2, Writers
    <3> QED
      BY <2>2, <3>1, RecordedProbe
  <2> QED
    BY <2>1, <2>2
<1> QED
  BY <1>1, Invariant, PTL DEF Spec, ProbeIsExact

\* The step that writes the receipt reports what the evidence admits.
LEMMA ReportStep ==
    ASSUME IInv, WriteReceipt
    PROVE  Promise!Report
<1>1. pc = "receipt" /\ receipt = NoReceipt /\ UNCHANGED probes
  BY DEF WriteReceipt, IInv, Directory, Reported
<1>2. /\ receipt'.status = stop.status
      /\ receipt'.disposition = Disposition(Before(stop.point), After(stop.point))
  BY DEF WriteReceipt, Receipt
<1>3. /\ StageEarly /\ StageRevisions /\ StageProbe /\ StageEnd /\ StageStop /\ TypeOK
      /\ stop.status \in Stops /\ stop.point \in Points
  BY <1>1 DEF IInv, Stages, Live, StageStop, StopType
<1> DEFINE E == [t \in Targets |-> probes[t].result]
<1>4. /\ E["baseline"] = probes["baseline"].result
      /\ E["first"] = probes["first"].result /\ E["second"] = probes["second"].result
      /\ \A t \in Targets: E[t] = "not_run" <=> Blank(t)
  BY <1>3 DEF Targets, TypeOK, OutputTypes, RecordType, Results, NoRecord, Blank
<1>5. Promise!After = After(stop.point)
  BY <1>1, <1>3, <1>4, ReportedResults
  DEF Promise!After, StageRevisions, StageEarly, Where, Early, Targets, Integration, After
<1>6. Promise!Disposition = Disposition(Before(stop.point), After(stop.point))
  BY <1>1, <1>4, <1>5, ReportedResults DEF Promise!Disposition, Disposition
<1>7. stop.status \in Promise!Admitted
  <2>1. CASE stop.status = "budget_exhausted"
    BY <2>1 DEF Promise!Admitted
  <2>2. CASE stop.status = "mission_mismatch"
    <3>1. \A t \in Targets: Blank(t)
      BY <1>1, <1>3, <2>2 DEF StageStop, StageEarly, Where, Early
    <3>2. E = [t \in Targets |-> "not_run"]
      BY <1>4, <3>1
    <3> QED
      BY <2>2, <3>2 DEF Promise!Admitted, Promise!Unknown, Promise!Targets, Targets
  <2>3. CASE stop.status = "capability_unproven"
    <3>1. /\ stop.point = "probed" /\ Target \in {"baseline", "first"} /\ ~Blank(Target)
          /\ Target = "baseline" => probes["baseline"].result # "passed"
          /\ Target = "first" => probes["first"].result = "inconclusive"
      BY <1>1, <1>3, <2>3 DEF StageStop, StageProbe, Where, Probed, Target
    <3>2. E # [t \in Targets |-> "not_run"]
      BY <1>4, <3>1 DEF Targets
    <3>3. After(stop.point) = IF Target = "baseline" THEN "not_run" ELSE "inconclusive"
      BY <3>1 DEF After, Target, Integration
    <3>4. Promise!Disposition = "unproven"
      BY <1>6, <3>3 DEF Disposition
    <3> QED
      BY <2>3, <3>2, <3>4 DEF Promise!Admitted, Promise!Unknown, Promise!Targets, Targets
  <2>4. CASE stop.status = "completed"
    <3>1. E["second"] = "passed"
      BY <1>1, <1>3, <1>4, <2>4 DEF StageStop, StageEnd, Where, Ending
    <3> QED
      BY <2>4, <3>1 DEF Promise!Admitted
  <2> QED
    BY <1>3, <2>1, <2>2, <2>3, <2>4 DEF Stops
<1>8. receipt' # NoReceipt
  BY <1>2, <1>3 DEF NoReceipt, Stops
<1> QED
  BY <1>1, <1>2, <1>6, <1>7, <1>8 DEF Promise!Report, Promise!Open, Reported

\* The step that records a probe learns one licensed piece of evidence.
LEMMA LearnStep ==
    ASSUME IInv, RecordProbe, probes' # probes
    PROVE  \E t \in Targets, result \in Results: Promise!Learn(t, result)
<1>1. /\ Target \in Targets /\ Blank(Target) /\ probes'[Target] \in RecordType
      /\ \A t \in Targets \ {Target}: probes'[t] = probes[t]
      /\ DOMAIN probes' = Targets /\ receipt' = receipt /\ pc = "record"
  BY RecordedProbe DEF RecordProbe
<1>2. receipt = NoReceipt /\ StageRevisions /\ TypeOK
  BY <1>1 DEF IInv, Directory, Reported, Stages, Live
<1>3. /\ Target = "first" => probes["baseline"].result = "passed"
      /\ Target = "second" => probes["first"].result = "failed"
  BY <1>1, <1>2 DEF StageRevisions, Where, Early, Target, Regressed
<1>4. [t \in Targets |-> probes'[t].result] =
      [[t \in Targets |-> probes[t].result] EXCEPT ![Target] = probes'[Target].result]
  BY <1>1
<1>5. probes[Target].result = "not_run" /\ probes'[Target].result \in Results
  BY <1>1 DEF Blank, NoRecord, RecordType
<1>6. PICK t \in Targets, result \in Results: t = Target /\ result = probes'[Target].result
  BY <1>1, <1>5
<1>7. Promise!Learn(t, result)
  BY <1>1, <1>2, <1>3, <1>4, <1>5, <1>6
  DEF Promise!Learn, Promise!Licensed, Promise!Open, Promise!Targets, Targets, Reported
<1> QED
  BY <1>7

\* A capability-preservation run is an honest preservation gate.
THEOREM ImplementsGate == Spec => KeepsPromise
<1>1. Init => Promise!Init
  BY DEF Init, Promise!Init, Promise!Unknown, Promise!Open, Promise!Targets, Targets, Reported,
     NoRecord
<1>2. IInv /\ [Next]_vars => [Promise!Next]_Promise!gate
  <2> SUFFICES ASSUME IInv, [Next]_vars PROVE [Promise!Next]_Promise!gate
    OBVIOUS
  <2>1. CASE probes' # probes
    <3>1. RecordProbe
      BY <2>1, Writers
    <3>2. \E t \in Targets, result \in Results: Promise!Learn(t, result)
      BY <2>1, <3>1, LearnStep
    <3>3. Promise!Targets = Targets /\ Promise!Results = Results
      BY DEF Promise!Targets, Promise!Results, Targets, Results
    <3> QED
      BY <3>2, <3>3 DEF Promise!Next
  <2>2. CASE receipt' # receipt
    BY <2>2, Writers, ReportStep DEF Promise!Next
  <2>3. CASE UNCHANGED <<probes, receipt>>
    BY <2>3 DEF Promise!gate, Reported
  <2> QED
    BY <2>1, <2>2, <2>3
<1> QED
  BY <1>1, <1>2, Invariant, PTL DEF Spec, KeepsPromise, Promise!Spec
-----------------------------------------------------------------------------
(* The ledger and the files a receipt cites.                               *)

LedgerStates ==
    {"none", "draft", "mission_binding_check", "approved", "capability_baseline", "assigned",
     "building", "mechanical_check", "critic_review", "accepted_unit", "integrating",
     "capability_check", "capability_regression", "final_review"} \union Stops
EventType == [previous: LedgerStates, state: LedgerStates, artifact: Nat]

\* A sequence of events as a ledger: its chain, its builds.
Follows(previous, state) ==
    /\ previous \notin Stops
    /\ <<previous, state>> \in Lifecycle \/ state \in Stops \ {"completed"}
Chained(events) ==
    \A i \in 1..Len(events):
        /\ events[i].previous = IF i = 1 THEN "none" ELSE events[i - 1].state
        /\ Follows(events[i].previous, events[i].state)
Builds(events) == Cardinality({i \in 1..Len(events): events[i].state = "building"})

\* The state the ledger is in at each point of execute().
StateAt ==
    CASE pc = "receipt" -> stop.status
      [] pc = "binding" -> "draft"
      [] pc \in {"approved", "baseline"} -> "approved"
      [] pc \in Probing \union Probed ->
            IF Target = "baseline" THEN "capability_baseline" ELSE "capability_check"
      [] pc = "build" -> IF rev.first = 0 THEN "capability_baseline" ELSE "capability_regression"
      [] pc \in {"built", "seal"} -> "building"
      [] pc \in {"reviewed", "integrate"} -> "critic_review"
      [] OTHER -> "final_review"

\* The ledger is chained, stands where the process does, and counts its rounds.
LedgerKept ==
    /\ ledger \in Seq(EventType) /\ Chained(ledger)
    /\ disk = {} => ledger = <<>>
    /\ ledger # <<>> => request.rounds >= 0 /\ Builds(ledger) <= 1 + request.rounds
    /\ Live => /\ State = StateAt
               /\ Builds(ledger) = IF rev.worker = 0 THEN 0 ELSE IF rev.repaired = 0 THEN 1 ELSE 2

\* What a live point knows of the files.
FilesLive ==
    /\ {"events", "mission", "task"} \subseteq disk
    /\ Where # "binding" => "binding" \in disk
    /\ rev.worker # 0 => "worker-check" \in disk
    /\ rev.first # 0 => rev.worker # 0 /\ {"verdict-1", "packet-1"} \subseteq disk
    /\ Where \in Working \ {"build"} => rev.worker # 0
    /\ Where \in Early \union Probing \union Probed \union {"build"} /\ rev.first = 0 => rev.worker = 0
    /\ Where = "build" /\ rev.first # 0 => "disposition-1" \in disk
    /\ rev.repaired # 0 => {"repair-check", "disposition-1"} \subseteq disk
    /\ Where \in {"reviewed", "integrate"} => {Packet, Verdict} \subseteq disk
    /\ rev.second # 0 => {"verdict-2", "packet-2"} \subseteq disk
    /\ Where \in Ending => {"disposition-2", "final-mission"} \subseteq disk
    /\ pc = "receipt" => stop.refs \subseteq disk

\* A probe on record left its file.
FilesKept == (\A t \in Targets: ~Blank(t) => t \in disk) /\ (Live => FilesLive)

\* The receipt closes the ledger, and the exit code is about the receipt.
Closed ==
    /\ ReceiptClosesLedger
    /\ pc = "return" => Reported /\ receipt.status = stop.status

Papers == LedgerKept /\ FilesKept /\ Closed

\* The step leaves the events that are there.
Extends == SubSeq(ledger', 1, Len(ledger)) = ledger

\* Where the elements of a concatenation are.
LEMMA Joined ==
    ASSUME NEW S, NEW s \in Seq(S), NEW t \in Seq(S)
    PROVE  /\ s \o t \in Seq(S) /\ Len(s \o t) = Len(s) + Len(t)
           /\ Len(s) \in Nat /\ Len(t) \in Nat
           /\ \A i \in 1..Len(s): (s \o t)[i] = s[i]
           /\ \A j \in 1..Len(t): (s \o t)[Len(s) + j] = t[j]
           /\ \A i \in 1..(Len(s) + Len(t)): i \in 1..Len(s) \/ \E j \in 1..Len(t): i = Len(s) + j
<1>1. Len(s) \in Nat /\ Len(t) \in Nat
  BY LenProperties
<1>2. /\ s \o t \in Seq(S) /\ Len(s \o t) = Len(s) + Len(t)
      /\ \A i \in 1..(Len(s) + Len(t)): (s \o t)[i] = IF i <= Len(s) THEN s[i] ELSE t[i - Len(s)]
  BY ConcatProperties
<1>3. \A n, k \in Nat: /\ \A i \in 1..n: i \in 1..(n + k) /\ i <= n
                     /\ \A j \in 1..k: n + j \in 1..(n + k) /\ ~(n + j <= n) /\ (n + j) - n = j
                     /\ \A i \in 1..(n + k): i \in 1..n \/ (i - n \in 1..k /\ i = n + (i - n))
  OBVIOUS
<1>4. \A i \in 1..Len(s): (s \o t)[i] = s[i]
  BY <1>1, <1>2, <1>3, ZenonT(40)
<1>5. \A j \in 1..Len(t): (s \o t)[Len(s) + j] = t[j]
  <2> SUFFICES ASSUME NEW j \in 1..Len(t) PROVE (s \o t)[Len(s) + j] = t[j]
    OBVIOUS
  <2>1. /\ Len(s) + j \in 1..(Len(s) + Len(t)) /\ ~(Len(s) + j <= Len(s))
        /\ (Len(s) + j) - Len(s) = j
    BY <1>1, <1>3
  <2> QED
    BY <1>2, <2>1, ZenonT(40)
<1>6. \A i \in 1..(Len(s) + Len(t)): i \in 1..Len(s) \/ \E j \in 1..Len(t): i = Len(s) + j
  <2> SUFFICES ASSUME NEW i \in 1..(Len(s) + Len(t)), i \notin 1..Len(s)
               PROVE  \E j \in 1..Len(t): i = Len(s) + j
    OBVIOUS
  <2>1. i - Len(s) \in 1..Len(t) /\ i = Len(s) + (i - Len(s))
    BY <1>1, <1>3
  <2> QED
    BY <2>1
<1> QED
  BY <1>1, <1>2, <1>4, <1>5, <1>6

\* One append() for each move: a chain of moves extends the chain.
LEMMA Grown ==
    ASSUME ledger \in Seq(EventType), Chained(ledger),
           NEW moves \in Seq(LedgerStates \X Nat), moves # <<>>, ledger' = Log(moves),
           \A i \in 1..Len(moves): Follows(IF i = 1 THEN State ELSE moves[i - 1][1], moves[i][1])
    PROVE  /\ ledger' \in Seq(EventType) /\ Chained(ledger') /\ ledger' # <<>> /\ Extends
           /\ State' = moves[Len(moves)][1]
           /\ Builds(ledger) \in Nat
           /\ (\A i \in 1..Len(moves): moves[i][1] # "building") => Builds(ledger') = Builds(ledger)
           /\ (\A i \in 1..Len(moves): moves[i][1] = "building" <=> i = Len(moves))
                  => Builds(ledger') = Builds(ledger) + 1
<1> DEFINE n == Len(ledger)
           k == Len(moves)
           Prior(i) == IF i = 1 THEN State ELSE moves[i - 1][1]
           added == [i \in 1..k |-> [previous |-> Prior(i), state |-> moves[i][1], artifact |-> moves[i][2]]]
<1>0. ledger' = ledger \o added
  BY DEF Log
<1>1. /\ n \in Nat /\ k \in Nat /\ k > 0
      /\ \A i \in 1..k: moves[i] \in LedgerStates \X Nat
      /\ \A i \in 1..n: ledger[i] \in EventType
  BY LenProperties, EmptySeq, ElementOfSeq
<1>2. \A i \in 1..k: Follows(Prior(i), moves[i][1])
  OBVIOUS
<1>3. State = IF n = 0 THEN "none" ELSE ledger[n].state
  BY LenProperties, EmptySeq DEF State
<1>4. \A i \in 1..n: /\ ledger[i].previous = IF i = 1 THEN "none" ELSE ledger[i - 1].state
                     /\ Follows(ledger[i].previous, ledger[i].state)
  BY DEF Chained
<1>5. Prior(1) = State /\ \A i \in 1..k: i # 1 => Prior(i) = moves[i - 1][1]
  OBVIOUS
<1> HIDE DEF n, k, Prior
<1>6. State \in LedgerStates
  <2>1. n # 0 => n \in 1..n
    BY <1>1
  <2> QED
    BY <1>1, <1>3, <2>1 DEF EventType, LedgerStates
<1>7. \A i \in 1..k: Prior(i) \in LedgerStates
  <2> SUFFICES ASSUME NEW i \in 1..k PROVE Prior(i) \in LedgerStates
    OBVIOUS
  <2>1. i # 1 => i - 1 \in 1..k
    BY <1>1
  <2> QED
    BY <1>1, <1>5, <1>6, <2>1
<1>8. added \in Seq(EventType) /\ Len(added) = k
  <2>1. \A i \in 1..k: [previous |-> Prior(i), state |-> moves[i][1], artifact |-> moves[i][2]] \in EventType
    BY <1>1, <1>7 DEF EventType
  <2>2. added \in [1..k -> EventType]
    BY <2>1
  <2> HIDE DEF added
  <2> QED
    BY <1>1, <2>2
<1>9. \A i \in 1..k: added[i].previous = Prior(i) /\ added[i].state = moves[i][1]
  OBVIOUS
<1> HIDE DEF added
<1>10. /\ ledger' \in Seq(EventType) /\ Len(ledger') = n + k
       /\ \A i \in 1..n: ledger'[i] = ledger[i]
       /\ \A j \in 1..k: ledger'[n + j] = added[j]
       /\ \A i \in 1..(n + k): i \in 1..n \/ \E j \in 1..k: i = n + j
  <2>1. \A t \in Seq(EventType):
          /\ ledger \o t \in Seq(EventType) /\ Len(ledger \o t) = n + Len(t)
          /\ \A i \in 1..n: (ledger \o t)[i] = ledger[i]
          /\ \A j \in 1..Len(t): (ledger \o t)[n + j] = t[j]
          /\ \A i \in 1..(n + Len(t)): i \in 1..n \/ \E j \in 1..Len(t): i = n + j
    BY Joined DEF n
  <2>2. /\ ledger \o added \in Seq(EventType) /\ Len(ledger \o added) = n + Len(added)
        /\ \A i \in 1..n: (ledger \o added)[i] = ledger[i]
        /\ \A j \in 1..Len(added): (ledger \o added)[n + j] = added[j]
        /\ \A i \in 1..(n + Len(added)): i \in 1..n \/ \E j \in 1..Len(added): i = n + j
    BY <1>8, <2>1
  <2> QED
    BY <1>0, <1>8, <2>2
<1>11. \A j \in 1..k: ledger'[n + j].previous = Prior(j) /\ ledger'[n + j].state = moves[j][1]
  BY <1>9, <1>10
<1>12. \A j \in 1..k: Prior(j) = IF n + j = 1 THEN "none" ELSE ledger'[n + j - 1].state
  <2> SUFFICES ASSUME NEW j \in 1..k
               PROVE  Prior(j) = IF n + j = 1 THEN "none" ELSE ledger'[n + j - 1].state
    OBVIOUS
  <2>1. CASE j = 1
    <3>1. n + j - 1 = n /\ (n # 0 => n \in 1..n) /\ (n + j = 1 <=> n = 0)
      BY <1>1, <2>1
    <3> QED
      BY <1>3, <1>5, <1>10, <2>1, <3>1
  <2>2. CASE j # 1
    <3>1. j - 1 \in 1..k /\ n + j # 1 /\ n + j - 1 = n + (j - 1)
      BY <1>1, <2>2
    <3> QED
      BY <1>5, <1>11, <2>2, <3>1
  <2> QED
    BY <2>1, <2>2
<1>13. Chained(ledger')
  <2> SUFFICES ASSUME NEW i \in 1..(n + k)
               PROVE  /\ ledger'[i].previous = IF i = 1 THEN "none" ELSE ledger'[i - 1].state
                      /\ Follows(ledger'[i].previous, ledger'[i].state)
    BY <1>10 DEF Chained
  <2>1. CASE i \in 1..n
    <3>1. i # 1 => i - 1 \in 1..n
      BY <1>1, <2>1
    <3> QED
      BY <1>4, <1>10, <2>1, <3>1
  <2>2. ASSUME NEW j \in 1..k, i = n + j
        PROVE  /\ ledger'[i].previous = IF i = 1 THEN "none" ELSE ledger'[i - 1].state
               /\ Follows(ledger'[i].previous, ledger'[i].state)
    <3>1. ledger'[i].previous = Prior(j) /\ ledger'[i].state = moves[j][1]
      BY <1>11, <2>2
    <3>2. Prior(j) = IF i = 1 THEN "none" ELSE ledger'[i - 1].state
      <4>1. Prior(j) = IF n + j = 1 THEN "none" ELSE ledger'[n + j - 1].state
        BY <1>12
      <4> QED
        BY <1>1, <2>2, <4>1
    <3>3. Follows(Prior(j), moves[j][1])
      BY <1>2
    <3> QED
      BY <3>1, <3>2, <3>3
  <2> QED
    BY <1>10, <2>1, <2>2
<1>14. State' = moves[k][1] /\ ledger' # <<>>
  <2>1. k \in 1..k /\ n + k # 0
    BY <1>1
  <2>2. ledger' # <<>>
    BY <1>10, <2>1
  <2> QED
    BY <1>10, <1>11, <2>1, <2>2 DEF State
<1>21. Extends
  <2>1. \A i \in 1..n: ledger'[i] \in EventType /\ ledger'[1 + i - 1] = ledger[i]
    BY <1>1, <1>10
  <2>2. 1 \in Int /\ n \in Int /\ n - 1 + 1 = n /\ (IF 1 <= n THEN n - 1 + 1 ELSE 0) = n
    BY <1>1
  <2> DEFINE kept == SubSeq(ledger', 1, n)
  <2>3. kept \in Seq(EventType) /\ Len(kept) = n /\ \A i \in 1..n: kept[i] = ledger[i]
    BY <2>1, <2>2, SubSeqProperties
  <2> HIDE DEF kept
  <2>4. kept = ledger
    BY <2>3, SeqEqual DEF n
  <2> QED
    BY <2>4 DEF kept, Extends, n
<1> DEFINE B(L) == {i \in 1..Len(L): L[i].state = "building"}
<1>15. IsFiniteSet(B(ledger)) /\ Cardinality(B(ledger)) \in Nat
  <2>1. IsFiniteSet(1..n)
    BY <1>1, FS_Interval
  <2>2. B(ledger) \subseteq 1..n
    BY DEF n
  <2> QED
    BY <2>1, <2>2, FS_Subset, FS_CardinalityType
<1>16. \A i: i \in B(ledger') <=> i \in B(ledger) \/ \E j \in 1..k: i = n + j /\ moves[j][1] = "building"
  <2>1. \A j \in 1..k: n + j \in 1..(n + k)
    BY <1>1
  <2>2. \A i \in 1..n: i \in 1..(n + k)
    BY <1>1
  <2>3. \A i: i \in B(ledger') <=> i \in 1..(n + k) /\ ledger'[i].state = "building"
    BY <1>10
  <2>4. \A i: i \in B(ledger) <=> i \in 1..n /\ ledger[i].state = "building"
    BY DEF n
  <2> HIDE DEF B
  <2> SUFFICES ASSUME NEW i
               PROVE  i \in B(ledger') <=> i \in B(ledger) \/ \E j \in 1..k: i = n + j /\ moves[j][1] = "building"
    OBVIOUS
  <2>5. ASSUME i \in B(ledger')
        PROVE  i \in B(ledger) \/ \E j \in 1..k: i = n + j /\ moves[j][1] = "building"
    <3>1. i \in 1..(n + k) /\ ledger'[i].state = "building"
      BY <2>3, <2>5
    <3>2. CASE i \in 1..n
      BY <1>10, <2>4, <3>1, <3>2
    <3>3. CASE \E j \in 1..k: i = n + j
      BY <1>11, <3>1, <3>3
    <3> QED
      BY <1>10, <3>1, <3>2, <3>3
  <2>6. ASSUME i \in B(ledger)
        PROVE  i \in B(ledger')
    <3>1. i \in 1..n /\ ledger[i].state = "building"
      BY <2>4, <2>6
    <3>2. i \in 1..(n + k) /\ ledger'[i] = ledger[i]
      BY <1>10, <2>2, <3>1
    <3> QED
      BY <2>3, <3>1, <3>2
  <2>7. ASSUME NEW j \in 1..k, i = n + j, moves[j][1] = "building"
        PROVE  i \in B(ledger')
    BY <1>11, <2>1, <2>3, <2>7
  <2> QED
    BY <2>5, <2>6, <2>7
<1>17. n + k \notin B(ledger)
  <2>1. n + k \notin 1..n
    BY <1>1
  <2> QED
    BY <2>1 DEF n
<1> HIDE DEF B
<1>18. ASSUME \A i \in 1..k: moves[i][1] # "building"
       PROVE  B(ledger') = B(ledger)
  BY <1>16, <1>18
<1>19. ASSUME \A i \in 1..k: moves[i][1] = "building" <=> i = k
       PROVE  Cardinality(B(ledger')) = Cardinality(B(ledger)) + 1
  <2>1. k \in 1..k
    BY <1>1
  <2>2. B(ledger') = B(ledger) \union {n + k}
    BY <1>16, <1>19, <2>1
  <2> QED
    BY <1>15, <1>17, <2>2, FS_AddElement
<1>20. Builds(ledger) = Cardinality(B(ledger)) /\ Builds(ledger') = Cardinality(B(ledger'))
  BY DEF Builds, B
<1> QED
  BY <1>10, <1>13, <1>14, <1>15, <1>18, <1>19, <1>20, <1>21 DEF k

\* Moves put together.
LEMMA Pairs ==
    ASSUME NEW S, NEW x \in S, NEW y \in S
    PROVE  <<x>> \o <<y>> = <<x, y>> /\ Append(<<x>>, y) = <<x, y>>
<1>1. /\ <<x>> \in Seq(S) /\ <<y>> \in Seq(S) /\ <<x, y>> \in Seq(S)
      /\ Len(<<x>>) = 1 /\ Len(<<y>>) = 1 /\ Len(<<x, y>>) = 2
  OBVIOUS
<1>2. \A i \in 1..2: (<<x>> \o <<y>>)[i] = <<x, y>>[i]
  OBVIOUS
<1>3. <<x>> \o <<y>> \in Seq(S) /\ Len(<<x>> \o <<y>>) = 2
  BY <1>1, ConcatProperties
<1>4. Append(<<x>>, y) \in Seq(S) /\ Len(Append(<<x>>, y)) = 2 /\ Append(<<x>>, y)[1] = x /\ Append(<<x>>, y)[2] = y
  BY <1>1, AppendProperties
<1>5. \A i \in 1..2: Append(<<x>>, y)[i] = <<x, y>>[i]
  <2>1. \A i \in 1..2: i = 1 \/ i = 2
    OBVIOUS
  <2> QED
    BY <1>4, <2>1
<1> QED
  BY <1>1, <1>2, <1>3, <1>4, <1>5, SeqEqual

\* How the ledger grows: to state s, and by b starts of work.
Grows(s, b) ==
    /\ ledger' \in Seq(EventType) /\ Chained(ledger') /\ ledger' # <<>> /\ Extends
    /\ State' = s
    /\ Builds(ledger) \in Nat /\ Builds(ledger') = Builds(ledger) + b

\* One move that starts no work.
LEMMA GrownByOne ==
    ASSUME ledger \in Seq(EventType), Chained(ledger),
           NEW s \in LedgerStates, NEW a \in Nat,
           ledger' = Log(<< <<s, a>> >>), Follows(State, s), s # "building"
    PROVE  Grows(s, 0)
<1> DEFINE moves == << <<s, a>> >>
<1>1. moves \in Seq(LedgerStates \X Nat) /\ moves # <<>> /\ Len(moves) = 1
  OBVIOUS
<1>2. \A i \in 1..Len(moves): i = 1 /\ moves[i][1] = s
  OBVIOUS
<1> HIDE DEF moves
<1>3. \A i \in 1..Len(moves): Follows(IF i = 1 THEN State ELSE moves[i - 1][1], moves[i][1])
  BY <1>2
<1>4. ledger' = Log(moves)
  BY DEF moves
<1>5. /\ ledger' \in Seq(EventType) /\ Chained(ledger') /\ ledger' # <<>> /\ Extends
      /\ State' = moves[Len(moves)][1]
      /\ Builds(ledger) \in Nat
      /\ (\A i \in 1..Len(moves): moves[i][1] # "building") => Builds(ledger') = Builds(ledger)
      /\ (\A i \in 1..Len(moves): moves[i][1] = "building" <=> i = Len(moves))
             => Builds(ledger') = Builds(ledger) + 1
  BY <1>1, <1>3, <1>4, Grown
<1> QED
  BY <1>1, <1>2, <1>5 DEF Grows

\* The last of two moves may start work.
LEMMA GrownByTwo ==
    ASSUME ledger \in Seq(EventType), Chained(ledger),
           NEW s \in LedgerStates, NEW a \in Nat, NEW t \in LedgerStates, NEW b \in Nat,
           ledger' = Log(<< <<s, a>>, <<t, b>> >>), Follows(State, s), Follows(s, t), s # "building"
    PROVE  Grows(t, IF t = "building" THEN 1 ELSE 0)
<1> DEFINE moves == << <<s, a>>, <<t, b>> >>
<1>1. moves \in Seq(LedgerStates \X Nat) /\ moves # <<>> /\ Len(moves) = 2
  OBVIOUS
<1>2. /\ \A i \in 1..Len(moves): i = 1 \/ i = 2
      /\ moves[1][1] = s /\ moves[2][1] = t /\ 2 - 1 = 1
  OBVIOUS
<1> HIDE DEF moves
<1>3. \A i \in 1..Len(moves): Follows(IF i = 1 THEN State ELSE moves[i - 1][1], moves[i][1])
  <2> SUFFICES ASSUME NEW i \in 1..Len(moves)
               PROVE  Follows(IF i = 1 THEN State ELSE moves[i - 1][1], moves[i][1])
    OBVIOUS
  <2>1. CASE i = 1
    BY <1>2, <2>1
  <2>2. CASE i = 2
    BY <1>2, <2>2
  <2> QED
    BY <1>2, <2>1, <2>2
<1>4. ledger' = Log(moves)
  BY DEF moves
<1>5. /\ ledger' \in Seq(EventType) /\ Chained(ledger') /\ ledger' # <<>> /\ Extends
      /\ State' = moves[Len(moves)][1]
      /\ Builds(ledger) \in Nat
      /\ (\A i \in 1..Len(moves): moves[i][1] # "building") => Builds(ledger') = Builds(ledger)
      /\ (\A i \in 1..Len(moves): moves[i][1] = "building" <=> i = Len(moves))
             => Builds(ledger') = Builds(ledger) + 1
  BY <1>1, <1>3, <1>4, Grown
<1> QED
  BY <1>1, <1>2, <1>5 DEF Grows

\* An accepted unit is logged in three moves.
LEMMA GrownByThree ==
    ASSUME ledger \in Seq(EventType), Chained(ledger),
           NEW s \in LedgerStates, NEW a \in Nat, NEW t \in LedgerStates, NEW b \in Nat,
           NEW u \in LedgerStates, NEW c \in Nat,
           ledger' = Log(<< <<s, a>>, <<t, b>>, <<u, c>> >>),
           Follows(State, s), Follows(s, t), Follows(t, u), "building" \notin {s, t, u}
    PROVE  Grows(u, 0)
<1> DEFINE moves == << <<s, a>>, <<t, b>>, <<u, c>> >>
<1>1. moves \in Seq(LedgerStates \X Nat) /\ moves # <<>> /\ Len(moves) = 3
  OBVIOUS
<1>2. /\ \A i \in 1..Len(moves): i = 1 \/ i = 2 \/ i = 3
      /\ moves[1][1] = s /\ moves[2][1] = t /\ moves[3][1] = u
  OBVIOUS
<1> HIDE DEF moves
<1>3. \A i \in 1..Len(moves): Follows(IF i = 1 THEN State ELSE moves[i - 1][1], moves[i][1])
  <2> SUFFICES ASSUME NEW i \in 1..Len(moves)
               PROVE  Follows(IF i = 1 THEN State ELSE moves[i - 1][1], moves[i][1])
    OBVIOUS
  <2>1. CASE i = 1
    BY <1>2, <2>1
  <2>2. CASE i = 2
    BY <1>2, <2>2
  <2>3. CASE i = 3
    BY <1>2, <2>3
  <2> QED
    BY <1>2, <2>1, <2>2, <2>3
<1>4. ledger' = Log(moves)
  BY DEF moves
<1>5. /\ ledger' \in Seq(EventType) /\ Chained(ledger') /\ ledger' # <<>> /\ Extends
      /\ State' = moves[Len(moves)][1]
      /\ Builds(ledger) \in Nat
      /\ (\A i \in 1..Len(moves): moves[i][1] # "building") => Builds(ledger') = Builds(ledger)
      /\ (\A i \in 1..Len(moves): moves[i][1] = "building" <=> i = Len(moves))
             => Builds(ledger') = Builds(ledger) + 1
  BY <1>1, <1>3, <1>4, Grown
<1> QED
  BY <1>1, <1>2, <1>5 DEF Grows

\* An empty ledger has started no work.
LEMMA NoBuilds == Builds(<<>>) = 0
<1>1. {i \in 1..Len(<<>>): <<>>[i].state = "building"} = {}
  OBVIOUS
<1> QED
  BY <1>1, FS_EmptySet DEF Builds

\* The start of the second round.
LEMMA BuildGrows ==
    ASSUME ledger \in Seq(EventType), Chained(ledger), NEW a \in Nat,
           ledger' = Log(<< <<"building", a>> >>), Follows(State, "building")
    PROVE  Grows("building", 1)
<1> DEFINE moves == << <<"building", a>> >>
<1>1. moves \in Seq(LedgerStates \X Nat) /\ moves # <<>> /\ Len(moves) = 1
  BY DEF LedgerStates
<1>2. \A i \in 1..Len(moves): i = 1 /\ moves[i][1] = "building"
  OBVIOUS
<1> HIDE DEF moves
<1>3. \A i \in 1..Len(moves): Follows(IF i = 1 THEN State ELSE moves[i - 1][1], moves[i][1])
  BY <1>2
<1>4. ledger' = Log(moves)
  BY DEF moves
<1>5. /\ ledger' \in Seq(EventType) /\ Chained(ledger') /\ ledger' # <<>> /\ Extends
      /\ State' = moves[Len(moves)][1]
      /\ Builds(ledger) \in Nat
      /\ (\A i \in 1..Len(moves): moves[i][1] = "building" <=> i = Len(moves))
             => Builds(ledger') = Builds(ledger) + 1
  BY <1>1, <1>3, <1>4, Grown
<1> QED
  BY <1>1, <1>2, <1>5 DEF Grows

\* What the process holds: revisions are numbers, and a live process has
\* authorized rounds and an output directory.
LEMMA HeldFacts ==
    ASSUME IInv
    PROVE  /\ rev \in Revisions /\ request \in Requests /\ request.rounds \in Int
           /\ Integration \in Nat /\ ResultRevision \in Nat
           /\ Live => /\ StageEarly /\ StageRevisions /\ StageProbe /\ StageWork /\ StageEnd /\ StageStop
                      /\ request.rounds >= 0 /\ disk # {} /\ ~Reported
<1>1. rev \in Revisions /\ request \in Requests
  BY DEF IInv, TypeOK, ProcessTypes
<1>2. request.rounds \in Int
  BY <1>1, RequestsAssumption DEF RequestType
<1>3. Integration \in Nat /\ ResultRevision \in Nat
  BY <1>1 DEF Integration, ResultRevision, Revisions
<1> QED
  BY <1>1, <1>2, <1>3 DEF IInv, Stages, Directory, Live

\* A step that logs keeps the ledger if it arrives where the ledger says.
LEMMA LoggedKept ==
    ASSUME LedgerKept, NEW s, NEW b \in Nat, Grows(s, b), disk' # {}, request' = request,
           request.rounds \in Int, request.rounds >= 0, Builds(ledger) + b <= 1 + request.rounds,
           Live' => /\ s = StateAt'
                    /\ Builds(ledger) + b = IF rev'.worker = 0 THEN 0 ELSE IF rev'.repaired = 0 THEN 1 ELSE 2
    PROVE  LedgerKept' /\ Extends
  BY DEF LedgerKept, Grows

\* A step that does not log keeps it if it stays where the ledger says.
LEMMA UnloggedKept ==
    ASSUME LedgerKept, ledger' = ledger, disk \subseteq disk', request' = request,
           Live' => /\ Live /\ StateAt' = StateAt
                    /\ UNCHANGED <<rev.worker, rev.repaired>>
    PROVE  LedgerKept' /\ Extends
<1>1. State' = State /\ Builds(ledger') = Builds(ledger)
  BY DEF State
<1>2. Extends
  BY SubSeqFull DEF LedgerKept, Extends
<1> QED
  BY <1>1, <1>2 DEF LedgerKept

\* The same from a live point, when no work is started.
LEMMA LiveLogged ==
    ASSUME IInv, LedgerKept, Live, NEW s, Grows(s, 0), disk \subseteq disk', request' = request,
           Live' => s = StateAt' /\ UNCHANGED <<rev.worker, rev.repaired>>
    PROVE  LedgerKept' /\ Extends
<1>1. /\ disk' # {} /\ request.rounds \in Int /\ request.rounds >= 0
  BY HeldFacts
<1>2. ledger # <<>>
  BY <1>1, HeldFacts DEF LedgerKept, Live, State, StateAt, StageStop, StopType, Stops
<1>3. Builds(ledger) <= 1 + request.rounds /\ Builds(ledger) \in Nat
  BY <1>2 DEF LedgerKept, Grows
<1>4. Builds(ledger) + 0 = Builds(ledger)
  BY <1>3
<1> QED
  BY <1>1, <1>3, <1>4, LoggedKept DEF LedgerKept

\* The files only grow, and the command line stays.
LEMMA DiskGrows == [Next]_vars => disk \subseteq disk' /\ request' = request
  BY Looks DEF Next, Step, Start, Bind, Gate, CaptureBaseline, Look, RecordProbe,
         Decide, DecideBaseline, DecideFirst, DecideSecond, Build, Review, Integrate, Complete,
         WriteReceipt, Return, Tick, Die, Rerun, Outside, output, process, vars

\* From the command line to the baseline.
LEMMA EarlyLogged ==
    ASSUME IInv, LedgerKept, FilesKept, Start \/ Bind \/ CaptureBaseline
    PROVE  LedgerKept' /\ Extends
<1>0. disk \subseteq disk' /\ request' = request
  BY DiskGrows DEF Next, Step
<1>1. CASE Start
  <2>1. CASE UNCHANGED ledger /\ pc' = "exited"
    BY <1>0, <2>1, UnloggedKept DEF Live
  <2>2. CASE ~(UNCHANGED ledger /\ pc' = "exited")
    <3>1. /\ pc = "idle" /\ pc' = "binding" /\ disk = {} /\ disk' # {} /\ rev' = rev
          /\ request.rounds >= 0 /\ ledger' = Log(<< <<"draft", 0>> >>)
      BY <1>1, <2>2, HeldFacts DEF Start, Refused, Fail
    <3>2. ledger = <<>> /\ rev = NoRevisions
      BY <3>1 DEF LedgerKept, IInv, Directory
    <3>3. State = "none" /\ Builds(ledger) = 0
      BY <3>2, NoBuilds DEF State
    <3>4. Grows("draft", 0)
      BY <3>1, <3>3, GrownByOne DEF LedgerKept, LedgerStates, Follows, Lifecycle, Stops
    <3>5. StateAt' = "draft" /\ rev'.worker = 0
      BY <3>1, <3>2 DEF StateAt, NoRevisions, Looking, Probing, Probed
    <3> QED
      BY <1>0, <3>1, <3>3, <3>4, <3>5, HeldFacts, LoggedKept
  <2> QED
    BY <2>1, <2>2
<1>2. CASE Bind
  <2>1. /\ pc = "binding" /\ Live /\ Where = "binding" /\ State = "draft"
    BY <1>2 DEF Bind, Live, LedgerKept, StateAt, Where, Looking, Probing, Probed
  <2>2. /\ rev.first = 0 /\ rev.worker = 0 /\ Builds(ledger) = 0 /\ disk # {} /\ request.rounds >= 0
    BY <2>1, HeldFacts DEF LedgerKept, FilesKept, FilesLive, StageEarly, Early
  <2>3. CASE pc' = "receipt"
    <3>1. /\ ledger' = Log(<< <<"mission_mismatch", 0>> >>) /\ rev' = rev
          /\ stop'.status = "mission_mismatch"
      BY <1>2, <2>3 DEF Bind, StopWith
    <3>2. Grows("mission_mismatch", 0)
      BY <2>1, <3>1, GrownByOne DEF LedgerKept, LedgerStates, Follows, Stops
    <3>3. StateAt' = "mission_mismatch"
      BY <2>3, <3>1 DEF StateAt, Looking, Probing, Probed
    <3> QED
      BY <1>0, <2>2, <3>1, <3>2, <3>3, HeldFacts, LoggedKept
  <2>4. CASE pc' # "receipt"
    <3>1. /\ ledger' = Log(<< <<"mission_binding_check", 1>>, <<"approved", 1>> >>)
          /\ rev' = [rev EXCEPT !.baseline = 1] /\ pc' = "approved"
      BY <1>2, <2>4 DEF Bind, StopWith
    <3>2. Grows("approved", 0)
      <4>1. Follows("draft", "mission_binding_check") /\ Follows("mission_binding_check", "approved")
        BY DEF Follows, Stops, Lifecycle
      <4> QED
        BY <2>1, <3>1, <4>1, GrownByTwo DEF LedgerKept, LedgerStates
    <3>3. StateAt' = "approved" /\ rev'.worker = 0
      BY <2>2, <3>1, HeldFacts DEF StateAt, Revisions, Looking, Probing, Probed
    <3> QED
      BY <1>0, <2>2, <3>1, <3>2, <3>3, HeldFacts, LoggedKept
  <2> QED
    BY <2>3, <2>4
<1>3. CASE CaptureBaseline
  <2>1. /\ pc = "baseline" /\ Live /\ Where = "baseline" /\ State = "approved"
        /\ pc' = "probe" /\ rev' = rev /\ ledger' = Log(<< <<"capability_baseline", rev.baseline>> >>)
    BY <1>3 DEF CaptureBaseline, Live, LedgerKept, StateAt, Where, Looking, Probing, Probed
  <2>2. /\ rev.first = 0 /\ rev.second = 0 /\ rev.worker = 0 /\ Builds(ledger) = 0 /\ disk # {}
        /\ request.rounds >= 0 /\ rev.baseline \in Nat
    BY <2>1, HeldFacts DEF LedgerKept, FilesKept, FilesLive, StageEarly, Early, Revisions
  <2>3. Grows("capability_baseline", 0)
    BY <2>1, <2>2, GrownByOne DEF LedgerKept, LedgerStates, Follows, Stops, Lifecycle
  <2>4. StateAt' = "capability_baseline"
    BY <2>1, <2>2 DEF StateAt, Looking, Probing, Target
  <2> QED
    BY <1>0, <2>1, <2>2, <2>3, <2>4, HeldFacts, LoggedKept
<1> QED
  BY <1>1, <1>2, <1>3

\* A round of work.
LEMMA WorkLogged ==
    ASSUME IInv, LedgerKept, FilesKept, Build \/ Review \/ Integrate
    PROVE  LedgerKept' /\ Extends
<1>0. disk \subseteq disk' /\ request' = request
  BY DiskGrows DEF Next, Step
<1>1. CASE Build
  <2>1. /\ pc = "build" /\ Live /\ Where = "build"
        /\ State = IF rev.first = 0 THEN "capability_baseline" ELSE "capability_regression"
        /\ pc' = "exited" \/ (/\ pc' = "built"
                              /\ rev' = IF rev.first = 0 THEN [rev EXCEPT !.worker = head']
                                        ELSE [rev EXCEPT !.repaired = head']
                              /\ head' = Len(commits) + 1)
    BY <1>1 DEF Build, Live, LedgerKept, StateAt, Where, Extend, Fail, Looking, Probing, Probed
  <2>2. /\ disk # {} /\ request.rounds \in Int /\ request.rounds >= 0 /\ rev.repaired = 0
        /\ rev.first # 0 => request.rounds # 0 /\ rev.worker # 0
        /\ rev.first = 0 => rev.worker = 0
        /\ rev.first \in Nat /\ rev.baseline \in Nat
    BY <2>1, HeldFacts DEF FilesKept, FilesLive, StageWork, Regressed, Working, Revisions
  <2>3. Builds(ledger) = IF rev.first = 0 THEN 0 ELSE 1
    BY <2>1, <2>2 DEF LedgerKept
  <2>4. Grows("building", 1)
    <3>1. CASE rev.first = 0
      <4>1. ledger' = Log(<< <<"assigned", rev.baseline>>, <<"building", rev.baseline>> >>)
        <5>1. \A x, y \in LedgerStates \X Nat: <<x>> \o <<y>> = <<x, y>>
          BY Pairs
        <5>2. <<"assigned", rev.baseline>> \in LedgerStates \X Nat /\ <<"building", rev.baseline>> \in LedgerStates \X Nat
          BY <2>2 DEF LedgerStates
        <5> QED
          BY <1>1, <3>1, <5>1, <5>2 DEF Build
      <4> QED
        BY <2>1, <2>2, <3>1, <4>1, GrownByTwo DEF LedgerKept, LedgerStates, Follows, Stops,
           Lifecycle
    <3>2. CASE rev.first # 0
      <4>1. ledger' = Log(<< <<"building", rev.first>> >>)
        BY <1>1, <3>2 DEF Build
      <4> QED
        BY <2>1, <2>2, <3>2, <4>1, BuildGrows DEF LedgerKept, LedgerStates, Follows, Stops,
           Lifecycle
    <3> QED
      BY <3>1, <3>2
  <2>5. CASE pc' = "exited"
    BY <1>0, <2>2, <2>3, <2>4, <2>5, LoggedKept DEF Live
  <2>6. CASE pc' # "exited"
    <3>1. head' # 0
      BY <2>1, <2>6 DEF IInv, TypeOK, WorkspaceTypes
    <3>2. /\ rev'.worker # 0
          /\ rev'.repaired = 0 <=> rev.first = 0
      BY <2>1, <2>2, <2>6, <3>1, HeldFacts DEF Revisions
    <3>3. StateAt' = "building"
      BY <2>1, <2>6 DEF StateAt, Looking, Probing, Probed
    <3> QED
      BY <1>0, <2>2, <2>3, <2>4, <3>2, <3>3, LoggedKept
  <2> QED
    BY <2>5, <2>6
<1>2. CASE Review
  <2>1. CASE ledger' = ledger /\ pc' = "exited"
    BY <1>0, <2>1, UnloggedKept DEF Live
  <2>2. CASE ~(ledger' = ledger /\ pc' = "exited")
    <3>1. /\ pc = "seal" /\ Live /\ State = "building" /\ rev' = rev
          /\ ledger' = Log(<< <<"mechanical_check", ResultRevision>>, <<"critic_review", ResultRevision>> >>)
          /\ pc' \in {"exited", "reviewed"}
      BY <1>2, <2>2 DEF Review, Live, LedgerKept, StateAt, Fail, Looking, Probing, Probed
    <3>2. Grows("critic_review", 0)
      BY <3>1, HeldFacts, GrownByTwo DEF LedgerKept, LedgerStates, Follows, Stops, Lifecycle
    <3>3. Live' => StateAt' = "critic_review"
      BY <3>1 DEF StateAt, Live, Looking, Probing, Probed
    <3> QED
      BY <1>0, <3>1, <3>2, <3>3, HeldFacts, LiveLogged
  <2> QED
    BY <2>1, <2>2
<1>3. CASE Integrate
  <2>1. CASE ledger' = ledger /\ pc' = "exited"
    BY <1>0, <2>1, UnloggedKept DEF Live
  <2>2. CASE ~(ledger' = ledger /\ pc' = "exited")
    <3>1. /\ pc = "integrate" /\ Live /\ State = "critic_review"
          /\ rev' = IF Round = 1 THEN [rev EXCEPT !.first = head'] ELSE [rev EXCEPT !.second = head']
          /\ head' = Len(commits) + 1
          /\ ledger' = Log(<< <<"accepted_unit", ResultRevision>>, <<"integrating", ResultRevision>>,
                              <<"capability_check", head'>> >>)
          /\ pc' = "probe"
      BY <1>3, <2>2 DEF Integrate, Extend, Live, LedgerKept, StateAt, Fail, Looking, Probing, Probed
    <3>2. head' # 0 /\ head' \in Nat
      BY <3>1 DEF IInv, TypeOK, WorkspaceTypes
    <3>3. Grows("capability_check", 0)
      BY <3>1, <3>2, HeldFacts, GrownByThree DEF LedgerKept, LedgerStates, Follows, Stops, Lifecycle
    <3>4. rev'.worker = rev.worker /\ rev'.repaired = rev.repaired /\ (rev'.first # 0 \/ rev'.second # 0)
      BY <3>1, <3>2, HeldFacts DEF Revisions
    <3>5. StateAt' = "capability_check"
      BY <3>1, <3>4 DEF StateAt, Looking, Probing, Target
    <3> QED
      BY <1>0, <3>1, <3>3, <3>4, <3>5, HeldFacts, LiveLogged
  <2> QED
    BY <2>1, <2>2
<1> QED
  BY <1>1, <1>2, <1>3

\* The steps that stop, or go on to the next round.
LEMMA EndLogged ==
    ASSUME IInv, LedgerKept, FilesKept, Gate \/ Decide \/ Complete
    PROVE  LedgerKept' /\ Extends
<1>0. disk \subseteq disk' /\ request' = request
  BY DiskGrows DEF Next, Step
<1>1. CASE Gate
  <2>1. pc \in DOMAIN Gates /\ Live /\ rev' = rev
    BY <1>1 DEF Gate, Gates, Live
  <2>2. CASE Exhausted
    <3>1. PICK a \in Nat: ledger' = Log(<< <<"budget_exhausted", a>> >>)
      BY <1>1, <2>2, HeldFacts DEF Gate, StopWith
    <3>2. pc' = "receipt" /\ stop'.status = "budget_exhausted"
      BY <1>1, <2>2 DEF Gate, StopWith
    <3>3. State \notin Stops
      BY <2>1 DEF LedgerKept, StateAt, Gates, Stops, Looking, Probing, Probed
    <3>4. Grows("budget_exhausted", 0)
      BY <3>1, <3>3, GrownByOne DEF LedgerKept, LedgerStates, Follows, Stops
    <3>5. StateAt' = "budget_exhausted"
      BY <3>2 DEF StateAt, Looking, Probing, Probed
    <3> QED
      BY <1>0, <2>1, <3>4, <3>5, HeldFacts, LiveLogged
  <2>3. CASE ~Exhausted
    <3>1. pc' = Gates[pc] /\ ledger' = ledger
      BY <1>1, <2>3 DEF Gate
    <3>2. StateAt' = StateAt
      BY <2>1, <3>1 DEF StateAt, Gates, Looking, Probing, Probed, Target
    <3> QED
      BY <1>0, <2>1, <3>1, <3>2, UnloggedKept
  <2> QED
    BY <2>2, <2>3
<1>2. CASE Decide
  <2>1. pc = "decide" /\ Live /\ rev' = rev /\ rev.baseline \in Nat /\ rev.first \in Nat /\ rev.second \in Nat
    BY <1>2, HeldFacts DEF Decide, Live, Revisions
  <2>2. State = IF Target = "baseline" THEN "capability_baseline" ELSE "capability_check"
    BY <2>1 DEF LedgerKept, StateAt, Looking, Probing, Probed
  <2>3. \/ ledger' = ledger /\ (pc' = "exited" \/ (pc' = "build" /\ Target = "baseline"))
        \/ /\ Target = "baseline" /\ ledger' = Log(<< <<"capability_unproven", rev.baseline>> >>)
           /\ pc' = "receipt" /\ stop'.status = "capability_unproven"
        \/ /\ Target = "first" /\ ledger' = Log(<< <<"capability_unproven", rev.first>> >>)
           /\ pc' = "receipt" /\ stop'.status = "capability_unproven"
        \/ /\ Target = "first"
           /\ ledger' = Log(<< <<"capability_regression", rev.first>>, <<"budget_exhausted", rev.first>> >>)
           /\ pc' = "receipt" /\ stop'.status = "budget_exhausted"
        \/ /\ Target = "first" /\ ledger' = Log(<< <<"capability_regression", rev.first>> >>)
           /\ pc' = "build"
        \/ /\ Target = "second" /\ ledger' = Log(<< <<"final_review", rev.second>> >>)
           /\ pc' = "final"
    <3>1. \A x: Append(<<>>, x) = <<x>>
      OBVIOUS
    <3>5. Append(<< <<"capability_regression", rev.first>> >>, <<"budget_exhausted", rev.first>>)
            = << <<"capability_regression", rev.first>>, <<"budget_exhausted", rev.first>> >>
      <4>1. /\ <<"capability_regression", rev.first>> \in LedgerStates \X Nat
            /\ <<"budget_exhausted", rev.first>> \in LedgerStates \X Nat
        BY <2>1 DEF LedgerStates, Stops
      <4> QED
        BY <4>1, Pairs
    <3>2. CASE Target = "baseline" /\ DecideBaseline
      BY <3>1, <3>2 DEF DecideBaseline, StopWith
    <3>3. CASE Target = "first" /\ DecideFirst
      <4>1. CASE probes["first"].result = "failed" /\ request.rounds = 0
        <5>1. StopWith("budget_exhausted", << <<"capability_regression", rev.first>> >>, rev.first,
                       "probed", {"disposition-1"}, "again")
          BY <3>3, <4>1 DEF DecideFirst
        <5>2. /\ ledger' = Log(Append(<< <<"capability_regression", rev.first>> >>, <<"budget_exhausted", rev.first>>))
              /\ stop'.status = "budget_exhausted" /\ pc' = "receipt"
          BY <5>1 DEF StopWith
        <5> QED
          BY <3>3, <3>5, <5>2
      <4>2. CASE ~(probes["first"].result = "failed" /\ request.rounds = 0)
        BY <3>1, <3>3, <4>2 DEF DecideFirst, StopWith, Fail
      <4> QED
        BY <4>1, <4>2
    <3>4. CASE Target = "second" /\ DecideSecond
      BY <3>4 DEF DecideSecond, Fail
    <3> QED
      BY <1>2, <3>2, <3>3, <3>4 DEF Decide
  <2>4. CASE ledger' = ledger /\ (pc' = "exited" \/ (pc' = "build" /\ Target = "baseline"))
    <3>1. Live' => StateAt' = StateAt
      BY <2>1, <2>4 DEF StateAt, Live, Looking, Probing, Probed, Target
    <3> QED
      BY <1>0, <2>1, <2>4, <3>1, UnloggedKept
  <2>5. CASE ~(ledger' = ledger /\ (pc' = "exited" \/ (pc' = "build" /\ Target = "baseline")))
    <3>1. PICK s \in {"capability_unproven", "budget_exhausted", "capability_regression", "final_review"}:
             Grows(s, 0) /\ s = StateAt'
      <4> USE DEF LedgerKept, LedgerStates, Follows, Stops, Lifecycle
      <4>1. CASE pc' = "receipt"
        <5>1. StateAt' = stop'.status
          BY <4>1 DEF StateAt, Looking, Probing, Probed
        <5> QED
          BY <2>1, <2>2, <2>3, <2>5, <4>1, <5>1, GrownByOne, GrownByTwo
      <4>2. CASE pc' = "build"
        <5>1. StateAt' = "capability_regression"
          BY <2>1, <2>3, <2>5, <4>2, HeldFacts DEF StateAt, Looking, Probing, Probed, Target,
             StageRevisions, Where, Early
        <5> QED
          BY <2>1, <2>2, <2>3, <2>5, <4>2, <5>1, GrownByOne
      <4>3. CASE pc' = "final"
        <5>1. StateAt' = "final_review"
          BY <4>3 DEF StateAt, Looking, Probing, Probed
        <5> QED
          BY <2>1, <2>2, <2>3, <2>5, <4>3, <5>1, GrownByOne
      <4> QED
        BY <2>3, <2>5, <4>1, <4>2, <4>3
    <3> QED
      BY <1>0, <2>1, <3>1, HeldFacts, LiveLogged
  <2> QED
    BY <2>4, <2>5
<1>3. CASE Complete
  <2>1. /\ pc = "complete" /\ Live /\ rev' = rev /\ rev.second \in Nat /\ State = "final_review"
        /\ ledger' = Log(<< <<"completed", rev.second>> >>) /\ pc' = "receipt" /\ stop'.status = "completed"
    BY <1>3, HeldFacts DEF Complete, StopWith, Live, LedgerKept, StateAt, Looking, Probing,
       Probed, Revisions
  <2>2. Grows("completed", 0)
    BY <2>1, GrownByOne DEF LedgerKept, LedgerStates, Follows, Stops, Lifecycle
  <2>3. StateAt' = "completed"
    BY <2>1 DEF StateAt, Looking, Probing, Probed
  <2> QED
    BY <1>0, <2>1, <2>2, <2>3, HeldFacts, LiveLogged
<1> QED
  BY <1>1, <1>2, <1>3

\* The ledger stays kept, whatever happens.
LEMMA LedgerStep == IInv /\ LedgerKept /\ FilesKept /\ [Next]_vars => LedgerKept' /\ Extends
<1> SUFFICES ASSUME IInv, LedgerKept, FilesKept, [Next]_vars PROVE LedgerKept' /\ Extends
  OBVIOUS
<1>0. disk \subseteq disk' /\ request' = request
  BY DiskGrows
<1>1. CASE Start \/ Bind \/ CaptureBaseline \/ Build \/ Review \/ Integrate \/ Gate \/ Decide \/ Complete
  BY <1>1, EarlyLogged, WorkLogged, EndLogged
<1>2. CASE StartProbe \/ IdentifyProbe \/ ExecuteProbe \/ RecheckProbe \/ ReidentifyProbe
           \/ RecordProbe \/ WriteReceipt \/ Return \/ Tick \/ Die \/ Rerun
           \/ Outside \/ UNCHANGED vars
  <2>1. ledger' = ledger
    BY <1>2, Looks DEF Look, RecordProbe, WriteReceipt, Return, Tick, Die, Rerun, Outside,
       vars, output
  <2>2. Live' => Live /\ rev' = rev /\ StateAt' = StateAt
    BY <1>2, Looks DEF Live, StateAt, Target, Looking, Probing, Probed, Fail, Look, RecordProbe,
       WriteReceipt, Return, Tick, Die, Rerun, Outside, vars, process
  <2> QED
    BY <1>0, <2>1, <2>2, UnloggedKept
<1> QED
  BY <1>1, <1>2 DEF Next, Step

\* The files a live point knows of stay known.
LEMMA FilesLiveStep == IInv /\ FilesKept /\ Step /\ Live' => FilesLive'
<1> SUFFICES ASSUME IInv, FilesKept, Step, Live' PROVE FilesLive'
  OBVIOUS
<1>0. disk \subseteq disk' /\ request' = request
  BY DiskGrows DEF Next
<1>1. Live => FilesLive
  BY DEF FilesKept, FilesLive
<1>2. rev \in Revisions
  BY HeldFacts
<1>3. CASE Start
  <2>1. pc = "idle" /\ pc' = "binding" /\ rev' = rev /\ {"events", "mission", "task"} \subseteq disk'
    BY <1>3 DEF Start, Live, Fail
  <2>2. rev = NoRevisions
    BY <2>1 DEF IInv, Directory
  <2> QED
    BY <2>1, <2>2 DEF FilesLive, NoRevisions, Where, Working, Early, Ending
<1> USE DEF Where, Working, Early, Ending, Looking, Probing, Probed
<1>4. CASE Bind
  <2>1. pc = "binding" /\ FilesLive
    BY <1>1, <1>4 DEF Bind, Live
  <2>2. \/ pc' = "receipt" /\ rev' = rev /\ stop'.refs = {} /\ stop'.point = "binding"
        \/ pc' = "approved" /\ rev' = [rev EXCEPT !.baseline = 1] /\ "binding" \in disk'
    BY <1>4 DEF Bind, StopWith
  <2>3. rev.first = 0 /\ rev.second = 0 /\ rev.repaired = 0
    BY <2>1, HeldFacts DEF StageEarly, Live
  <2>4. UNCHANGED <<rev.worker, rev.first, rev.second, rev.repaired>>
    BY <1>2, <2>2 DEF Revisions
  <2> QED
    BY <1>0, <2>1, <2>2, <2>3, <2>4 DEF FilesLive
<1>5. CASE CaptureBaseline \/ StartProbe \/ IdentifyProbe \/ ExecuteProbe \/ RecheckProbe \/ ReidentifyProbe
  <2>1. /\ pc \in (Probing \ {"record"}) \union {"baseline"} /\ pc' \in Probing /\ rev' = rev
        /\ FilesLive
    BY <1>1, <1>5, Looks DEF CaptureBaseline, Look, Live, Fail
  <2> QED
    BY <1>0, <2>1 DEF FilesLive
<1>6. CASE RecordProbe
  <2>1. /\ pc = "record" /\ pc' = "probed" /\ rev' = rev /\ FilesLive
    BY <1>1, <1>6 DEF RecordProbe, Live, Fail
  <2> QED
    BY <1>0, <2>1 DEF FilesLive
<1>7. CASE Gate
  <2>1. /\ pc \in DOMAIN Gates /\ rev' = rev /\ FilesLive
        /\ \/ pc' = Gates[pc] /\ stop' = stop
           \/ pc' = "receipt" /\ stop'.point = pc /\ stop'.refs = {}
    BY <1>1, <1>7 DEF Gate, Gates, StopWith, Live
  <2>2. UNCHANGED <<Packet, Verdict>>
    BY <2>1 DEF Packet, Verdict, Round
  <2> QED
    BY <1>0, <2>1, <2>2 DEF FilesLive, Gates
<1>8. CASE Decide
  <2>1. pc = "decide" /\ rev' = rev /\ FilesLive
    BY <1>1, <1>8 DEF Decide, Live
  <2>2. \/ /\ pc' = "receipt" /\ stop'.point = "probed" /\ stop'.refs \subseteq disk'
        \/ /\ pc' = "build" /\ (Target = "baseline" \/ "disposition-1" \in disk')
        \/ /\ pc' = "final" /\ {"disposition-2", "final-mission"} \subseteq disk'
    <3>1. CASE Target = "baseline" /\ DecideBaseline
      BY <3>1 DEF DecideBaseline, StopWith
    <3>2. CASE Target = "first" /\ DecideFirst
      BY <3>2 DEF DecideFirst, StopWith, Fail, Live
    <3>3. CASE Target = "second" /\ DecideSecond
      BY <3>3 DEF DecideSecond, Fail, Live
    <3> QED
      BY <1>8, <3>1, <3>2, <3>3 DEF Decide
  <2>3. pc' = "build" /\ Target = "baseline" => rev.first = 0
    BY DEF Target
  <2> QED
    BY <1>0, <2>1, <2>2, <2>3 DEF FilesLive
<1>9. CASE Build
  <2>1. /\ pc = "build" /\ FilesLive /\ pc' = "built"
        /\ rev' = IF rev.first = 0 THEN [rev EXCEPT !.worker = head'] ELSE [rev EXCEPT !.repaired = head']
        /\ disk' = disk \union {IF rev.first = 0 THEN "worker-check" ELSE "repair-check"}
        /\ head' = Len(commits) + 1
    BY <1>1, <1>9 DEF Build, Extend, Fail, Live
  <2>2. head' # 0
    BY <2>1 DEF IInv, TypeOK, WorkspaceTypes
  <2>3. rev.second = 0 /\ rev.repaired = 0
    BY <2>1, HeldFacts DEF StageWork, Live
  <2>4. /\ rev'.first = rev.first /\ rev'.second = rev.second
        /\ IF rev.first = 0 THEN rev'.worker = head' /\ rev'.repaired = rev.repaired
           ELSE rev'.worker = rev.worker /\ rev'.repaired = head'
    BY <1>2, <2>1 DEF Revisions
  <2> QED
    BY <2>1, <2>2, <2>3, <2>4 DEF FilesLive
<1>10. CASE Review
  <2>1. /\ pc = "seal" /\ FilesLive /\ pc' = "reviewed" /\ rev' = rev /\ {Packet, Verdict} \subseteq disk'
    BY <1>1, <1>10 DEF Review, Fail, Live
  <2>2. UNCHANGED <<Packet, Verdict>>
    BY <2>1 DEF Packet, Verdict, Round
  <2> QED
    BY <1>0, <2>1, <2>2 DEF FilesLive
<1>11. CASE Integrate
  <2>1. /\ pc = "integrate" /\ FilesLive /\ pc' = "probe" /\ disk' = disk
        /\ rev' = IF Round = 1 THEN [rev EXCEPT !.first = head'] ELSE [rev EXCEPT !.second = head']
        /\ head' = Len(commits) + 1
    BY <1>1, <1>11 DEF Integrate, Extend, Fail, Live
  <2>2. head' # 0
    BY <2>1 DEF IInv, TypeOK, WorkspaceTypes
  <2>3. /\ rev'.worker = rev.worker /\ rev'.repaired = rev.repaired
        /\ IF Round = 1 THEN rev'.first = head' /\ rev'.second = rev.second
           ELSE rev'.first = rev.first /\ rev'.second = head'
    BY <1>2, <2>1 DEF Revisions
  <2>4. IF Round = 1 THEN {"packet-1", "verdict-1"} \subseteq disk ELSE {"packet-2", "verdict-2"} \subseteq disk
    BY <2>1 DEF FilesLive, Packet, Verdict
  <2>5. Round # 1 => rev.first # 0
    BY <2>1, HeldFacts DEF Round, StageWork, Live
  <2> QED
    BY <2>1, <2>2, <2>3, <2>4, <2>5 DEF FilesLive
<1>12. CASE Complete
  <2>1. /\ pc = "complete" /\ FilesLive /\ rev' = rev /\ pc' = "receipt" /\ stop'.point = "final" /\ stop'.refs = {}
    BY <1>1, <1>12 DEF Complete, StopWith, Live
  <2> QED
    BY <1>0, <2>1 DEF FilesLive
<1>13. CASE WriteReceipt \/ Return
  BY <1>13 DEF WriteReceipt, Return, Live
<1> QED
  BY <1>3, <1>4, <1>5, <1>6, <1>7, <1>8, <1>9, <1>10, <1>11, <1>12, <1>13 DEF Step

\* The files are there, whatever happens.
LEMMA FilesStep == IInv /\ FilesKept /\ [Next]_vars => FilesKept'
<1> SUFFICES ASSUME IInv, FilesKept, [Next]_vars PROVE FilesKept'
  OBVIOUS
<1>0. disk \subseteq disk'
  BY DiskGrows
<1>1. \A t \in Targets: ~Blank(t)' => t \in disk'
  <2>1. CASE UNCHANGED probes
    BY <1>0, <2>1 DEF FilesKept, Blank
  <2>2. CASE RecordProbe
    BY <1>0, <2>2 DEF RecordProbe, FilesKept, Blank, IInv, TypeOK, OutputTypes
  <2> QED
    BY <2>1, <2>2, Looks DEF Next, Step, Start, Bind, Gate, CaptureBaseline, Look, Decide,
       Build, Review, Integrate, Complete, WriteReceipt, Return, Tick, Die, Rerun, Outside,
       output, vars
<1>2. Live' => FilesLive'
  <2>1. CASE Step
    BY <2>1, FilesLiveStep
  <2>2. CASE Tick \/ Outside \/ UNCHANGED vars
    <3>1. UNCHANGED process
      BY <2>2 DEF Tick, Outside, vars
    <3>2. Live' => FilesLive
      BY <3>1 DEF process, FilesKept, FilesLive, Live
    <3> QED
      BY <1>0, <3>1, <3>2 DEF process, FilesLive, Where, Packet, Verdict, Round
  <2>3. CASE Die \/ Rerun
    BY <2>3 DEF Die, Rerun, Live
  <2> QED
    BY <2>1, <2>2, <2>3 DEF Next
<1> QED
  BY <1>1, <1>2 DEF FilesKept, FilesLive

\* What a receipt cites exists when it is written.
LEMMA CitesFiles ==
    ASSUME IInv, FilesKept, pc = "receipt"
    PROVE  Supporting(stop.point) \union stop.refs \union ProbeRefs(stop.point) \subseteq disk
<1> DEFINE point == stop.point
<1>1. /\ FilesLive /\ StageEarly /\ StageRevisions /\ StageProbe /\ StageWork /\ StageEnd /\ Live
      /\ Where = point /\ point \in Points
  BY HeldFacts DEF FilesKept, Live, Where, StageStop, StopType
<1>2. \A t \in Targets: ~Blank(t) => t \in disk
  BY DEF FilesKept
<1>3. stop.refs \subseteq disk
  BY <1>1 DEF FilesLive
<1> HIDE DEF point
<1> USE DEF Working, Early, Ending, Looking, Probing, Probed
<1>4. CASE point \in {"binding", "approved"}
  <2>1. ProbeRefs(point) = {} /\ Supporting(point) \subseteq {"mission", "task", "events", "binding"}
    BY <1>4 DEF ProbeRefs, Supporting
  <2>2. point = "binding" => Supporting(point) = {"mission", "task", "events"}
    BY DEF Supporting
  <2> QED
    BY <1>1, <1>3, <1>4, <2>1, <2>2 DEF FilesLive, point
<1>5. CASE point \notin {"binding", "approved"}
  <2>1. ~Blank("baseline") /\ (rev.first # 0 => ~Blank("first")) /\ (rev.second # 0 => ~Blank("second"))
    <3>1. CASE point \in {"built", "reviewed"}
      BY <1>1, <3>1 DEF StageWork, Blank, NoRecord
    <3>2. CASE point = "probed"
      <4>1. rev.second # 0 => rev.repaired # 0 /\ rev.first # 0 /\ ~Blank("first") /\ Target = "second"
        BY <1>1, <3>2 DEF StageRevisions, Target
      <4>2. rev.first # 0 => ~Blank("baseline")
        BY <1>1, <3>2 DEF StageRevisions, Blank, NoRecord
      <4>3. ~Blank(Target)
        BY <1>1, <3>2 DEF StageProbe
      <4> QED
        BY <4>1, <4>2, <4>3 DEF Target
    <3>3. CASE point = "final"
      BY <1>1, <3>3 DEF StageEnd, StageRevisions, Blank, NoRecord
    <3> QED
      BY <1>1, <1>5, <3>1, <3>2, <3>3 DEF Points
  <2>2. ProbeRefs(point) \subseteq disk
    BY <1>2, <2>1 DEF ProbeRefs, Targets
  <2>3. Supporting(point) \subseteq disk
    <3>1. /\ "binding" \in disk /\ "mission" \in disk /\ "task" \in disk
      BY <1>1, <1>5 DEF FilesLive
    <3>2. CASE point = "probed" /\ Target = "baseline"
      BY <3>1, <3>2 DEF Supporting
    <3>3. CASE ~(point = "probed" /\ Target = "baseline") /\ Round = 1 /\ point # "final"
      <4>1. rev.repaired = 0
        BY <3>3 DEF Round
      <4>2. CASE point = "built"
        BY <1>1, <3>3, <4>2 DEF Supporting, FilesLive
      <4>3. CASE point = "reviewed"
        BY <1>1, <3>3, <4>3 DEF Supporting, FilesLive, Packet, Verdict
      <4>4. CASE point = "probed"
        <5>1. rev.first # 0
          BY <1>1, <3>3, <4>1, <4>4 DEF Target, StageRevisions
        <5> QED
          BY <1>1, <3>3, <4>4, <5>1 DEF Supporting, FilesLive
      <4> QED
        BY <1>1, <1>5, <3>3, <4>2, <4>3, <4>4 DEF Points
    <3>4. CASE ~(point = "probed" /\ Target = "baseline") /\ (Round # 1 \/ point = "final")
      <4>1. rev.repaired # 0 /\ rev.first # 0
        BY <1>1, <1>5, <3>4 DEF Round, StageRevisions, StageEnd, Points
      <4>2. {"worker-check", "repair-check", "verdict-1", "packet-1", "disposition-1"} \subseteq disk
        BY <1>1, <4>1 DEF FilesLive
      <4>3. point \in {"probed", "final"} => rev.second # 0
        BY <1>1, <4>1 DEF StageProbe, StageEnd
      <4>4. point # "built" => {"verdict-2", "packet-2"} \subseteq disk
        BY <1>1, <1>5, <3>4, <4>1, <4>3 DEF FilesLive, Packet, Verdict, Round, Points
      <4>5. point = "final" => {"disposition-2", "final-mission"} \subseteq disk
        BY <1>1 DEF FilesLive
      <4>6. Round # 1
        BY <4>1 DEF Round
      <4> QED
        BY <1>5, <3>4, <4>2, <4>4, <4>5, <4>6 DEF Supporting
    <3> QED
      BY <3>2, <3>3, <3>4
  <2> QED
    BY <1>3, <2>2, <2>3 DEF point
<1> QED
  BY <1>4, <1>5

\* Receipt, ledger and exit code agree, whatever happens.
LEMMA ClosedStep == IInv /\ Papers /\ [Next]_vars => Closed'
<1> SUFFICES ASSUME IInv, Papers, [Next]_vars PROVE Closed'
  OBVIOUS
<1>0. disk \subseteq disk' /\ ReceiptClosesLedger /\ (pc = "return" => Reported /\ receipt.status = stop.status)
  BY DiskGrows DEF Papers, Closed
<1>1. CASE WriteReceipt
  <2>1. /\ pc = "receipt" /\ pc' = "return" /\ receipt' = Receipt(elapsed')
        /\ UNCHANGED <<stop, ledger, disk, exit>>
    BY <1>1 DEF WriteReceipt
  <2>2. Live /\ ~Reported /\ stop \in StopType
    BY <2>1, HeldFacts DEF Live, StageStop
  <2>3. State = stop.status
    BY <2>1, <2>2 DEF Papers, LedgerKept, StateAt, Looking, Probing, Probed
  <2>4. /\ receipt'.status = stop.status /\ receipt'.tail = ledger
        /\ receipt'.refs = Supporting(stop.point) \union stop.refs \union ProbeRefs(stop.point)
    BY <2>1 DEF Receipt
  <2>5. Reported'
    BY <2>2, <2>4 DEF Reported, NoReceipt, StopType, Stops
  <2>6. exit \notin {0, 3, 4, 5}
    BY <1>0, <2>2 DEF ReceiptClosesLedger
  <2>7. receipt'.refs \subseteq disk
    BY <2>1, <2>4, CitesFiles DEF Papers
  <2>8. State' = State
    BY <2>1 DEF State
  <2> QED
    BY <2>1, <2>3, <2>4, <2>5, <2>6, <2>7, <2>8 DEF Closed, ReceiptClosesLedger
<1>2. CASE Return
  <2>1. pc = "return" /\ exit' = ExitCode(stop.status) /\ pc' = "exited" /\ UNCHANGED <<ledger, receipt, disk>>
    BY <1>2 DEF Return, output
  <2>2. State' = State /\ Reported' = Reported
    BY <2>1 DEF State, Reported
  <2> QED
    BY <1>0, <2>1, <2>2 DEF Closed, ReceiptClosesLedger
<1>3. CASE ~WriteReceipt /\ ~Return
  <2>1. receipt' = receipt /\ (exit' = exit \/ exit' \in {-1, 1, 2})
    BY <1>3, Looks DEF Next, Step, Start, Bind, Gate, CaptureBaseline, Look, RecordProbe,
         Decide, DecideBaseline, DecideFirst, DecideSecond, Fail, Build, Review, Integrate, Complete,
         Tick, Die, Rerun, Outside, output, process, vars
  <2>2. Reported => UNCHANGED ledger /\ (pc' = "return" => pc = "return" /\ UNCHANGED stop)
    <3>1. Reported => pc \in {"idle", "return", "exited"} /\ disk # {}
      BY DEF IInv, Directory
    <3> QED
      BY <1>3, <3>1, Looks DEF Next, Step, Start, Bind, Gate, Gates, CaptureBaseline, Look,
         RecordProbe,
         Decide, Build, Review, Integrate, Complete, Refused, Fail,
         Tick, Die, Rerun, Outside, output, process, vars
  <2>3. pc' = "return" => pc = "return"
    BY <1>3, Looks DEF Next, Step, Start, Bind, Gate, Gates, CaptureBaseline, Look, RecordProbe,
         Decide, DecideBaseline, DecideFirst, DecideSecond, StopWith, Build, Review, Integrate, Complete,
         Fail, Tick, Die, Rerun, Outside, output, process, vars
  <2>4. Reported' = Reported /\ (UNCHANGED ledger => State' = State)
    BY <2>1 DEF Reported, State
  <2> QED
    BY <1>0, <2>1, <2>2, <2>3, <2>4 DEF Closed, ReceiptClosesLedger
<1> QED
  BY <1>1, <1>2, <1>3

\* At first there is nothing.
LEMMA InitPapers == Init => Papers
<1> SUFFICES ASSUME Init PROVE Papers
  OBVIOUS
<1>1. ledger = <<>> /\ ~Live /\ ~Reported /\ pc = "idle" /\ exit = -1
  BY DEF Init, Live, Reported, NoReceipt
<1>2. LedgerKept
  BY <1>1 DEF LedgerKept, Chained
<1>3. FilesKept
  BY <1>1 DEF FilesKept, Init, Blank
<1>4. Closed
  BY <1>1 DEF Closed, ReceiptClosesLedger
<1> QED
  BY <1>2, <1>3, <1>4 DEF Papers

\* Ledger, files and receipt stay in order.
LEMMA PapersKept == Spec => []Papers
<1>1. IInv /\ Papers /\ [Next]_vars => Papers'
  BY LedgerStep, FilesStep, ClosedStep DEF Papers
<1> QED
  BY <1>1, InitPapers, Invariant, PTL DEF Spec

\* Ledger, receipt and exit code agree, and the receipt cites only files that exist:
\* the ledger's stop state and the receipt are written one after the other, by paths
\* that spell out their references one by one.
THEOREM ReceiptCloses == Spec => []ReceiptClosesLedger
<1>1. Papers => ReceiptClosesLedger
  BY DEF Papers, Closed
<1> QED
  BY <1>1, PapersKept, PTL

\* The ledger is one chain along the lifecycle and starts no more work than authorized.
THEOREM LedgerChained == Spec => []LedgerFollowsLifecycle
<1>1. Papers => LedgerFollowsLifecycle
  BY DEF Papers, LedgerKept, Chained, Follows, Builds, LedgerFollowsLifecycle
<1> QED
  BY <1>1, PapersKept, PTL

\* Evidence is only added, each probe recorded once, and with the receipt the
\* directory is final: no later step and no second run touches it.
Final ==
    /\ Extends
    /\ disk \subseteq disk'
    /\ \A t \in Targets: probes[t] # NoRecord => probes'[t] = probes[t]
    /\ Reported \/ pc = "exited" => UNCHANGED output

THEOREM EvidenceStays == Spec => EvidenceIsFinal
<1>1. IInv /\ Papers /\ [Next]_vars => Final
  <2> SUFFICES ASSUME IInv, Papers, [Next]_vars PROVE Final
    OBVIOUS
  <2>1. Extends /\ disk \subseteq disk'
    BY LedgerStep, DiskGrows DEF Papers
  <2>2. \A t \in Targets: probes[t] # NoRecord => probes'[t] = probes[t]
    <3>1. CASE UNCHANGED probes
      BY <3>1
    <3>2. CASE RecordProbe
      <4>1. Blank(Target) /\ Target \in Targets
        BY <3>2, HeldFacts DEF RecordProbe, Live, StageProbe, Where, Looking, Probing, Target,
           Targets
      <4> QED
        BY <3>2, <4>1 DEF RecordProbe, Blank, IInv, TypeOK, OutputTypes
    <3> QED
      BY <3>1, <3>2, Looks DEF Next, Step, Start, Bind, Gate, CaptureBaseline, Look, Decide,
         Build, Review, Integrate, Complete, WriteReceipt, Return, Tick, Die, Rerun, Outside,
         output, vars
  <2>3. Reported \/ pc = "exited" => UNCHANGED output
    <3>1. Reported => pc \in {"idle", "return", "exited"} /\ disk # {}
      BY DEF IInv, Directory
    <3> QED
      BY <3>1, Looks DEF Next, Step, Start, Bind, Gate, Gates, CaptureBaseline, Look, RecordProbe,
         Decide, Build, Review, Integrate, Complete, WriteReceipt, Return, Refused, Fail,
         Tick, Die, Rerun, Outside, output, process, vars
  <2> QED
    BY <2>1, <2>2, <2>3 DEF Final
<1>2. IInv /\ Papers /\ [Next]_vars => [Final]_vars
  BY <1>1
<1>3. EvidenceIsFinal <=> [][Final]_vars
  BY PTL DEF EvidenceIsFinal, Final, Extends
<1> QED
  BY <1>2, <1>3, Invariant, PapersKept, PTL DEF Spec

-----------------------------------------------------------------------------
(* What was integrated, and how far the disagreement with the documents    *)
(* about inconclusive probes goes.                                         *)

\* Each integrated revision is the reviewed result it is filed with, committed
\* on top of it: git commits whatever stands in the directory, and nothing there
\* has changed unless someone else changed it.
ReviewedIsIntegrated ==
    outside = 0 =>
        /\ rev.first # 0 => Keeps(rev.first, rev.worker)
        /\ rev.second # 0 => Keeps(rev.second, rev.repaired)

THEOREM IntegratedAsReviewed == Spec => []ReviewedIsIntegrated
<1>1. IInv => ReviewedIsIntegrated
  BY DEF IInv, Undisturbed, ReviewedIsIntegrated
<1> QED
  BY <1>1, Invariant, PTL

\* A run that has left with an inconclusive probe of an integrated artifact and
\* no report is one that was repaired.
OnlyRepairsGoUnreported ==
    exit = 2 /\ Integration # 0 /\ probes[Target].result = "inconclusive" => Target = "second"

\* An exit code means that the process has ended.
Ended == exit # -1 => pc = "exited"

LEMMA EndedStep == Ended /\ [Next]_vars => Ended'
BY Looks DEF Ended, Next, Step, Start, Bind, Gate, Gates, CaptureBaseline, Look, RecordProbe,
   Decide, DecideBaseline, DecideFirst, DecideSecond, StopWith, Build, Review,
       Integrate, Complete, WriteReceipt, Return, Tick, Die, Rerun, Outside, Fail, process, vars

\* FixtureError is raised after an inconclusive probe in the repaired round only.
LEMMA UnreportedStep ==
    IInv /\ Ended /\ OnlyRepairsGoUnreported /\ [Next]_vars => OnlyRepairsGoUnreported'
<1> SUFFICES ASSUME IInv, Ended, OnlyRepairsGoUnreported, [Next]_vars,
                    exit' = 2, Integration' # 0, probes'[Target'].result = "inconclusive"
             PROVE  Target' = "second"
  BY DEF OnlyRepairsGoUnreported
<1>1. CASE exit = 2
  <2>1. pc = "exited"
    BY <1>1 DEF Ended
  <2>2. UNCHANGED <<rev, probes>>
    BY <1>1, <2>1, Looks DEF Next, Step, Start, Bind, Gate, Gates, CaptureBaseline, Look,
       RecordProbe, Decide, Build, Review, Integrate, Complete, WriteReceipt, Return, Tick, Die,
       Rerun, Outside, process, output, vars
  <2> QED
    BY <1>1, <2>2 DEF OnlyRepairsGoUnreported, Target, Integration
<1>2. CASE exit # 2
  <2>1. /\ pc \in {"idle", "probe", "recheck", "decide", "build", "seal", "integrate"}
        /\ UNCHANGED <<rev, probes>>
        /\ pc = "decide" =>
            \/ Target = "first" /\ probes["first"].result = "passed"
            \/ Target = "second"
    BY <1>2, Looks DEF Next, Step, Start, Bind, Gate, CaptureBaseline, Look, RecordProbe,
       Decide, DecideBaseline, DecideFirst, DecideSecond, StopWith, Build, Review,
       Integrate, Complete, WriteReceipt, Return, ExitCode, Tick, Die, Rerun, Outside, Fail,
       process, output, vars
  <2>2. Target' = Target /\ Integration' = Integration
    BY <2>1 DEF Target, Integration
  <2>3. pc # "idle"
    BY <2>2 DEF IInv, Directory, Integration, NoRevisions
  <2>4. Blank(Target) => probes'[Target'].result # "inconclusive"
    BY <2>1, <2>2 DEF Blank, NoRecord
  <2>5. StageRevisions /\ StageProbe /\ StageWork
    BY <2>1, <2>3 DEF IInv, Stages, Live
  <2> QED
    BY <2>1, <2>2, <2>3, <2>4, <2>5
    DEF Target, Integration, Where, Early, Looking, Probing, Working, StageRevisions,
       StageProbe, StageWork, Regressed
<1> QED
  BY <1>1, <1>2

THEOREM UnreportedOnlyRepaired == Spec => []OnlyRepairsGoUnreported
<1>1. Init => Ended /\ OnlyRepairsGoUnreported
  BY DEF Init, Ended, OnlyRepairsGoUnreported
<1> QED
  BY <1>1, EndedStep, UnreportedStep, Invariant, PTL DEF Spec

-----------------------------------------------------------------------------
(* A run comes to its end.                                                 *)

\* How far it is to the end: three probes, and after each of the first two a
\* round of work.
Index ==
    [idle |-> 21, binding |-> 20, approved |-> 19, baseline |-> 18, probe |-> 17, identify |-> 16,
     execute |-> 15, recheck |-> 14, reidentify |-> 13, record |-> 12, probed |-> 11,
     decide |-> 10, build |-> 9, built |-> 8, seal |-> 7, reviewed |-> 6, integrate |-> 5,
     final |-> 4, complete |-> 3, receipt |-> 2, return |-> 1, exited |-> 0]
Ahead == CASE Target = "baseline" -> 30 [] Target = "first" -> 15 [] Target = "second" -> 0
Distance == Index[pc] + IF pc \in {"receipt", "return", "exited"} THEN 0 ELSE Ahead

\* Every statement brings the process closer to its end, whatever the probes,
\* the critic, git and the others do, and only a new process is farther away.
Approaches ==
    /\ Distance \in 0..51 /\ Distance' \in 0..51
    /\ Step => Distance' < Distance
    /\ Distance' > Distance => Rerun

LEMMA ApproachStep == IInv /\ IInv' /\ Step => Distance' < Distance
<1> SUFFICES ASSUME IInv, IInv', Step PROVE Distance' < Distance
  OBVIOUS
<1>0. pc \in DOMAIN Index /\ pc' \in DOMAIN Index
  BY DEF IInv, TypeOK, ProcessTypes, Points, Index
<1>1. CASE pc' = "exited" \/ pc' \in {"receipt", "return"}
  <2>1. pc # "exited" /\ (pc' = "receipt" => pc \notin {"receipt", "return"})
        /\ (pc' = "return" => pc = "receipt")
    BY Looks DEF Step, Start, Bind, Gate, Gates, CaptureBaseline, Look, RecordProbe, Decide,
       DecideBaseline, DecideFirst, DecideSecond, StopWith, Build, Review,
       Integrate, Complete, WriteReceipt, Return, Fail
  <2>2. Ahead \in {0, 15, 30}
    BY DEF Ahead, Target
  <2> QED
    BY <1>0, <1>1, <2>1, <2>2 DEF Distance, Index
<1>2. CASE pc' \notin {"exited", "receipt", "return"}
  <2>1. pc \notin {"exited", "receipt", "return"}
    BY <1>2, Looks DEF Step, Start, Bind, Gate, Gates, CaptureBaseline, Look, RecordProbe,
       Decide, Build, Review, Integrate, Complete, WriteReceipt, Return, Fail
  <2>2. CASE Integrate
    <3>1. /\ pc = "integrate" /\ pc' = "probe"
          /\ rev' = IF rev.repaired = 0 THEN [rev EXCEPT !.first = head'] ELSE [rev EXCEPT !.second = head']
          /\ head' # 0
      BY <1>2, <2>2 DEF Integrate, Extend, Fail, Round, IInv, TypeOK, WorkspaceTypes
    <3>2. rev.second = 0 /\ (rev.repaired = 0 <=> rev.first = 0)
      BY <3>1 DEF IInv, Stages, Live, StageWork, Where, Working
    <3>3. Target' = IF rev.first = 0 THEN "first" ELSE "second"
      BY <3>1, <3>2 DEF Target, IInv, TypeOK, ProcessTypes, Revisions
    <3>4. Target = IF rev.first = 0 THEN "baseline" ELSE "first"
      BY <3>2 DEF Target
    <3> QED
      BY <3>1, <3>3, <3>4 DEF Distance, Index, Ahead
  <2>3. CASE ~Integrate
    <3>1. rev'.first = rev.first /\ rev'.second = rev.second
      BY <2>3, Looks DEF Step, Start, Bind, Gate, Gates, CaptureBaseline, Look, RecordProbe,
         Decide, Build, Review, Complete, WriteReceipt, Return,
         IInv, TypeOK, ProcessTypes, Revisions
    <3>2. Ahead' = Ahead
      BY <3>1 DEF Ahead, Target
    <3>3. Index[pc'] < Index[pc]
      BY <1>2, <2>3, Looks DEF Index, Step, Start, Bind, Gate, Gates, CaptureBaseline, Look,
         RecordProbe, Decide, DecideBaseline, DecideFirst, DecideSecond, StopWith, Build, Review,
         Complete, WriteReceipt, Return, Fail
    <3>4. Ahead \in {0, 15, 30} /\ Index[pc] \in 0..21 /\ Index[pc'] \in 0..21
      BY <1>0 DEF Ahead, Target, Index
    <3> QED
      BY <1>2, <2>1, <3>2, <3>3, <3>4 DEF Distance
  <2> QED
    BY <2>2, <2>3
<1> QED
  BY <1>1, <1>2

THEOREM RunsAdvance == Spec => [][Approaches]_vars
<1>1. IInv /\ IInv' /\ [Next]_vars => [Approaches]_vars
  <2> SUFFICES ASSUME IInv, IInv', [Next]_vars PROVE [Approaches]_vars
    OBVIOUS
  <2>1. Distance \in 0..51 /\ Distance' \in 0..51
    BY DEF IInv, TypeOK, ProcessTypes, Points, Distance, Index, Ahead, Target
  <2>2. CASE Step
    <3>1. Distance' < Distance
      BY <2>2, ApproachStep
    <3> HIDE DEF Distance
    <3> QED
      BY <2>1, <3>1 DEF Approaches
  <2>3. CASE Die /\ ~Step
    <3>1. Distance' = 0
      BY <2>3 DEF Die, Distance, Index
    <3> QED
      BY <2>1, <2>3, <3>1 DEF Approaches
  <2>4. CASE Rerun /\ ~Step
    BY <2>1, <2>4 DEF Approaches
  <2>5. CASE (Tick \/ Outside) /\ ~Step
    <3>1. Distance' = Distance
      BY <2>5 DEF Tick, Outside, process, Distance, Ahead, Target
    <3> QED
      BY <2>1, <2>5, <3>1 DEF Approaches
  <2> QED
    BY <2>2, <2>3, <2>4, <2>5 DEF Next
<1> QED
  BY <1>1, Invariant, PTL DEF Spec
=============================================================================
