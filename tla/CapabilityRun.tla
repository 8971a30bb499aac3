--------------------------- MODULE CapabilityRun ---------------------------
(***************************************************************************)
(* examples/capability-regression/run_fixture.py: one capability-          *)
(* preservation lifecycle from the draft to the final receipt.  A scripted *)
(* worker replaces an adaptive policy by a fixed one, a critic reviews it, *)
(* the integrated artifact is probed, one repair may follow, and the       *)
(* repaired integration is probed again.                                   *)
(*                                                                         *)
(* The two rounds run the same statements, so they share actions; Round    *)
(* and Target say which round and which artifact the run is at.  A step is *)
(* what happens between two points where time, the workspace or the life   *)
(* of the process matter: an elapsed-time gate, each look a probe takes at *)
(* the workspace, its execution and the write of its record, the write of  *)
(* the final receipt.  The Git workspace lies in an ordinary directory:    *)
(* until the run ends, others may edit it, commit to it and check out      *)
(* other revisions between any two steps.                                  *)
(***************************************************************************)
EXTENDS Integers, Sequences, FiniteSets

CONSTANTS
    Limit,        \* limits.elapsed_seconds of the frozen Task Contract
    FrozenRounds, \* limits.repair_rounds of the frozen Task Contract
    Requests,     \* the command lines: see RequestType
    MaxTime,      \* bound: the clock stops here
    MaxOutside    \* bound on what others do to the workspace

RequestType ==
    [rounds: Int, declared: BOOLEAN, matched: BOOLEAN,
     baseline: {"normal", "failed", "inconclusive"}, probe: {"normal", "inconclusive"}]

ASSUME LimitsAssumption == Limit \in Nat /\ FrozenRounds \in Nat
ASSUME RequestsAssumption == Requests \subseteq RequestType
ASSUME BoundsAssumption == MaxTime \in Nat /\ MaxOutside \in Nat

VARIABLES
    pc,        \* where the process stands
    request,   \* its command line
    now,       \* clock() - started_at
    elapsed,   \* elapsed_budget.last_elapsed_seconds
    ok,        \* what the latest task check or critic verdict said
    rev,       \* the revisions execute() holds in its variables, 0 for None
    probing,   \* a probe under way: see ProbingType
    stop,      \* the receipt about to be written, and where execute() decided it
    exit,      \* the exit code, or -1
    ledger,    \* state-events.jsonl
    disk,      \* the evidence files in the output directory
    probes,    \* probes[t]: the record of the probe of artifact t
    receipt,   \* final-receipt.json
    commits,   \* the Git commits: code, and the revisions it descends from
    head,      \* HEAD
    tree,      \* what the working tree holds
    outside    \* number of steps others took in the workspace

process == <<pc, request, elapsed, ok, rev, probing, stop, exit>>
output == <<ledger, disk, probes, receipt>>
workspace == <<commits, head, tree>>
world == <<now, outside>>
vars == <<process, output, workspace, world>>

Targets == {"baseline", "first", "second"}
Results == {"passed", "failed", "inconclusive"}
Codes == {"adaptive", "fixed", "other"}
Files == {"leftover", "events", "mission", "task", "binding", "baseline",
          "worker-check", "candidate", "packet-1", "verdict-1", "first",
          "disposition-1", "repair-mission", "repair-check", "packet-2",
          "verdict-2", "second", "disposition-2", "final-mission"}
Stops == {"mission_mismatch", "budget_exhausted", "capability_unproven", "completed"}

Revisions == [baseline: Nat, worker: Nat, first: Nat, repaired: Nat, second: Nat]
NoRevisions == [baseline |-> 0, worker |-> 0, first |-> 0, repaired |-> 0, second |-> 0]
CommitType == [code: Codes, line: SUBSET Nat]
\* A probe's HEAD and result, and what only the properties look at: the code that
\* was executed, and the number of outside steps at the first look.
ProbingType ==
    [found: Nat, result: Results \union {"not_run"}, ran: Codes \union {"none"}, since: Nat]
NoProbe == [found |-> 0, result |-> "not_run", ran |-> "none", since |-> 0]
RecordType == [expected: Nat, artifact: Nat, result: Results]
NoRecord == [expected |-> 0, artifact |-> 0, result |-> "not_run"]
Points == {"binding", "approved", "built", "reviewed", "probed", "final"}
StopType == [status: Stops, point: Points,
             refs: SUBSET Files, clock: {"gate", "again"}]
NoStop == [status |-> "open", point |-> "none", refs |-> {}, clock |-> "gate"]
NoReceipt == [status |-> "open"]

\* The empty output directory, or one that holds something already.
Init ==
    /\ pc = "idle"
    /\ request \in Requests
    /\ now = 0 /\ elapsed = 0 /\ ok = TRUE /\ exit = -1 /\ outside = 0
    /\ rev = NoRevisions /\ probing = NoProbe /\ stop = NoStop
    /\ ledger = <<>>
    /\ disk \in {{}, {"leftover"}}
    /\ probes = [t \in Targets |-> NoRecord]
    /\ receipt = NoReceipt
    /\ commits = <<>> /\ head = 0 /\ tree = "adaptive"

-----------------------------------------------------------------------------
(* The ledger and the receipt.                                             *)

State == IF ledger = <<>> THEN "none" ELSE ledger[Len(ledger)].state

\* One append() for each pair <<state, artifact revision>> of moves.
Log(moves) ==
    LET Before(i) == IF i = 1 THEN State ELSE moves[i - 1][1]
    IN  ledger \o [i \in 1..Len(moves) |->
            [previous |-> Before(i), state |-> moves[i][1], artifact |-> moves[i][2]]]

\* FixtureError: main() prints it and returns 2, whatever is on the disk.
Fail == pc' = "exited" /\ exit' = 2

\* Which artifact is probed, and which round is under way.
Target ==
    IF rev.second # 0 THEN "second" ELSE IF rev.first # 0 THEN "first" ELSE "baseline"
Round == IF rev.repaired = 0 THEN 1 ELSE 2
ResultRevision == IF Round = 1 THEN rev.worker ELSE rev.repaired

\* Slip: once there is a repaired revision, it passes for the integrated one.
IntegrationAhead ==
    IF rev.second # 0 THEN rev.second ELSE IF rev.repaired # 0 THEN rev.repaired ELSE rev.first

Integration == IF rev.second # 0 THEN rev.second ELSE rev.first

\* stop_after_operation(): what a pair of results says about the capability.
Disposition(before, after) ==
    CASE before = "passed" /\ after = "passed" -> "preserved"
      [] after = "failed" -> "degraded"
      [] OTHER -> "unproven"

\* The arguments of the receipt written at each point, as the code spells them.
Before(point) ==
    CASE point \in {"binding", "approved"} -> "not_run"
      [] point = "probed" /\ Target = "baseline" -> probes["baseline"].result
      [] OTHER -> "passed"

After(point) ==
    IF Integration = 0 THEN "not_run"
    ELSE CASE point = "probed" -> probes[Target].result
           [] point = "final" -> "passed"
           [] OTHER -> "failed"

ProbeRefs(point) ==
    IF point \in {"binding", "approved"} THEN {}
    ELSE {"baseline"} \union (IF rev.first # 0 THEN {"first"} ELSE {})
                      \union (IF rev.second # 0 THEN {"second"} ELSE {})

\* Slip: the repaired round cites its review wherever it stops.
SupportingRound(point) ==
    IF rev.worker = 0 THEN {"mission", "task", "events"}
    ELSE IF Round = 1 THEN {"worker-check", "verdict-1", "packet-1"}
    ELSE {"worker-check", "repair-check", "verdict-1", "verdict-2", "disposition-1", "packet-2"}

Supporting(point) ==
    CASE point = "binding" -> {"mission", "task", "events"}
      [] point = "approved" \/ (point = "probed" /\ Target = "baseline") ->
            {"mission", "task", "binding"}
      [] point = "built" /\ Round = 1 -> {"worker-check"}
      [] (point = "reviewed" \/ (point = "probed" /\ Target # "baseline")) /\ Round = 1 ->
            {"worker-check", "verdict-1", "packet-1"}
      [] OTHER ->
            {"worker-check", "repair-check", "verdict-1", "disposition-1"}
            \union (IF point # "built" THEN {"verdict-2", "packet-2"} ELSE {})
            \union (IF point \in {"probed", "final"} THEN {"packet-1"} ELSE {})
            \union (IF point = "final" THEN {"disposition-2", "final-mission"} ELSE {})

\* build_receipt(): the tail hash stands for the whole chain it closes.
Receipt(seconds) ==
    [status |-> stop.status, result |-> ResultRevision, integration |-> Integration,
     before |-> Before(stop.point), after |-> After(stop.point),
     disposition |-> Disposition(Before(stop.point), After(stop.point)),
     rounds |-> Round - 1, elapsed |-> seconds,
     refs |-> Supporting(stop.point) \union stop.refs \union ProbeRefs(stop.point),
     tail |-> ledger]

ExitCode(status) ==
    CASE status = "completed" -> 0
      [] status = "budget_exhausted" -> 3
      [] status = "capability_unproven" -> 4
      [] OTHER -> 5

\* The run ends with a receipt: the ledger says so first.  The receipt quotes
\* the gate's reading of the clock, or takes it again.
StopWith(status, moves, artifact, point, refs, clock) ==
    /\ ledger' = Log(Append(moves, <<status, artifact>>))
    /\ stop' = [status |-> status, point |-> point, refs |-> refs, clock |-> clock]
    /\ pc' = "receipt"

WriteReceipt ==
    /\ pc = "receipt"
    /\ elapsed' = IF stop.clock = "again" THEN now ELSE elapsed
    /\ receipt' = Receipt(elapsed')
    /\ pc' = "return"
    /\ UNCHANGED <<request, ok, rev, probing, stop, exit, ledger, disk, probes, workspace, world>>

Return ==
    /\ pc = "return"
    /\ exit' = ExitCode(stop.status)
    /\ pc' = "exited"
    /\ UNCHANGED <<request, elapsed, ok, rev, probing, stop, output, workspace, world>>

\* stop_if_exhausted() after each operation, and the statement behind it.
Gates == [approved |-> "baseline", built |-> "seal", reviewed |-> "integrate",
          probed |-> "decide", final |-> "complete"]

\* Slip: compares the previous reading.
ExhaustedBefore == elapsed > Limit

Exhausted == now > Limit

Gate ==
    /\ pc \in DOMAIN Gates
    /\ elapsed' = now
    /\ \/ /\ Exhausted
          /\ StopWith("budget_exhausted", <<>>,
                      IF Integration # 0 THEN Integration ELSE ResultRevision, pc, {}, "gate")
       \/ /\ ~Exhausted
          /\ pc' = Gates[pc]
          /\ UNCHANGED <<ledger, stop>>
    /\ UNCHANGED <<request, ok, rev, probing, exit, disk, probes, receipt, workspace, world>>

-----------------------------------------------------------------------------
(* From the command line to the accepted baseline.                         *)

\* The limit checks and prepare_output(); a second run finds the directory full.
Refused == request.rounds < 0 \/ request.rounds > FrozenRounds \/ disk # {}

Start ==
    /\ pc = "idle"
    /\ \/ Refused /\ Fail /\ UNCHANGED <<ledger, disk>>
       \/ /\ ~Refused
          /\ ledger' = Log(<< <<"draft", 0>> >>)
          /\ disk' = disk \union {"events", "mission", "task"}
          /\ pc' = "binding"
          /\ UNCHANGED exit
    /\ UNCHANGED <<request, elapsed, ok, rev, probing, stop, probes, receipt, workspace, world>>

\* validate_task_binding(); a bound task gets its workspace and its approval.
Bind ==
    /\ pc = "binding"
    /\ \/ /\ ~request.declared
          /\ StopWith("mission_mismatch", <<>>, 0, "binding", {}, "again")
          /\ UNCHANGED <<rev, disk, workspace>>
       \/ /\ request.declared
          /\ commits' = << [code |-> "adaptive", line |-> {1}] >>
          /\ head' = 1 /\ tree' = "adaptive"
          /\ rev' = [rev EXCEPT !.baseline = 1]
          /\ ledger' = Log(<< <<"mission_binding_check", 1>>, <<"approved", 1>> >>)
          /\ disk' = disk \union {"binding"}
          /\ pc' = "approved"
          /\ UNCHANGED stop
    /\ UNCHANGED <<request, elapsed, ok, probing, exit, probes, receipt, world>>

CaptureBaseline ==
    /\ pc = "baseline"
    /\ ledger' = Log(<< <<"capability_baseline", rev.baseline>> >>)
    /\ pc' = "probe"
    /\ UNCHANGED <<request, elapsed, ok, rev, probing, stop, exit, disk, probes, receipt,
                   workspace, world>>

-----------------------------------------------------------------------------
(* run_capability_probe().                                                 *)

Dirty == tree # commits[head].code

\* The revision the caller names; a mismatched baseline names no commit at all.
Expected ==
    IF Target = "baseline" /\ ~request.matched THEN 0
    ELSE rev[Target]

\* probe_identity_error()
IdentityError == head # Expected \/ rev.baseline \notin commits[head].line

\* What --baseline-probe-mode and --probe-mode force on this probe.
Forced ==
    CASE Target = "baseline" -> request.baseline
      [] Target = "first" -> request.probe
      [] OTHER -> "normal"

\* require_clean_workspace() before execution: git status ...
StartProbe ==
    /\ pc = "probe"
    /\ \/ Dirty /\ Fail /\ UNCHANGED probing
       \/ /\ ~Dirty
          /\ probing' = [NoProbe EXCEPT !.since = outside]
          /\ pc' = "identify"
          /\ UNCHANGED exit
    /\ UNCHANGED <<request, elapsed, ok, rev, stop, output, workspace, world>>

\* ... then git rev-parse HEAD, and what that commit is.
IdentifyProbe ==
    /\ pc = "identify"
    /\ probing' = [probing EXCEPT !.found = head,
                                  !.result = IF IdentityError THEN "inconclusive"
                                             ELSE IF Forced # "normal" THEN Forced ELSE "not_run"]
    /\ pc' = IF probing'.result = "not_run" THEN "execute" ELSE "recheck"
    /\ UNCHANGED <<request, elapsed, ok, rev, stop, exit, output, workspace, world>>

\* capability_probe.py on what the tree holds now.  An interpreter that dies
\* leaves output that is no JSON; what others put there may print anything.
Observed ==
    CASE tree = "adaptive" -> {"passed", "inconclusive"}
      [] tree = "fixed" -> {"failed", "inconclusive"}
      [] OTHER -> Results

ExecuteProbe ==
    /\ pc = "execute"
    /\ \E result \in Observed: probing' = [probing EXCEPT !.result = result, !.ran = tree]
    /\ pc' = "recheck"
    /\ UNCHANGED <<request, elapsed, ok, rev, stop, exit, output, workspace, world>>

\* Slip: the workspace is not looked at after execution.
RecheckNothing ==
    /\ pc = "recheck"
    /\ pc' = "reidentify"
    /\ UNCHANGED <<request, elapsed, ok, rev, probing, stop, exit, output, workspace, world>>

\* require_clean_workspace() after execution ...
RecheckProbe ==
    /\ pc = "recheck"
    /\ \/ Dirty /\ Fail
       \/ ~Dirty /\ pc' = "reidentify" /\ UNCHANGED exit
    /\ UNCHANGED <<request, elapsed, ok, rev, probing, stop, output, workspace, world>>

\* ... HEAD once more ...
ReidentifyProbe ==
    /\ pc = "reidentify"
    /\ probing' = [probing EXCEPT !.found = head,
                                  !.result = IF head # probing.found THEN "inconclusive" ELSE @]
    /\ pc' = "record"
    /\ UNCHANGED <<request, elapsed, ok, rev, stop, exit, output, workspace, world>>

\* ... and the record is written, wherever the workspace stands by then.
RecordProbe ==
    /\ pc = "record"
    /\ probes' = [probes EXCEPT ![Target] =
                    [expected |-> Expected, artifact |-> probing.found, result |-> probing.result]]
    /\ disk' = disk \union {Target}
    /\ probing' = NoProbe
    /\ pc' = "probed"
    /\ UNCHANGED <<request, elapsed, ok, rev, stop, exit, ledger, receipt, workspace, world>>

-----------------------------------------------------------------------------
(* What the auditor's result lets the run do.                              *)

\* After the baseline: only a passing one lets work start.
DecideBaseline ==
    LET result == probes["baseline"].result
    IN  \/ /\ result # "passed"
           /\ StopWith("capability_unproven", <<>>, rev.baseline, "probed", {}, "again")
           /\ UNCHANGED <<exit, disk>>
        \/ /\ result = "passed"
           /\ pc' = "build"
           /\ UNCHANGED <<exit, ledger, stop, disk>>

\* Slip: the repair starts without looking at the authorized rounds.
DecideFirstUnbounded ==
    /\ probes["first"].result = "failed"
    /\ ledger' = Log(<< <<"capability_regression", rev.first>> >>)
    /\ disk' = disk \union {"disposition-1", "repair-mission"}
    /\ pc' = "build"
    /\ UNCHANGED <<exit, stop>>

\* After the first integration: only a measured regression lets a repair start.
DecideFirst ==
    LET result == probes["first"].result
        regression == << <<"capability_regression", rev.first>> >>
        refs == disk \union {"disposition-1"}
    IN  \/ /\ result = "inconclusive"
           /\ StopWith("capability_unproven", <<>>, rev.first, "probed", {}, "again")
           /\ UNCHANGED <<exit, disk>>
        \/ /\ result = "passed"
           /\ Fail
           /\ UNCHANGED <<ledger, stop, disk>>
        \/ /\ result = "failed" /\ request.rounds = 0
           /\ StopWith("budget_exhausted", regression, rev.first, "probed", {"disposition-1"}, "again")
           /\ disk' = refs
           /\ UNCHANGED exit
        \/ /\ result = "failed" /\ request.rounds # 0
           /\ ledger' = Log(regression)
           /\ disk' = refs \union {"repair-mission"}
           /\ pc' = "build"
           /\ UNCHANGED <<exit, stop>>

\* Slip: only a measured failure stops the repaired integration.
DecideSecondLeniently ==
    /\ probes["second"].result # "failed"
    /\ disk' = disk \union {"disposition-2", "final-mission"}
    /\ ledger' = Log(<< <<"final_review", rev.second>> >>)
    /\ pc' = "final"
    /\ UNCHANGED <<exit, stop>>

\* After the repaired integration: anything but a pass is a fixture error.
DecideSecond ==
    LET result == probes["second"].result
    IN  \/ /\ result # "passed"
           /\ Fail
           /\ UNCHANGED <<ledger, stop, disk>>
        \/ /\ result = "passed"
           /\ disk' = disk \union {"disposition-2", "final-mission"}
           /\ ledger' = Log(<< <<"final_review", rev.second>> >>)
           /\ pc' = "final"
           /\ UNCHANGED <<exit, stop>>

Decide ==
    /\ pc = "decide"
    /\ \/ Target = "baseline" /\ DecideBaseline
       \/ Target = "first" /\ DecideFirst
       \/ Target = "second" /\ DecideSecond
    /\ UNCHANGED <<request, elapsed, ok, rev, probing, probes, receipt, workspace, world>>

-----------------------------------------------------------------------------
(* A round of work: build, check, review, integrate.                       *)

Extend(code, line) ==
    /\ commits' = Append(commits, [code |-> code, line |-> line \union {Len(commits) + 1}])
    /\ head' = Len(commits) + 1

\* What is committed when the worker has written its chooser: other edits in
\* the directory come along.
Written(code) == IF tree = "other" THEN {code, "other"} ELSE {code}

\* Assign, write chooser.py, git add --all, commit and run the declared check.
\* git refuses a commit that changes nothing.
Build ==
    /\ pc = "build"
    /\ LET first == rev.first = 0
           from == IF first THEN rev.baseline ELSE rev.first
       IN  /\ ledger' = Log((IF first THEN << <<"assigned", from>> >> ELSE <<>>)
                            \o << <<"building", from>> >>)
           /\ \E code \in Written(IF first THEN "fixed" ELSE "adaptive"):
                /\ tree' = code
                /\ \/ /\ code = commits[head].code
                      /\ Fail
                      /\ UNCHANGED <<ok, rev, disk, commits, head>>
                   \/ /\ code # commits[head].code \/ code = "other"
                      /\ Extend(code, commits[head].line)
                      /\ rev' = IF first THEN [rev EXCEPT !.worker = head']
                                ELSE [rev EXCEPT !.repaired = head']
                      /\ ok' \in BOOLEAN
                      /\ disk' = disk \union {IF first THEN "worker-check" ELSE "repair-check"}
                      /\ pc' = "built"
                      /\ UNCHANGED exit
    /\ UNCHANGED <<request, elapsed, probing, stop, probes, receipt, world>>

Packet == IF Round = 1 THEN "packet-1" ELSE "packet-2"
Verdict == IF Round = 1 THEN "verdict-1" ELSE "verdict-2"

\* A passing check is sealed and reviewed; run_critic() raises unless the
\* critic process ends well.
Review ==
    /\ pc = "seal"
    /\ \/ ~ok /\ Fail /\ UNCHANGED <<ok, ledger, disk>>
       \/ /\ ok
          /\ ledger' = Log(<< <<"mechanical_check", ResultRevision>>,
                              <<"critic_review", ResultRevision>> >>)
          /\ LET sealed == disk \union {Packet} \union
                              (IF Round = 1 THEN {"candidate"} ELSE {})
             IN  \/ disk' = sealed /\ Fail /\ UNCHANGED ok
                 \/ /\ disk' = sealed \union {Verdict}
                    /\ ok' \in BOOLEAN
                    /\ pc' = "reviewed"
                    /\ UNCHANGED exit
    /\ UNCHANGED <<request, elapsed, rev, probing, stop, probes, receipt, workspace, world>>

\* Only a PASS integrates.  git commit --allow-empty takes what is staged.
Integrate ==
    /\ pc = "integrate"
    /\ \/ ~ok /\ Fail /\ UNCHANGED <<rev, ledger, commits, head>>
       \/ /\ ok
          /\ \E code \in {commits[head].code, tree}: Extend(code, commits[head].line)
          /\ rev' = IF Round = 1 THEN [rev EXCEPT !.first = head'] ELSE [rev EXCEPT !.second = head']
          /\ ledger' = Log(<< <<"accepted_unit", ResultRevision>>, <<"integrating", ResultRevision>>,
                              <<"capability_check", head'>> >>)
          /\ pc' = "probe"
          /\ UNCHANGED exit
    /\ UNCHANGED <<request, elapsed, ok, probing, stop, disk, probes, receipt, tree, world>>

Complete ==
    /\ pc = "complete"
    /\ StopWith("completed", <<>>, rev.second, "final", {}, "gate")
    /\ UNCHANGED <<request, elapsed, ok, rev, probing, exit, disk, probes, receipt, workspace, world>>

-----------------------------------------------------------------------------
(* Time, the end of the process, and others in the workspace.              *)

Tick ==
    /\ now < MaxTime
    /\ now' = now + 1
    /\ UNCHANGED <<process, output, workspace, outside>>

\* The process is killed, or an exception main() does not catch ends it.
Die ==
    /\ pc \notin {"idle", "exited"}
    /\ pc' = "exited" /\ exit' = 1
    /\ UNCHANGED <<request, elapsed, ok, rev, probing, stop, output, workspace, world>>

\* The command is run again with the same directory: a process with nothing
\* in its variables.
Rerun ==
    /\ pc = "exited"
    /\ pc' = "idle"
    /\ elapsed' = 0 /\ ok' = TRUE /\ exit' = -1
    /\ rev' = NoRevisions /\ probing' = NoProbe /\ stop' = NoStop
    /\ UNCHANGED <<request, output, workspace, world>>

Outside ==
    /\ commits # <<>> /\ pc # "exited"
    /\ outside < MaxOutside
    /\ outside' = outside + 1
    /\ \/ /\ \E code \in Codes \ {tree}: tree' = code
          /\ UNCHANGED <<commits, head>>
       \/ /\ \E line \in {commits[head].line, {}}: Extend(tree, line)
          /\ UNCHANGED tree
       \/ /\ \E revision \in 1..Len(commits) \ {head}:
                head' = revision /\ tree' = commits[revision].code
          /\ UNCHANGED commits
    /\ UNCHANGED <<process, output, now>>

Step ==
    \/ Start \/ Bind \/ Gate \/ CaptureBaseline
    \/ StartProbe \/ IdentifyProbe \/ ExecuteProbe
    \/ RecheckProbe \/ ReidentifyProbe \/ RecordProbe \/ Decide
    \/ Build \/ Review \/ Integrate \/ Complete
    \/ WriteReceipt \/ Return

Next == Step \/ Tick \/ Die \/ Rerun \/ Outside

Spec == Init /\ [][Next]_vars

-----------------------------------------------------------------------------
(* Properties.                                                             *)

ProcessTypes ==
    /\ pc \in Points \union {"idle", "baseline", "probe", "identify", "execute", "recheck",
                             "reidentify", "record", "decide", "build", "seal", "integrate",
                             "complete", "receipt", "return", "exited"}
    /\ request \in Requests
    /\ now \in Nat /\ elapsed \in Nat /\ outside \in Nat
    /\ ok \in BOOLEAN /\ exit \in {-1, 0, 1, 2, 3, 4, 5}
    /\ rev \in Revisions
    /\ probing \in ProbingType
    /\ stop = NoStop \/ stop \in StopType

OutputTypes ==
    /\ disk \subseteq Files
    /\ probes \in [Targets -> RecordType \union {NoRecord}]
    /\ receipt = NoReceipt \/ receipt.refs \subseteq Files

WorkspaceTypes ==
    /\ commits \in Seq(CommitType) /\ tree \in Codes
    /\ head \in 1..Len(commits) \/ (head = 0 /\ commits = <<>>)

\* Every variable but the ledger, whose shape LedgerFollowsLifecycle states,
\* holds what the code can put there.
TypeOK == ProcessTypes /\ OutputTypes /\ WorkspaceTypes

Reported == receipt # NoReceipt

\* The receipt says of the capability exactly what the auditor's records say of
\* the baseline and of the integrated revision the receipt names: a result is
\* never carried over from another artifact, and a pass or a failure was
\* measured on that very revision.
ReportMatchesProbes ==
    Reported =>
        /\ receipt.before = probes["baseline"].result
        /\ \/ receipt.integration = 0 /\ receipt.after = "not_run"
           \/ \E t \in {"first", "second"}:
                /\ probes[t].expected = receipt.integration
                /\ probes[t].result = receipt.after
                /\ receipt.after \in {"passed", "failed"} => probes[t].artifact = receipt.integration

\* The integrated revision descends from the reviewed one and does the same.
Keeps(integrated, reviewed) ==
    /\ reviewed \in commits[integrated].line
    /\ commits[integrated].code = commits[reviewed].code

\* A completed receipt was reached within the frozen elapsed-time limit and the
\* authorized repair rounds, from a baseline that passed, past a measured
\* regression, to a repaired integration that passed.  Unless others were at
\* work in the directory, what was integrated is the result that was reviewed.
CompletedOnProof ==
    Reported /\ receipt.status = "completed" =>
        /\ receipt.elapsed <= Limit
        /\ receipt.rounds <= request.rounds
        /\ probes["baseline"].result = "passed" /\ probes["baseline"].artifact = 1
        /\ probes["first"].result = "failed"
        /\ probes["second"].result = "passed" /\ probes["second"].artifact = receipt.integration
        /\ outside = 0 => Keeps(receipt.integration, receipt.result)

\* A budget stop names a limit that was really reached: the clock is past the
\* limit, or the measured regression had no authorized round left.
BudgetStopIsReal ==
    Reported /\ receipt.status = "budget_exhausted" =>
        \/ receipt.elapsed > Limit
        \/ request.rounds = 0 /\ receipt.disposition = "degraded"

\* Ledger, receipt and exit code agree: a receipt closes the ledger as it is,
\* with the state the ledger stopped in, and cites only files that exist; a
\* run that returns one of the stop codes has left that receipt.
ReceiptClosesLedger ==
    /\ Reported =>
        /\ receipt.tail = ledger
        /\ State = receipt.status
        /\ receipt.refs \subseteq disk
    /\ exit \in {0, 3, 4, 5} => Reported /\ exit = ExitCode(receipt.status)

\* PROTOCOL.md, Core Lifecycle: the forward path and the bounded repair.
Lifecycle ==
    { <<"none", "draft">>, <<"draft", "mission_binding_check">>,
      <<"mission_binding_check", "approved">>, <<"approved", "capability_baseline">>,
      <<"capability_baseline", "assigned">>, <<"assigned", "building">>,
      <<"building", "mechanical_check">>, <<"mechanical_check", "critic_review">>,
      <<"critic_review", "accepted_unit">>, <<"accepted_unit", "integrating">>,
      <<"integrating", "capability_check">>, <<"capability_check", "final_review">>,
      <<"capability_check", "capability_regression">>, <<"capability_regression", "building">>,
      <<"final_review", "completed">> }

\* The ledger is one chain along the lifecycle: each event names its
\* predecessor, a stop state is the last one, and the number of times work was
\* started never exceeds what the request authorizes.
LedgerFollowsLifecycle ==
    /\ \A i \in 1..Len(ledger):
        LET previous == IF i = 1 THEN "none" ELSE ledger[i - 1].state
        IN  /\ ledger[i].previous = previous
            /\ previous \notin Stops
            /\ \/ <<previous, ledger[i].state>> \in Lifecycle
               \/ ledger[i].state \in Stops \ {"completed"}
    /\ ledger # <<>> =>
        Cardinality({i \in 1..Len(ledger): ledger[i].state = "building"}) <= 1 + request.rounds

\* A probe counts as passed or failed only for the expected revision, which
\* descends from the accepted baseline, and if others took one step at most since
\* its first look, at any point, then the code that was executed is that revision's.
\* An edit that is undone before the last look takes two.
ProbeIsExact ==
    [][\A t \in Targets:
        probes'[t] # probes[t] /\ probes'[t].result \in {"passed", "failed"} =>
            LET artifact == probes'[t].artifact
            IN  /\ artifact = probes'[t].expected
                /\ rev.baseline \in commits[artifact].line
                /\ probing.ran # "none" /\ outside <= probing.since + 1 =>
                       probing.ran = commits[artifact].code]_vars

\* Evidence is only ever added, each probe is recorded once, and with the
\* receipt the output directory is final: no later step and no second run
\* touches it.
EvidenceIsFinal ==
    [][/\ SubSeq(ledger', 1, Len(ledger)) = ledger
       /\ disk \subseteq disk'
       /\ \A t \in Targets: probes[t] # NoRecord => probes'[t] = probes[t]
       /\ Reported \/ pc = "exited" => UNCHANGED output]_vars

\* The run is an honest preservation gate: evidence in order, each piece
\* licensed by the one before, and one outcome no better than the evidence.
Promise == INSTANCE PreservationGate WITH
    evidence <- [t \in Targets |-> probes[t].result],
    outcome <- IF Reported THEN <<receipt.status, receipt.disposition>> ELSE <<"open", "none">>

KeepsPromise == Promise!Spec

\* AI_AGENT_INTEGRATION.md, Stop Behavior: an inconclusive probe of an
\* integrated artifact stops the run with a report, not with a bare exit.
InconclusiveIsReported ==
    exit = 2 /\ Integration # 0 /\ probes[Target].result = "inconclusive" => Reported
=============================================================================
