----------------------------- MODULE AuditRunner -----------------------------
(***************************************************************************)
(* examples/capability-audit/runner.py: run() starts each declared probe   *)
(* once per side in a sandbox, keeps an event ledger, the bounded output   *)
(* and the observations of each, and seals what it collected; verify()     *)
(* compares the sealed files with a digest retained elsewhere.             *)
(*                                                                         *)
(* The runner, the sandboxed processes, the clock and whoever touches the  *)
(* evidence afterwards take turns.  What manifests, snapshots and          *)
(* observations say is left out, beyond whether a probe's observations are *)
(* missing, unusable, different or as expected.                            *)
(***************************************************************************)
EXTENDS Integers, SequencesExt

CONSTANTS
    Dispatches,   \* probes times sides: how many times a probe is started
    Streams,      \* stdout and stderr
    ProbeTimeout, \* timeout_seconds of a probe
    RunTime,      \* limits.elapsed_seconds
    Limit,        \* max_log_bytes, per stream
    MaxOutput,    \* bound: bytes a probe writes to a stream
    MaxTime       \* bound: the clock stops here

ASSUME CountAssumption == Dispatches \in Nat \ {0}
ASSUME LimitsAssumption == ProbeTimeout \in Nat \ {0} /\ RunTime \in Nat \ {0} /\ Limit \in Nat \ {0}
ASSUME BoundsAssumption == MaxOutput \in Nat /\ MaxTime \in Nat

VARIABLES
    pc,       \* where the runner stands
    now,      \* seconds since the run started
    dispatch, \* which start of a probe is at hand
    begun,    \* when it was launched
    status,   \* execute()'s status
    open,     \* the pipes the selector still watches
    taken,    \* bytes read from each pipe
    row,      \* the row under construction
    rows,     \* the rows of the report
    exit,     \* the exit code, or -1
    child,    \* the process execute() started
    killed,   \* it has been sent SIGKILL
    code,     \* whether it returned the expected exit code
    alive,    \* something in its PID namespace lives
    writers,  \* the pipes something in there can still write to
    written,  \* bytes written to each pipe
    results,  \* the observations it left
    ledger,   \* commands.jsonl
    files,    \* the other files of the evidence directory
    sealed,   \* the files evidence-manifest.json lists
    altered,  \* files changed or removed by somebody else afterwards
    verdict   \* what verify() has last said

watch == <<begun, status, open, taken>>
runner == <<dispatch, watch, row, rows>>
process == <<child, killed>>
effects == <<code, alive, writers, written, results>>
sandbox == <<process, effects>>
disk == <<ledger, files, sealed>>
vars == <<pc, now, runner, exit, sandbox, disk, altered, verdict>>

Row ==
    [execution: {"not_run", "launch_error", "completed", "timeout", "output_limit"},
     status: {"unproven", "matched", "mismatch"}]
NewRow == [execution |-> "not_run", status |-> "unproven"]

Event == [event: {"not_run", "started", "finished"}, dispatch: 1..Dispatches, row: Row]
Files == ({"directory", "inputs", "ledger", "comparison", "packet", "seal"} \X {0})
         \union ({"logs", "observations"} \X (1..Dispatches))
Kept(f) == <<f, 0>>

Init ==
    /\ pc = "idle" /\ now = 0 /\ dispatch = 1 /\ begun = 0 /\ status = "completed"
    /\ open = {} /\ taken = [s \in Streams |-> 0] /\ row = NewRow /\ rows = <<>> /\ exit = -1
    /\ child = "none" /\ killed = FALSE /\ code = "other" /\ alive = FALSE
    /\ writers = {} /\ written = [s \in Streams |-> 0] /\ results = "none"
    /\ ledger = <<>> /\ files = {} /\ sealed = {} /\ altered = {} /\ verdict = "none"

-----------------------------------------------------------------------------
(* run() *)

\* execute() has returned; what its sandbox may still do reaches nobody.
Forget ==
    /\ begun' = 0 /\ status' = "completed" /\ open' = {} /\ taken' = [s \in Streams |-> 0]
    /\ code' = "other" /\ alive' = FALSE /\ writers' = {}
    /\ written' = [s \in Streams |-> 0] /\ results' = "none"

Exit(value) ==
    /\ pc' = "exited" /\ exit' = value
    /\ now' = 0 /\ dispatch' = 1 /\ row' = NewRow /\ rows' = <<>>
    /\ Forget

Taken == Kept("directory") \in files

\* The checks of the inputs, and the directory that must be new.
Start ==
    /\ pc = "idle"
    /\ \/ Exit(2) /\ UNCHANGED files
       \/ /\ ~Taken
          /\ files' = files \union {Kept("directory")}
          /\ pc' = "setup"
          /\ UNCHANGED <<now, runner, exit, effects>>
    /\ UNCHANGED <<process, ledger, sealed, altered, verdict>>

\* The copies of the inputs, both snapshots and the diff.
SetUp ==
    /\ pc = "setup"
    /\ files' = files \union {Kept("inputs")}
    /\ pc' = "dispatch"
    /\ UNCHANGED <<now, runner, exit, sandbox, ledger, sealed, altered, verdict>>

\* Slip: the ledger is opened to be written, not to be appended to.
overwrite_event(event, r) == ledger' = <<[event |-> event, dispatch |-> dispatch, row |-> r]>>

append_event(event, r) == ledger' = Append(ledger, [event |-> event, dispatch |-> dispatch, row |-> r])

keep_row(r) == rows' = Append(rows, r) /\ dispatch' = dispatch + 1 /\ row' = NewRow

\* run_probe() up to the copy of the snapshot, for which time may pass.
Dispatch ==
    /\ pc = "dispatch" /\ dispatch <= Dispatches
    /\ \/ /\ now >= RunTime
          /\ append_event("not_run", NewRow)
          /\ keep_row(NewRow)
          /\ UNCHANGED pc
       \/ now < RunTime /\ pc' = "copied" /\ UNCHANGED <<ledger, rows, dispatch, row>>
    /\ UNCHANGED <<now, begun, status, open, taken, exit, sandbox, files, sealed, altered, verdict>>

Announce ==
    /\ pc = "copied"
    /\ append_event("started", NewRow)
    /\ pc' = "prepared"
    /\ UNCHANGED <<now, runner, exit, sandbox, files, sealed, altered, verdict>>

Allowance == IF ProbeTimeout < RunTime - begun THEN ProbeTimeout ELSE RunTime - begun

\* The second look at the deadline, and execute() up to its loop.
Launch ==
    /\ pc = "prepared"
    /\ \/ /\ now >= RunTime
          /\ pc' = "record"
          /\ UNCHANGED <<begun, status, open, taken, row, sandbox, files>>
       \/ /\ now < RunTime \* Popen() fails
          /\ row' = [row EXCEPT !.execution = "launch_error"]
          /\ pc' = "record"
          /\ UNCHANGED <<begun, status, open, taken, sandbox, files>>
       \/ /\ now < RunTime
          /\ begun' = now /\ status' = "completed"
          /\ open' = Streams /\ taken' = [s \in Streams |-> 0]
          /\ child' = "running" /\ killed' = FALSE /\ code' = "other" /\ alive' = TRUE
          /\ writers' = Streams /\ written' = [s \in Streams |-> 0] /\ results' = "none"
          /\ files' = files \union {<<"logs", dispatch>>}
          /\ pc' = "loop"
          /\ UNCHANGED row
    /\ UNCHANGED <<now, dispatch, rows, exit, ledger, sealed, altered, verdict>>

-----------------------------------------------------------------------------
(* execute(): the loop *)

\* Slip: the clock is read only once there has been output.
LateAfterOutput == status = "completed" /\ now - begun >= Allowance /\ \E s \in Streams: taken[s] > 0

Late == status = "completed" /\ now - begun >= Allowance

\* The condition, the clock and the signal.
Loop ==
    /\ pc = "loop"
    /\ \/ /\ open = {} /\ child = "exited"
          /\ pc' = "observe"
          /\ UNCHANGED <<status, killed>>
       \/ /\ open # {} \/ child = "running"
          /\ status' = IF Late THEN "timeout" ELSE status
          /\ killed' = (killed \/ (status' # "completed" /\ child = "running"))
          /\ pc' = "select"
    /\ UNCHANGED <<now, dispatch, begun, open, taken, row, rows, exit>>
    /\ UNCHANGED <<child, effects, disk, altered, verdict>>

\* Slip: the chunk that crosses the limit is cut without notice.
OverflowsWhenFull(s) == written[s] > taken[s] /\ taken[s] >= Limit

Overflows(s) == written[s] > taken[s] /\ written[s] > Limit

\* select() and a read of each pipe that is ready: what is in it, or its end.
Select ==
    LET ready == {s \in open: written[s] > taken[s] \/ s \notin writers} IN
    /\ pc = "select"
    /\ open' = open \ {s \in ready: written[s] = taken[s]}
    /\ taken' = [s \in Streams |-> IF s \in ready THEN written[s] ELSE taken[s]]
    /\ status' = IF \E s \in ready: Overflows(s) THEN "output_limit" ELSE status
    /\ pc' = "loop"
    /\ UNCHANGED <<now, dispatch, begun, row, rows, exit, sandbox, disk, altered, verdict>>

Judge(o) ==
    IF status # "completed" \/ o \in {"none", "invalid"} THEN "unproven"
    ELSE IF o = "expected" /\ code = "expected" THEN "matched" ELSE "mismatch"

\* The rest of run_probe() up to its event; what cannot be read or kept is none.
Observe ==
    /\ pc = "observe"
    /\ \E o \in {results, "none"}:
           /\ row' = [execution |-> status, status |-> Judge(o)]
           /\ files' = IF o = "none" THEN files ELSE files \union {<<"observations", dispatch>>}
    /\ pc' = "record"
    /\ UNCHANGED <<now, dispatch, begun, status, open, taken, rows, exit, sandbox, ledger, sealed, altered, verdict>>

Record ==
    /\ pc = "record"
    /\ append_event("finished", row)
    /\ keep_row(row)
    /\ Forget
    /\ pc' = "dispatch"
    /\ UNCHANGED <<now, exit, process, files, sealed, altered, verdict>>

-----------------------------------------------------------------------------
(* The end of run(), the ways out of it, and verify() *)

Report ==
    /\ pc = "dispatch" /\ dispatch > Dispatches
    /\ files' = files \union {Kept("comparison")}
    /\ pc' = "packet"
    /\ UNCHANGED <<now, runner, exit, sandbox, ledger, sealed, altered, verdict>>

Packet ==
    /\ pc = "packet"
    /\ files' = files \union {Kept("packet")}
    /\ pc' = "seal"
    /\ UNCHANGED <<now, runner, exit, sandbox, ledger, sealed, altered, verdict>>

\* Slip: rglob("*") is glob("*"), which does not look into logs/.
ListedOnTop == {f \in files: f[2] = 0} \union {Kept("ledger")}

Listed == files \union {Kept("ledger")}

Seal ==
    /\ pc = "seal"
    /\ sealed' = Listed
    /\ files' = files \union {Kept("seal")}
    /\ pc' = "sealed"
    /\ UNCHANGED <<now, runner, exit, sandbox, ledger, altered, verdict>>

\* Slip: expectations are met when no row is a mismatch.
MetUnlessMismatch == \A d \in 1..Len(rows): rows[d].status # "mismatch"

all_expectations_met == \A d \in 1..Len(rows): rows[d].status = "matched"

Return ==
    /\ pc = "sealed"
    /\ Exit(IF all_expectations_met THEN 0 ELSE 1)
    /\ UNCHANGED <<process, disk, altered, verdict>>

\* Slip: execute() has no finally clause.
AbandonRunning == UNCHANGED process

\* The finally clause of execute(): kill and reap what still runs.
Abandon ==
    IF pc \in {"loop", "select"} /\ child = "running"
    THEN child' = "exited" /\ killed' = TRUE
    ELSE UNCHANGED process

\* Whatever can raise between two steps; main() returns 2.
Raise ==
    /\ pc \notin {"idle", "observe", "exited"}
    /\ Exit(2)
    /\ Abandon
    /\ UNCHANGED <<disk, altered, verdict>>

\* The runner is killed: the sandbox was told to die with its parent.
Die ==
    /\ pc \notin {"idle", "exited"}
    /\ Exit(9)
    /\ killed' = (killed \/ child = "running")
    /\ UNCHANGED <<child, disk, altered, verdict>>

\* Another run with the same --out-dir.
Rerun ==
    /\ pc = "exited"
    /\ pc' = "idle" /\ exit' = -1
    /\ UNCHANGED <<now, runner, sandbox, disk, altered, verdict>>

\* One file of the evidence is changed or removed.
Tamper ==
    /\ pc = "exited" /\ altered = {} /\ ledger # <<>>
    /\ \E f \in (files \ {Kept("directory")}) \union {Kept("ledger")}: altered' = {f}
    /\ UNCHANGED <<pc, now, runner, exit, sandbox, disk, verdict>>

Intact == altered \intersect (sealed \union {Kept("seal")}) = {}

\* verify() with the digest that run() printed.
Verify ==
    /\ pc = "exited" /\ Kept("seal") \in files
    /\ verdict' = IF Intact THEN "verified" ELSE "changed"
    /\ UNCHANGED <<pc, now, runner, exit, sandbox, disk, altered>>

-----------------------------------------------------------------------------
(* The sandbox and the clock *)

Write(s) ==
    /\ s \in writers /\ written[s] < MaxOutput
    /\ written' = [written EXCEPT ![s] = @ + 1]
    /\ UNCHANGED <<pc, now, runner, exit, process, code, alive, writers, results, disk, altered, verdict>>

Close(s) ==
    /\ s \in writers
    /\ writers' = writers \ {s}
    /\ UNCHANGED <<pc, now, runner, exit, process, code, alive, written, results, disk, altered, verdict>>

Leave ==
    /\ alive
    /\ results' \in {"invalid", "different", "expected"}
    /\ UNCHANGED <<pc, now, runner, exit, process, code, alive, writers, written, disk, altered, verdict>>

\* The started process ends, by itself or by a signal.
ChildEnds ==
    /\ child = "running"
    /\ child' = "exited" /\ code' \in {"expected", "other"}
    /\ UNCHANGED <<pc, now, runner, exit, killed, alive, writers, written, results, disk, altered, verdict>>

\* What it left behind in its PID namespace dies with it.
NamespaceEnds ==
    /\ child = "exited" /\ alive
    /\ alive' = FALSE /\ writers' = {}
    /\ UNCHANGED <<pc, now, runner, exit, process, code, written, results, disk, altered, verdict>>

Tick ==
    /\ pc \notin {"idle", "exited"} /\ now < MaxTime
    /\ now' = now + 1
    /\ UNCHANGED <<pc, runner, exit, sandbox, disk, altered, verdict>>

-----------------------------------------------------------------------------

Step ==
    \/ Start \/ SetUp \/ Dispatch \/ Announce \/ Launch \/ Loop \/ Select \/ Observe
    \/ Record \/ Report \/ Packet \/ Seal \/ Return

Sandbox == Leave \/ ChildEnds \/ NamespaceEnds \/ \E s \in Streams: Write(s) \/ Close(s)

Next == Step \/ Raise \/ Die \/ Rerun \/ Tamper \/ Verify \/ Sandbox \/ Tick

Spec == Init /\ [][Next]_vars

\* The runner and the clock go on; a signal arrives; a PID namespace does not
\* outlive its first process.
LiveSpec ==
    /\ Spec
    /\ WF_vars(Step) /\ WF_vars(Tick)
    /\ WF_vars(killed /\ ChildEnds) /\ WF_vars(NamespaceEnds)

-----------------------------------------------------------------------------

TypeOK ==
    /\ pc \in {"idle", "setup", "dispatch", "copied", "prepared", "loop", "select", "observe",
               "record", "packet", "seal", "sealed", "exited"}
    /\ now \in 0..MaxTime /\ begun \in 0..MaxTime
    /\ dispatch \in 1..(Dispatches + 1) /\ Len(rows) = dispatch - 1
    /\ status \in {"completed", "timeout", "output_limit"}
    /\ open \subseteq Streams /\ writers \subseteq Streams
    /\ taken \in [Streams -> 0..MaxOutput] /\ written \in [Streams -> 0..MaxOutput]
    /\ row \in Row /\ rows \in Seq(Row)
    /\ exit \in {-1, 0, 1, 2, 9}
    /\ child \in {"none", "running", "exited"} /\ code \in {"expected", "other"}
    /\ killed \in BOOLEAN /\ alive \in BOOLEAN
    /\ results \in {"none", "invalid", "different", "expected"}
    /\ ledger \in Seq(Event)
    /\ files \subseteq Files /\ sealed \subseteq Files /\ altered \subseteq Files
    /\ verdict \in {"none", "verified", "changed"}

\* A row says more than "unproven" only when the probe ended by itself and its
\* logs hold all that it wrote: never after a signal, a full log or a pipe that
\* was still open.  execute(), run_probe().
ResultIsEarned ==
    pc = "record" /\ row.status # "unproven" =>
        /\ child = "exited" /\ ~killed /\ writers = {}
        /\ \A s \in Streams: taken[s] = written[s] /\ written[s] <= Limit
        /\ row.status = "matched" => code = "expected"

\* A process that nobody has told to end is one whose pipes and clock the loop
\* watches: no error path of the runner leaves a probe behind.  execute()'s
\* finally clause.
NobodyLeftRunning == child = "running" /\ ~killed => pc \in {"loop", "select"}

\* The ledger goes through the dispatches one after the other; each is either
\* not run or started and then finished, and only the last one may be started
\* without an end.  append_event(), run_probe().
LedgerIsOrdered ==
    \A i \in 1..Len(ledger):
        /\ ledger[i].event = "finished" =>
               i > 1 /\ ledger[i - 1] = [event |-> "started", dispatch |-> ledger[i].dispatch, row |-> NewRow]
        /\ i < Len(ledger) =>
               ledger[i + 1].dispatch = IF ledger[i].event = "started" THEN ledger[i].dispatch ELSE ledger[i].dispatch + 1

\* The report rests on the ledger: comparison.json exists only when every
\* dispatch has its ending event, and exit code 0 means that each of them
\* matched.  run(), lines 384 to 405.
ReportRestsOnLedger ==
    /\ Kept("comparison") \in files =>
           \A d \in 1..Dispatches: \E i \in 1..Len(ledger): ledger[i].dispatch = d /\ ledger[i].event # "started"
    /\ exit = 0 =>
           \A i \in 1..Len(ledger): ledger[i].event # "started" => ledger[i].row.status = "matched"

\* Evidence grows; sealed, it does not change at all.
OnlyGrows ==
    /\ IsPrefix(ledger, ledger') /\ files \subseteq files'
    /\ Kept("seal") \in files => UNCHANGED disk
\* Evidence is only ever added, and nothing is added once it is sealed: a second
\* run on the directory is refused.  run()'s mkdir(), append_event(), seal().
SealedIsFinal == [][OnlyGrows]_disk

\* verify() accepts only what the sealing run left, to the last log.  seal(),
\* verify().
VerifiedIsWhole == [][verdict' = "verified" => altered = {}]_verdict

\* A run ends, whatever its probes do: they may be silent, write without end,
\* close their pipes or leave processes behind.  execute().
RunEnds == (pc # "idle") ~> (pc = "exited")
=============================================================================
