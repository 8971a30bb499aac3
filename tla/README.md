# Krystal Loop Protocol: TLA+ models and proofs

The repository holds a protocol for reviewed agent work (`PROTOCOL.md` and the
documents around it) and reference programs under `examples/` that carry parts
of it out.  The documents are rules for people and agents; the programs have
state, processes, clocks and failures.  This directory models the programs.
Every definition is translated from the Python source, and `map` in
`PROJECT.json` names the lines it stands for.  The documents come in as
properties: a rule that a program promises to keep is stated over the model of
that program.

Run `tlc -config X.cfg MCModule.tla` for a run, `tlapm Module_proofs.tla` for the
proofs.

## 1. Inventory

### The parts

| Component (`examples/...`) | State | Operations | Modules |
|---|---|---|---|
| **Wake runner** `semio-coordination/wake_runner.py` | durable: one SQLite row (config, state). Volatile: a `WakeRunner` object and a `run()` call per process | open (pin), `run` = poll, validate, claim, execute, record, confirm; `close` | `WakeRunner`, `AtMostOnceJob`, `WakeRunner_proofs` |
| **Semio adapter** `semio-coordination/semio_adapter.py` | durable: binding, cursor, inbox rows. Volatile: one `poll`/`wait` call | open (bind), `publish`, `poll`, `wait`, `pending`, `mark_delivered`, `close` | `SemioInbox`, `Mailbox`, `SemioInbox_proofs` |
| **Wake bridge**: both in one host process | both databases | the host opens both and calls `run()` | `WakeBridge`, `WakeBridge_proofs` |
| **Capability-preservation run** `capability-regression/run_fixture.py` | the state ledger, evidence files, three probe records, the final receipt, a Git workspace, the elapsed-time gate | one process: draft, bind, baseline, build, check, review, integrate, probe, repair, complete, and a stop path behind every operation | `CapabilityRun`, `PreservationGate`, `CapabilityRun_proofs` |
| **Critic harness** `openai-compatible-critic/critic.py`, `evidence_review.py` | the evidence directory (`effort.json`, request and response files, `verdict.json`), the effort dictionary, one HTTP request | send a packet or hold a bounded dialogue with evidence reads; judge the verdict | `CriticReview`, `CriticReview_proofs` |
| **Fail-review-repair run** `fail-review-repair/run_fixture.py` | the output directory with ledger, evidence and receipt, a Git workspace, one process per run | one failing build, two reviews, one repair, a final check, two ends | `FailReviewRepair`, `BoundedRepair`, `FailReviewRepair_proofs` |
| **Capability audit runner** `capability-audit/runner.py` | evidence directory, event ledger, one sandboxed probe with two pipes at a time | snapshots, probes under two deadlines, report, seal, `verify` | `AuditRunner`, `AuditRunner_proofs` |
| **Mission and task contracts** `capability-regression/klp_v03.py` | none of its own; the snapshots callers keep | validate, amend and bind | `MissionChain`, `MissionChain_proofs` |
| Context packets `semio-coordination/review_context.py` | none | `compact_generated_context` | not modelled; its outcome is a choice in `CriticReview` |
| Worker launcher `deepseek-codex-worker/run.sh` | none of its own | checks arguments and starts one foreign program | not modelled |
| Record examples, case-study scripts | none | build and recompute static records | not modelled |
| Protocol documents, tests, CI | none | | not modelled; the source of properties |

### How they interact

* The wake runner calls the adapter's `poll()` and `mark_delivered()` and the
  host's `execute()`; each of them may raise or take arbitrarily long.  Several
  runner processes meet in one receipt database, and only there.
* The adapter reads a stream that peers append to and retention trims, between
  any two of its calls.
* The capability run starts the check, the probe and the critic as child
  processes and drives Git in an ordinary directory, where nothing keeps others
  from working too.  Its outcome goes to the ledger first, to the receipt second.
* The audit runner starts each probe in a sandbox of its own and is joined to it
  by two pipes, an exit code and a results directory; processes the probe leaves
  behind may hold the pipes.  Its seal is later compared by `verify`.
* Two fail-review-repair runs can meet in one output directory; the `mkdir` of the
  workspace is the only operation that tells them apart.
* The contract functions keep nothing: callers hand back any snapshot, an old one
  or an edited one, with any request.  What ties revisions together is in the
  snapshots.
* The critic harness talks to one provider over HTTP.  A callback, `on_request`,
  writes evidence between the building of a request and its sending.

### What is hard, and what makes each part correct

* *Wake runner.*  Two processes pass the eligibility check before either claims;
  a process dies between claim, launch and record; two of the three UPDATEs carry
  no condition; authorization expires on the way.  Correct: one launch at most
  per receipt, a row that never says more or less than what happened, the pinned
  plan and no other, no host told "completed" in error, every `run()` ends.
* *Semio adapter.*  Trimming during a read, duplicates and conflicting versions,
  stale and malformed entries, old answers, crashes between entries.  Correct: no
  silent gap, nothing stored is altered or taken from elsewhere, messages are
  handed over in order, a host that keeps polling is served or told why not.
* *Wake bridge.*  What is pending can change between scan, claim and launch; a
  scan raises although a good trigger is stored.  Correct: a launch rests on a
  durable notification, it is confirmed only when completed, and a fresh trigger
  is acted on.
* *Capability run.*  Some fifty statements with a stop path behind each operation,
  time passing anywhere, results carried from one receipt to the next, others in
  the workspace, a death between ledger and receipt.  Correct: the receipt says
  what the probes showed of the very revision it names, completion is proved,
  budget stops are real, ledger, receipt and exit code agree, evidence is final.
* *Critic.*  A request whose cost must be on record before it leaves; a dozen
  statements that can raise inside the dialogue; batches that cross a limit only
  together; late answers.  Correct: the record covers the traffic, the limits
  hold, a verdict rests on a complete record, every review ends.
* *Fail-review-repair.*  Two runs that find the same directory empty, runs that
  die between ledger, receipt and exit code, commands that fail, edits between
  commit and check.  Correct: one run owns an output directory, its ledger is one
  chain, a completed receipt rests on one line of revisions with a failed and a
  passed review, repairs stay within the authorized rounds.
* *Audit runner.*  A probe that floods, closes or outlives its pipes, two
  deadlines, events synced around each probe, a seal over everything.  Correct: a
  result is earned, nobody is left running, the ledger stays whole whatever the
  run dies of, the report rests on it, what `verify` accepts is untouched.
* *Contracts.*  Approvals for one mission hash, used late, twice or with another
  body; digests that come back; snapshots edited where no digest looks; numbers
  that Python takes for equal.  Correct: each revision is built from the text and
  the digest its request was approved for, the request declares what changed, and a
  task stands with one revision.

`hazards` in `PROJECT.json` lists these with their lines and the properties that
watch them.

## 2. Modules, and how they correspond to the code

A step of a model is what happens between two points at which something else can
intervene: another process, the clock, the stream, a fault, the end of the
process.  What the code does without such a point in between is one action, with
its trailing writes.  Exceptions leave the way the code lets them: to the caller,
through a `finally`, or out of the process.  Formats, hashes, wording and field
syntax are left out; where a property depends on one (a sound entry, a verdict
bound to its revision) it is a flag that the environment chooses.

Definitions under a comment that begins with `Slip` are plausible
programming mistakes.  No specification uses them; `mutants` in `PROJECT.json`
says which definition each replaces and which property then fails.

### `WakeRunner`, `AtMostOnceJob`

`phase[r]` is the statement of `run()` or `_dispatch()` that process `r` executes
next.  Each SELECT and each UPDATE is a step: `CheckEligible` and `Recheck`
(`_eligible`), `PollReturns`, `Validate`, `Remaining`, `Wake`, `ReturnIdle`,
`Claim` (UPDATE ... WHERE state='ready'), `Launch`, `ExecuteReturns`,
`ExecuteRaises`, `RecordFailure` and `RecordCompletion` (without a condition, as
in the code), `MarkDelivered`.  `Raise` is any exception a statement can end in;
`Close` is `close()` or the death of the process; only `config` and `state`
survive it.  `launches` is what the outside world saw.  One clock stands for wall
and monotonic time.  The call counters, which nothing reads, are left out.
`AtMostOnceJob` is the promise to the host, in three actions.

### `SemioInbox`, `Mailbox`

Stream entries are numbered; `first` is the oldest one retained.  `poll()` is
`CheckCursor`, `Read`, `Recheck`, one `Skip`, `Receive` or `Reject` per entry (each
its own transaction, as in the code) and `Collect`; `wait()` adds the deadline
and `Wake`.  `Read(since)` also allows a transport that answers an older
position.  `origin` is a history variable: where scanning of this database began.
One consumer per database, which the adapter demands.  `Mailbox` is the promise.

### `WakeBridge`

Composes both by `INSTANCE`: `WakeRunner`'s abstract answer to a poll becomes a
`poll()` of `SemioInbox` step by step (`BeginScan`, `ScanStep`, `EndScan`), and
its `mark_delivered` becomes the adapter's (`Confirm`).  A crash takes both
objects and leaves both databases.

### `CapabilityRun`, `PreservationGate`

`execute()` runs the same statements for both rounds; the model shares them, and
`Round` and `Target` are computed from the revisions that `execute()` holds.
`Gate` is `stop_if_exhausted()`.  A probe is six actions, one for each time it
touches the workspace or the disk: `StartProbe` (`git status`), `IdentifyProbe`
(`git rev-parse HEAD`), `ExecuteProbe`, `RecheckProbe` (`git status` again),
`ReidentifyProbe` (HEAD again) and `RecordProbe` (the write); others may act
between any two.  `WriteReceipt` follows the ledger's stop state as a write of its
own.  `Outside` edits, commits and checks out in the workspace; `Build` and
`Integrate` write and commit in one step, so nothing of others falls into the
middle of these.  `Die` ends the process anywhere, `Rerun` starts
another on the same directory.  The Git history is the set of revisions each
commit descends from and what its code does.  `PreservationGate` is the promise
without workspace, ledger, critic and clock: evidence in order, one outcome, no
better than the evidence.

### `CriticReview`

`pc` follows `run()`, `run_review()` and `call_provider()`.  `reading` says whether
`--evidence-reads` is given.  `Open` and `Note` are the two writes of
`on_request`, `Send`, `Trickle`, `Receive`, `RequestFails` and `TimesOut` are
`urlopen()` (a socket timeout bounds each silence), `File` and `Judge` what
`run_review()` makes of a response, `Close` its `finally`, `Extract` and `Validate`
the rest of `run()`.  Which packets, schemas and read arguments are accepted is a
choice; every outcome of it is followed.

### `AuditRunner`

`pc` follows `run()`, `run_probe()` and `execute()`.  `Select` is one turn of the
selector: it reads what is there of one pipe, closes it at its end, or finds
neither; `Loop`, `Late` and `Overflows` are the loop's conditions in the order of
the code.  The sandbox moves on its own: `Write`, `Close`, `Leave` (a descendant
keeps a pipe), `ChildEnds`, `NamespaceEnds`.  `Abandon` is the `finally` that
kills the process group, `Raise` an exception, `Die` the death of the runner,
`Rerun` a second start on the directory, `Tamper` an edit of sealed evidence and
`Verify` the command that compares.  Once `execute()` has returned, what its
sandbox may still do reaches nobody (`Forget`).

### `FailReviewRepair`, `BoundedRepair`

A run is about to append state `s` to its ledger when its `pc` is `s`; `Log` does
it, and the statements between two events are actions of their own: `Write`,
`Commit`, `Check`, `Review`, `Dispose`, `Integrate`, `FinalCheck`, `Receipt`.
Runs share the directory, the ledger, the evidence files, the workspace and the
receipt; which run wrote an event or a commit is kept for the properties only.
`memory[r]` is what the `StateLedger` of process `r` holds: `StateLedger_append`
takes number and previous state from there, and not from the file, and the receipt
names the tail remembered.  The number stands for the hash of its event.
`Edit` is anyone else in the workspace.  `BoundedRepair` is the promise: build,
judge, build again only when asked to and within the limit, close once.

### `MissionChain`

One action per call that can succeed: `build_authorized_mission_revision` and
`validate_task_binding`; a call that raises changes nothing.  A mission body is
named by its digest, and `Text` gives its document as a function from positions
to values of all the types `json.loads` returns.  A value has a type, what
`json.dumps` prints for it, which is what a digest covers (`Alike`), and what `==`
compares (`Equal`): 1, 1.0 and `true` are equal, so are 0.0 and -0.0, and a NaN
equals nothing unless it is in a list and the same object (`PyEqual`).  `FieldsAt` is
one call of `_changed_paths`, given what the calls below it return, and
`changed_positions` the walk, a recursive function over the positions of two
documents.  The code adds the pieces of a position to one string; `Path` does the
same, so that a key which holds a dot or a bracket can share its name with another
position, as in the code.  `Alter` edits a stored snapshot: its body, its body and
digest together, its parent digest, its revision number or its mission.

## 3. Runs

Runs check for deadlock, except `fail_review_repair` (every run has ended, or died, and no
other is started) and the two of `mission_chain` (the callers have made all the calls the
bounds allow): these systems really stop.  Bounds are named in the modules
(`MaxTime`, `MaxEntries`, `MaxOutside`) and are guards of the environment, not of
the code.

| Run | What it asks | Bounds, and why they are enough |
|---|---|---|
| `wake_runner` | safety of the receipt, refinement of `AtMostOnceJob`, and every `run()` ends | 2 processes (all races here are between a claimant and one other), 2 plans that differ in trigger and expiry so that pinning matters, scans of 0 to 2 notices, a clock of 3 that passes both expiries, limits and ages of 0 and 1 for both sides of each comparison |
| `wake_runner_expiry` | *violation*: no launch at or after `expires_at` | as above |
| `semio_inbox` | no silent gap, rows from the stream, order, refinement of `Mailbox`; every call ends; a host that keeps polling is served, or blocked for a reason the stream or the database shows | 3 entries out of 5 kinds (two messages, one of them also in a conflicting version, a later one, outgoing traffic, another mission's), trimming at any time: a gap needs an entry before it, one lost and one after; 2 bindings, batches of 1 and 2; a `max_age` of 0 stands for an age below one unit of the clock |
| `wake_bridge` | launches rest on durable notifications; confirmation; a fresh trigger is acted on | 2 entries out of 4 kinds: the trigger and what can stand before or behind it |
| `capability_run` | receipt, ledger, probes, refinement of `PreservationGate` | each command-line option on its own, a limit of 1 and a clock of 3 (within, at and past the limit at every gate), 2 outside steps (one to leave, one to come back) between any two steps of the run, deaths and second runs anywhere |
| `capability_run_unreported` | *violation*: an inconclusive integrated probe is reported | the plain command line, nobody else in the workspace |
| `critic_review` | record, limits, verdict, time; every review ends | 3 calls as in the code; 2 reads in place of 8, so that a batch can be below, at and above the limit alone and with an earlier batch; a timeout of 2 and a clock of 3 |
| `critic_review_deadline` | *violation*: no request outlasts what was left of the deadline | a timeout of 1 |
| `audit_runner` | results are earned, nobody is left, ledger, report and seal fit, every run ends | 2 dispatches (a comparison needs both sides; a second one can find an early mistake), both pipes, a log limit of 1 and probes that write up to 2 bytes to each, two deadlines of 2 and a clock of 2, so that each can pass first |
| `fail_review_repair` | one owner, one chain, an earned completion, an honest end, refinement of `BoundedRepair` | 2 runs on one directory (one owner and one other), round limits -1 to 2 (refused, none, the default, more than the script uses), 2 edits: one to disturb, one to restore |
| `mission_chain` | what a revision is built from, declared changes, bindings | 5 bodies that differ in a scalar, a list of scalars, the number of capabilities, `null` and `"null"`, 0.0 and -0.0, 1 and 1.0, two NaNs, and one of two positions with one name; 3 amendments (there, back to the first text, and once more), 1 edited snapshot, 2 bindings, requests that are right, or wrong in one thing, 12 tasks likewise |
| `mission_chain_numbers` | *violation*: nothing changes undeclared | 2 bodies that differ in `1` and `true` |

Type invariants, and several invariants and action properties that a
theorem states for every instance (section 4), are not run again: `TypeOK` in all
modules, `AtMostOneLaunch`, `ClaimIsExclusive`, `ReceiptMovesForward`,
`BudgetStopIsReal`, `SealedIsFinal`, `CapabilitiesAreCovered` and the two
`EvidenceIsFinal`.

### Properties worth knowing

* `AtMostOneLaunch`, `ReceiptTellsTruth`, `ClaimIsExclusive`, `OutcomesAreHonest`,
  `LaunchUnderPinnedPlan`, `ReceiptMovesForward` (`WakeRunner`).
* `NoSilentGap`: from the first entry ever scanned to the cursor, everything
  addressed to this inbox is stored.  The first scan of a new database may find
  the stream trimmed already; the adapter makes no promise about what was before.
* `ServedArrives`: `Blocked` names what may stand in the way, a trimmed cursor
  or entry, or an addressed entry that can never be taken in, which the adapter
  stops at without skipping.
* `NothingAheadOfTheTrigger`, `TriggerWakes` (`WakeBridge`).  `Excused` shows a
  consequence of the code that is easy to miss: `run()` learns of pending
  notifications only from `poll()`, which raises on a later bad entry, so a stored
  trigger can wait behind an entry that arrived after it.
* `ReportMatchesProbes`, `CompletedOnProof`, `BudgetStopIsReal`,
  `ReceiptClosesLedger`, `LedgerFollowsLifecycle`, `ProbeIsExact`, `EvidenceIsFinal`
  (`CapabilityRun`).  `ProbeIsExact` says what the four looks of a probe amount to:
  a pass or a failure is recorded for the expected revision only, and the code
  executed was that revision's if others took at most one step since the first
  look.  An edit that is undone before the last look takes two, and goes unseen.
  That what a completed run integrates is what was reviewed
  rests on nobody else working in the directory: `integration_commit()` takes
  whatever HEAD is, and `CompletedOnProof` states the tie for `outside = 0` only.
* `EffortCoversTraffic`, `DialogueIsBounded`, `VerdictIsEarned`, `EndsInTime`,
  `EvidenceIsFinal` (`CriticReview`).
* `ResultIsEarned`: no probe that was killed, cut in its log or left with an open
  pipe is matched or mismatched.  `NobodyLeftRunning`, `LedgerIsOrdered`,
  `ReportRestsOnLedger`, `VerifiedIsWhole`, `RunEnds` (`AuditRunner`).
* `OneRunPerOutput`, `LedgerIsOneChain`, `CompletedWasEarned`, `ReceiptClosesLedger`,
  `KeepsBounds` (`FailReviewRepair`).  The declared check reads the working tree and
  not the commit it speaks for: that the revisions of a completed receipt have the
  contents judged is stated for a workspace nobody else edits.
  `KeepsBounds` is about rounds; no other limit meets a condition in the code.
* `LineageIsWhole`, `OnlyEqualsSlip`, `TasksStayBound` (`MissionChain`).  The digest
  covers the body alone.  What `LineageIsWhole` says of a revision, whatever was
  edited, is that it was built from the text and the digest its request was approved
  for; that it continues a revision that was built holds unless the edit does not
  show, which an edited number, parent or mission does not, nor a body edited
  together with its digest.  `OnlyEqualsSlip` is what holds of `fields_changed`:
  nothing differs outside the fields declared but values `==` takes for equal.
  `ChangesAreDeclared`, the exact match that the messages promise, is the property of
  `mission_chain_numbers`.  A snapshot may be amended more than once, so the
  revisions form a tree; that the operator keeps one branch is up to the operator.

### Fairness

* `WakeRunner!Fairness`: weak fairness of each process's own statements and of
  time.  The class demands of its host that injected callbacks return, which
  is what makes a started call go on.  Nothing makes the host call, or a fault
  happen or not happen.
* `SemioInbox!Fairness`: the same for `poll()` and `wait()`.  `Served` adds a host
  that reopens and polls again, and that faults and answers to older positions
  come to an end: without that no polling client can promise delivery.
* `WakeBridge!Attentive`: the same for both; nothing makes time pass, so expiry
  and age excuse only when they really come.
* `CriticReview!LiveSpec`: weak fairness of the review's steps, which includes that
  `urlopen()` comes back.  For a provider that sends a little at a time for ever
  the code does not guarantee that, as `critic_review_deadline` shows; `RunEnds`
  is about the dialogue around the call.

* `AuditRunner!LiveSpec`: weak fairness of the runner's statements and of time; a
  process that was sent SIGKILL ends, and a PID namespace does not outlive its
  first process (`bwrap --unshare-all --die-with-parent`).  Nothing makes a probe
  write, close a pipe or end by itself: the deadline must do it.
* The other modules state no fairness, and no liveness is claimed for them.

### Disagreements between documents and code

* `wake_runner_expiry`.  `wake_runner.py` calls `expires_at` "the latest permitted
  launch time" and says "no new callback may start"; the clock is compared before
  the claim commits, and the launch follows without another look.
* `capability_run_unreported`.  `AI_AGENT_INTEGRATION.md` asks an agent to stop
  and report `capability_unproven` when integrated-artifact evidence is
  inconclusive.  For the repaired integration `execute()` raises `FixtureError`:
  exit 2, the ledger ends in `capability_check`, no receipt.
* `critic_review_deadline`.  The critic's README puts the whole dialogue within
  the `--timeout-seconds` deadline; the remaining time is passed to `urlopen()`,
  which applies it to each silence of the socket.
* `mission_chain_numbers`.  The messages of `build_authorized_mission_revision()` say
  that `fields_changed` must match exactly.  `_changed_paths()` compares lists with
  `==`, and in Python `[{"threshold": 1}] == [{"threshold": true}]`: the change of
  a capability's number goes undeclared, and declaring it is refused.  The same holds
  of 1 and 1.0 in a list and of 0.0 and -0.0 anywhere, and where a key holds a dot or a
  bracket one entry can stand for two positions (`mission_chain` has bodies of each
  kind); a NaN is changed whenever it is compared.

## 4. Proofs

The theorems hold for every value of the constants that meets the named
assumptions of the module, and TLC evaluates these in the runs:

| Module | Assumptions |
|---|---|
| `WakeRunner` | `PlansAssumption`, `NoticesAssumption`, `TimesAssumption` |
| `SemioInbox` | `ConfigsAssumption`, `EntriesAssumption`, `BoundsAssumption` |
| `WakeBridge` | those of `SemioInbox`, `PlanAssumption`; the ones of `WakeRunner` follow |
| `CapabilityRun` | `LimitsAssumption`, `RequestsAssumption`, `BoundsAssumption` |
| `CriticReview` | `LimitsAssumption`, `BoundsAssumption` |
| `AuditRunner` | `CountAssumption`, `LimitsAssumption`, `BoundsAssumption` |
| `FailReviewRepair` | `RunsAssumption`, `LimitsAssumption` |
| `MissionChain` | `BodiesAssumption`, `DocumentsAssumption`, `DigestAssumption`, `InputsAssumption`, `BoundsAssumption` |

All but two only say what kind of thing each constant is.  `DocumentsAssumption` says
that a body is a finite tree of objects, lists and scalars, in which only objects and
lists contain anything, which is what `json.loads` returns; `DigestAssumption` says that
documents printed the same have the same digest.

**`WakeRunner_proofs`**, for any number of processes: `TypeCorrect`,
`LaunchedAtMostOnce`, `ClaimExclusive`, `ReceiptTruthful`, `LaunchPinned`,
`HonestOutcomes`, `MovesForward`, and `ImplementsPromise` (refinement of
`AtMostOnceJob`).  None of the properties is inductive alone: at most one launch
holds because the claim is exclusive; the claim stays exclusive because the row is
`claimed` for as long as anyone is past it; and that is so because nobody else makes
an unconditional UPDATE.  `IInv` says this: `Pinned` (row and open objects have one
plan), `ClaimIsExclusive`, `OwnLaunch` (how the owner's launch ended, by where it
stands) and `RowAndLaunches` (what each state says of the launches).  One lemma
per kind of step shows it preserved.  `LaunchesInTime` is the other side of
`wake_runner_expiry`: in every behaviour in which no time passes at the two
statements between the clock check and the call of `execute()` (`AtOnce`), no launch
is late.  However many processes run and however long they wait or sleep, that gap
is the only way to a late launch.  `RunsAdvance`: each statement of a `run()` lowers its
distance from the end, at most 11, unless it is the decision to wait again (`WaitsOn`),
which only a call with time and authorization left takes; no process raises another's.

**`CapabilityRun_proofs`**, for any limits, command lines and amount of outside
work: `TypeCorrect`, `ReportsAreBacked`, `CompletionIsProved`,
`BudgetStopsAreReal`, `ProbesAreExact`, and `ImplementsGate` (refinement of
`PreservationGate`).  The receipt's results are constants in the code, spelled out
at each stop path, so that they are right depends on the path taken.  `Stages`
says for each point of `execute()` which probes are on record by then and what
they showed, `Exact` that a pass or a failure is about the expected revision,
`Descends` that a probe under way began on a descendant of the baseline, `Watched`
what a single step of others has left behind for the looks that remain,
`Directory` that a second run never gets past a used directory.  `ReceiptCloses`,
`LedgerChained` and `EvidenceStays` rest on `Papers` as well: `LedgerKept` says which
state the ledger is in at each statement and how often work was started, by the
revisions `execute()` holds, and `FilesKept` which evidence files are there by then,
so that each of the reference lists spelled out at a stop path names files that exist.
`Undisturbed` is the part of `IInv` about a directory nobody else touches: the
checkout is the revision `execute()` last made, clean, and each revision keeps the
one before.  It gives the last conjunct of `CompletedOnProof`, and
`IntegratedAsReviewed` for both rounds of runs that end in any way.
`UnreportedOnlyRepaired` bounds the finding of `capability_run_unreported`: only the
probe of the repaired integration goes without a receipt when it is inconclusive.
`RunsAdvance` says that `Distance`, a number from 0 to 51 given by the statement and
the round, falls with every statement, whatever fails on the way.

**`CriticReview_proofs`**, for any limits: `TypeCorrect`, `TrafficIsCovered`,
`TrafficIsBounded`, `VerdictsAreEarned`, `EndsTimely`, `EvidenceStays`.  `Dialogue` is
the loop invariant of `run_review()`: how many requests have left at each
statement, which calls are answered and filed, and that what is saved equals what
is in memory while a request is out.  `Directory` carries this across runs: an
empty directory has seen no traffic, a used one is refused.  Counting returned
reads takes lemmas about cardinalities of growing sequences (`ReturnedBounds`).
`OnlyTricklesOutlast` is the other side of `critic_review_deadline`: without `Trickle`
steps the silence of the socket is as old as the request, and no call outlasts what was
left of the deadline.  `RunsAdvance`: each statement lowers `Left`, at most
8 * `MaxCalls` + 12, since only opening a call starts another turn of the loop.

**`SemioInbox_proofs`**, for any stream, bindings and bounds: `TypeCorrect`,
`Complete` (no silent gap), `Genuine` (rows come from the stream), `InOrder` (messages
are handed over in order), and `Refinement` (of `Mailbox`).  `NoSilentGap` alone is
not inductive: between the second look at the cursor and an entry's transaction,
only the entries read stand for the stream.  `Scanning` says that they are
consecutive and continue the cursor unless nothing was scanned before, `Bindings`
that cursor and rows belong to the binding.  That messages are handed over in
order rests on what the n-th undelivered row is (`Least`, `Ranked`, `Nth`).
`CallsAdvance`: a call takes at most five statements and one for each entry it asked
for, unless `wait()` sleeps again before its deadline; neither peers nor retention
can make it longer.

**`WakeBridge_proofs`**: `ImplementsAdapter` and `ImplementsRunner` show the
composition to be a behaviour of each component by itself, so that every theorem about
them holds of it (`Inherited` names two, `BothPromises` gives both abstract
specifications).  `LaunchBacked`, `ConfirmedRightly` and `TriggerFirst` are about
both.  `BridgeIInv` is both components' invariants and `Ties`: what a scan returned is
the oldest undelivered row, what was validated still is when the job is claimed and
launched, and only rows of the completed trigger are confirmed.  This needs
`StillFound`: nothing the adapter does in between marks or moves a row.
`LaunchTraces` follows a launch back to an entry of the stream, and `OneMessageOneJob`
says what the composition amounts to: a message is confirmed only after a launch, and
there is one launch, so the job is held for the first message of the inbox or for
none.

**`AuditRunner_proofs`**, for any number of dispatches and any limits:
`TypeCorrect`, `ResultsAreEarned`, `NobodyIsLeft`, `LedgerInOrder`,
`ReportFollowsLedger`, `SealedStays`, `VerifiedStays`.  `WatchIsCurrent` says what the
loop knows of the probe (a pipe it closed has no writer and was read to its end,
a probe that was killed is no longer counted as completed), `LedgerIsCurrent`
how far the ledger is at each statement, `EndIsCurrent` and `Directory` the same
of report, packet, seal and of the directory as found.  `RunsAdvance`: each statement
lowers `Left`, at most 10 * `Dispatches` + 12, but a look of the selector while someone
in the sandbox can still write or only the exit of the probe is missing (`Waiting`).

**`FailReviewRepair_proofs`**, for any set of runs and any limit: `TypeCorrect`,
`OneRun`, `OneChain`, `EarnedIsProved`, `ReceiptCloses`, and `Refinement` (of
`BoundedRepair`).  The ledger is shared by all runs, so that it is one chain
depends on one run alone being past the workspace (`Owners`).  `Course` then gives
for each statement the length of the ledger and of the history, `Chain` the ledger
itself, `Evidence` and `Fresh` what the checks and reviews said by then, and
`Closing` the two receipts there are.  `Memories` says that what the working process
remembers of the ledger is what stands there, and that no other process has come so
far as to remember anything; the chain and the receipt's tail rest on it.  `Unedited` says what the history and the
working tree contain at each statement as long as nobody edits; the last conjunct of
`CompletedWasEarned` needs it.  `RunsAdvance`: each statement of a run brings that run
nearer to its end (`Left`, at most 40) and throws no other run back.

**`MissionChain_proofs`**, for any documents, requests and edits: `TypeCorrect`,
`OneLineage`, `TasksStand`, `CapabilitiesCovered`.  `LineageIsWhole` is inductive with
`TypeOK`; `Fits` says what is true of the tasks bound and their snapshots, and `Matches`
that the fields declared are those the walk found.  The rest is about the walk itself,
for documents of any shape and depth: a recursive function over positions, which has a
value because each position's follows from those of longer ones and a document has
finitely many (`WalkExists`, `WalkReturns`: of the positions still without a value, a
longest one can be given one).  `ChangedPositionsRight` says that the positions it
finds hold the differences and the NaNs, and that what it leaves out is what `==` passes
over; `SetsAgree` ties this to the sets TLC computes.  `OnlyPythonEqualsSlip` is
`OnlyEqualsSlip` with no condition on the documents.  `ChangesDeclared` states
`ChangesAreDeclared` under two: values that can meet at a position are equal for
Python exactly when they are printed the same (`ValuesTellApart`, which 1 and `true`
or 1.0 violate, 0.0 and -0.0, and a NaN), and no two positions share a name
(`PathsTellApart`).  The run `mission_chain_numbers` shows that the first is needed.

Each `IInv` was checked by TLC as an invariant before it was proved.

**Only model-checked**: all liveness (`RunsTerminate`, `CallsEnd`, `ServedArrives`,
`TriggerWakes`, both `RunEnds`), since the prover handles neither fairness nor
ENABLED; and the four violations.  `RunsAdvance` and `CallsAdvance` are the half of
termination that needs neither: a bound on the statements that are left.  Three of the
violations have a theorem that says what they take, `LaunchesInTime`,
`OnlyTricklesOutlast` and `OnlyPythonEqualsSlip`, and the fourth one that says where it can
occur, `UnreportedOnlyRepaired`.

## 5. What is not modelled

* Entries deleted from the middle of a stream, and a second consumer of one
  inbox database: the first is no retention, the second is what the adapter's
  documentation rules out.
* Steps of others in the middle of `Build` or `Integrate` of the capability run,
  between the write, `git add` and `git commit` of one action.
* An edit made and undone in the workspace while the probe runs: the model
  contains it, the code cannot tell, and `ProbeIsExact` excepts it.
* Field syntax, size limits, schemas, JSON, hashing and redaction: flags chosen by
  the environment, or left out.  In `MissionChain` this includes a snapshot's protocol
  version and creation time.
* What `compact_generated_context` keeps of a packet: whether it accepts one is a
  choice in `CriticReview`.
* The limits of time, cost and changed lines in the contract of the
  fail-review-repair run: the program measures them for the receipt and enforces
  none, so there is no behaviour to model.
* What a sandbox does after `execute()` returned: nothing reads it.
* Wall clock against monotonic clock: one clock, so a wall clock that is set back
  is outside the wake runner's model.
* The launcher, record examples, case-study scripts and CI keep no state.

## 6. Plan

Every program whose behaviour depends on state, time or other processes is
modelled.  What is left: `compact_generated_context` as an operator, and with it the
integrity of evidence reads in `CriticReview`: which lines a read returns, and that a
verdict cites only what was shown.
