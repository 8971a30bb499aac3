---------------------------- MODULE WakeRunner ----------------------------
(***************************************************************************)
(* examples/semio-coordination/wake_runner.py: a default-off bridge that   *)
(* launches one locally approved job when an approved notification is      *)
(* pending, at most once, over any number of runner processes that open    *)
(* the same receipt database.                                              *)
(*                                                                         *)
(* Durable: the one row of table job (config, state).  Volatile: the       *)
(* WakeRunner object of each process and where its run() call stands.      *)
(* launches is what the outside world saw: the calls of execute().         *)
(*                                                                         *)
(* One variable, now, stands for the wall and the monotonic clock of all   *)
(* the processes.  Every conditional UPDATE and every SELECT is a step, so *)
(* other runners, the clock and crashes come between them.                 *)
(***************************************************************************)
EXTENDS Integers, Sequences

CONSTANTS
    Runners,    \* processes that open the receipt database
    Triggers,   \* the exact bindings a notification can carry
    Hashes,     \* digests of launcher, prompt, permissions and plan
    Plans,      \* the local plans the hosts configure
    NoPlan,     \* the config of a job table without its row
    Notices,    \* the notifications an adapter can hold
    Batches,    \* what a poll of the adapter can return
    Timeouts,   \* the timeout argument of run()
    MaxSkew,    \* seconds a notification may lie in the future (300)
    MaxTime     \* bound: the clock stops here

\* A plan is everything __init__ puts into config.
PlanType == [hash: Hashes, trigger: Triggers, expiry: Nat, limit: Nat, max_age: Nat]
NoticeType == [trigger: Triggers, stamp: Nat]

ASSUME PlansAssumption == Plans \subseteq PlanType /\ NoPlan \notin Plans
ASSUME NoticesAssumption == Notices \subseteq NoticeType /\ Batches \subseteq Seq(Notices)
ASSUME TimesAssumption == Timeouts \subseteq Nat /\ MaxSkew \in Nat /\ MaxTime \in Nat

VARIABLES
    config,    \* job.config, or NoPlan before the row exists
    state,     \* job.state, or "absent" before the row exists
    phase,     \* phase[r]: the statement of run() that runner r is about to execute
    plan,      \* plan[r]: the plan r's WakeRunner object was built with
    deadline,  \* deadline[r]: when the wait loop of r's run() ends
    batch,     \* batch[r]: messages of the latest scan
    outcome,   \* outcome[r]: how r's latest run() ended
    launches,  \* the calls of execute(), in order
    now

receipt == <<config, state>>
local == <<plan, deadline, batch>>
vars == <<config, state, phase, plan, deadline, batch, outcome, launches, now>>

States == {"absent", "ready", "claimed", "completed", "failed"}

\* Statements of run() and _dispatch(); "closed" has no object, "open" is
\* outside run().
Scanning == {"eligible", "polling", "validate", "empty", "leaving", "waiting"}
Dispatching == {"recheck", "claim", "launch", "executing", "failing", "completing", "marking"}
Running == Scanning \union Dispatching
Phases == {"closed", "open"} \union Running

\* The phases in which a runner owns the claim.
Holding == {"launch", "executing", "failing", "completing"}

Outcomes == {"none", "idle", "completed", "attempted", "expired", "trigger", "error"}
Exits == {"none", "clean", "dirty"}
LaunchType == [by: Runners, plan: Plans, at: Nat, exit: Exits]

Init ==
    /\ config = NoPlan
    /\ state = "absent"
    /\ phase = [r \in Runners |-> "closed"]
    /\ plan = [r \in Runners |-> NoPlan]
    /\ deadline = [r \in Runners |-> 0]
    /\ batch = [r \in Runners |-> <<>>]
    /\ outcome = [r \in Runners |-> "none"]
    /\ launches = <<>>
    /\ now = 0

Goto(r, p) == phase' = [phase EXCEPT ![r] = p]

\* run() returns or raises: control is back with the host.
Return(r, result) == Goto(r, "open") /\ outcome' = [outcome EXCEPT ![r] = result]

-----------------------------------------------------------------------------
(* Opening the receipt and the wait loop.                                  *)

\* Slip: the row's config is not compared with the local one.
OpenUnpinned(r, p) ==
    /\ phase[r] = "closed"
    /\ IF state = "absent" THEN config' = p /\ state' = "ready" ELSE UNCHANGED receipt
    /\ Goto(r, "open")
    /\ plan' = [plan EXCEPT ![r] = p]
    /\ outcome' = [outcome EXCEPT ![r] = "none"]
    /\ UNCHANGED <<deadline, batch, launches, now>>

\* __init__: INSERT OR IGNORE the row, then compare its config in the same
\* transaction.  A different plan raises ConfigurationError and leaves no object.
Open(r, p) ==
    /\ phase[r] = "closed"
    /\ \/ state = "absent" /\ config' = p /\ state' = "ready"
       \/ state # "absent" /\ config = p /\ UNCHANGED receipt
    /\ Goto(r, "open")
    /\ plan' = [plan EXCEPT ![r] = p]
    /\ outcome' = [outcome EXCEPT ![r] = "none"]
    /\ UNCHANGED <<deadline, batch, launches, now>>

\* run(armed=True, timeout=t).  Unarmed or invalid calls change nothing.
Run(r, t) ==
    /\ phase[r] = "open"
    /\ Goto(r, "eligible")
    /\ deadline' = [deadline EXCEPT ![r] = now + t]
    /\ outcome' = [outcome EXCEPT ![r] = "none"]
    /\ UNCHANGED <<receipt, plan, batch, launches, now>>

\* _eligible(): the receipt is untouched and the authorization has not expired.
MayStart(r) == state = "ready" /\ now < plan[r].expiry

\* Otherwise it raises AlreadyAttemptedError or ExpiredError.
Refuse(r) ==
    /\ ~ MayStart(r)
    /\ Return(r, IF state # "ready" THEN "attempted" ELSE "expired")

\* Slip: a claim by another runner is waited for and not raised.
WaitUntilEligible(r) ==
    /\ phase[r] = "eligible"
    /\ Goto(r, IF MayStart(r) THEN "polling" ELSE "waiting")
    /\ UNCHANGED <<receipt, local, outcome, launches, now>>

CheckEligible(r) ==
    /\ phase[r] = "eligible"
    /\ \/ MayStart(r) /\ Goto(r, "polling") /\ UNCHANGED outcome
       \/ Refuse(r)
    /\ UNCHANGED <<receipt, local, launches, now>>

\* adapter.poll() returns messages b.
PollReturns(r, b) ==
    /\ phase[r] = "polling"
    /\ Goto(r, "validate")
    /\ batch' = [batch EXCEPT ![r] = b]
    /\ UNCHANGED <<receipt, plan, deadline, outcome, launches, now>>

\* Slip: any fresh notification will do.
MatchesAnyTrigger(p, m) == now - m.stamp <= p.max_age /\ m.stamp - now <= MaxSkew
\* Slip: a notice of the largest age that is allowed is refused.
MatchesStrictly(p, m) ==
    m.trigger = p.trigger /\ now - m.stamp < p.max_age /\ m.stamp - now <= MaxSkew

\* _validate of one message: the exact trigger, neither stale nor future.
Matches(p, m) ==
    /\ m.trigger = p.trigger
    /\ now - m.stamp <= p.max_age
    /\ m.stamp - now <= MaxSkew

\* Slip: one good message in the scan is enough.
ValidateAny(r) ==
    /\ phase[r] = "validate"
    /\ IF batch[r] # <<>> /\ \A i \in DOMAIN batch[r]: ~ Matches(plan[r], batch[r][i])
       THEN Return(r, "trigger")
       ELSE /\ Goto(r, IF batch[r] = <<>> THEN "empty" ELSE "recheck")
            /\ UNCHANGED outcome
    /\ UNCHANGED <<receipt, local, launches, now>>

\* Every message of the scan is validated before anything is claimed.
Validate(r) ==
    /\ phase[r] = "validate"
    /\ IF \E i \in DOMAIN batch[r]: ~ Matches(plan[r], batch[r][i])
       THEN Return(r, "trigger")
       ELSE /\ Goto(r, IF batch[r] = <<>> THEN "empty" ELSE "recheck")
            /\ UNCHANGED outcome
    /\ UNCHANGED <<receipt, local, launches, now>>

\* Nothing pending: wait, unless the budget or the authorization is over.
Remaining(r) ==
    /\ phase[r] = "empty"
    /\ Goto(r, IF now >= deadline[r] \/ now >= plan[r].expiry THEN "leaving" ELSE "waiting")
    /\ UNCHANGED <<receipt, local, outcome, launches, now>>

\* The event callback or sleep() returns; the value is ignored.
Wake(r) ==
    /\ phase[r] = "waiting"
    /\ Goto(r, "eligible")
    /\ UNCHANGED <<receipt, local, outcome, launches, now>>

\* _eligible() once more, then "idle".
ReturnIdle(r) ==
    /\ phase[r] = "leaving"
    /\ \/ MayStart(r) /\ Return(r, "idle")
       \/ Refuse(r)
    /\ UNCHANGED <<receipt, local, launches, now>>

-----------------------------------------------------------------------------
(* _dispatch(): claim, launch, record, confirm.                            *)

\* The SELECT of _eligible(), outside any SQLite transaction: another runner
\* may claim, and the clock may pass expiry, before the UPDATE below.
Recheck(r) ==
    /\ phase[r] = "recheck"
    /\ \/ MayStart(r) /\ Goto(r, "claim") /\ UNCHANGED outcome
       \/ Refuse(r)
    /\ UNCHANGED <<receipt, local, launches, now>>

\* Slip: the claim stays in an open transaction and is never committed.
ClaimUncommitted(r) ==
    /\ phase[r] = "claim" /\ state = "ready"
    /\ Goto(r, "launch")
    /\ UNCHANGED <<receipt, local, outcome, launches, now>>

\* UPDATE ... SET state='claimed' WHERE state='ready', committed before the launch.
Claim(r) ==
    /\ phase[r] = "claim"
    /\ \/ state = "ready" /\ state' = "claimed" /\ Goto(r, "launch") /\ UNCHANGED outcome
       \/ state # "ready" /\ Return(r, "attempted") /\ UNCHANGED state
    /\ UNCHANGED <<config, local, launches, now>>

\* started = monotonic(); execute() begins.
Launch(r) ==
    /\ phase[r] = "launch"
    /\ Goto(r, "executing")
    /\ launches' = Append(launches, [by |-> r, plan |-> plan[r], at |-> now, exit |-> "none"])
    /\ UNCHANGED <<receipt, local, outcome, now>>

\* The launch that is under way is the latest one.
Ended(exit) == launches' = [launches EXCEPT ![Len(launches)].exit = exit]

\* execute() returns.  None within the declared timeout is success; a late
\* return, and any other value, raise inside the try.
ExecuteReturns(r, isNone) ==
    /\ phase[r] = "executing"
    /\ LET clean == isNone /\ now - launches[Len(launches)].at <= plan[r].limit IN
         /\ Ended(IF clean THEN "clean" ELSE "dirty")
         /\ Goto(r, IF clean THEN "completing" ELSE "failing")
    /\ UNCHANGED <<receipt, local, outcome, now>>

\* execute() raises an Exception.
ExecuteRaises(r) ==
    /\ phase[r] = "executing"
    /\ Ended("dirty")
    /\ Goto(r, "failing")
    /\ UNCHANGED <<receipt, local, outcome, now>>

\* Slip: a failed attempt is made available again.
ReleaseFailure(r) ==
    /\ phase[r] = "failing"
    /\ state' = "ready"
    /\ Return(r, "error")
    /\ UNCHANGED <<config, local, launches, now>>

\* The handler records 'failed' (no WHERE on the state) and re-raises.
RecordFailure(r) ==
    /\ phase[r] = "failing"
    /\ state' = "failed"
    /\ Return(r, "error")
    /\ UNCHANGED <<config, local, launches, now>>

\* Slip: a clean exit is reported but not recorded.
ForgetCompletion(r) ==
    /\ phase[r] = "completing"
    /\ Goto(r, "marking")
    /\ UNCHANGED <<receipt, local, outcome, launches, now>>

RecordCompletion(r) ==
    /\ phase[r] = "completing"
    /\ state' = "completed"
    /\ Goto(r, "marking")
    /\ UNCHANGED <<config, local, outcome, launches, now>>

\* adapter.mark_delivered(message_id) returns.
MarkDelivered(r) ==
    /\ phase[r] = "marking"
    /\ Return(r, "completed")
    /\ UNCHANGED <<receipt, local, launches, now>>

-----------------------------------------------------------------------------
(* Failures and time.                                                      *)

\* An exception leaves run() from the statement in progress: the adapter, the
\* wait callback or mark_delivered raises, SQLite is locked for two seconds
\* (the UPDATE is rolled back), or a BaseException interrupts execute().
Raise(r) ==
    /\ phase[r] \in Running
    /\ Return(r, "error")
    /\ UNCHANGED <<receipt, local, launches, now>>

\* The process dies, or the host closes the receipt: only the row survives.
Close(r) ==
    /\ phase[r] # "closed"
    /\ Goto(r, "closed")
    /\ UNCHANGED <<receipt, local, outcome, launches, now>>

Tick ==
    /\ now < MaxTime
    /\ now' = now + 1
    /\ UNCHANGED <<receipt, local, phase, outcome, launches>>

\* The steps by which r's run() goes on, but for the adapter's answer.
Step(r) ==
    \/ CheckEligible(r) \/ Validate(r) \/ Remaining(r) \/ Wake(r) \/ ReturnIdle(r)
    \/ Recheck(r) \/ Claim(r) \/ Launch(r)
    \/ \E isNone \in BOOLEAN: ExecuteReturns(r, isNone)
    \/ ExecuteRaises(r)
    \/ RecordFailure(r) \/ RecordCompletion(r) \/ MarkDelivered(r)

\* What the host, or a fault, does to r.
Environment(r) ==
    \/ \E p \in Plans: Open(r, p)
    \/ \E t \in Timeouts: Run(r, t)
    \/ Raise(r)
    \/ Close(r)

Next ==
    \/ \E r \in Runners:
         \/ Step(r)
         \/ \E b \in Batches: PollReturns(r, b)
         \/ Environment(r)
    \/ Tick

Spec == Init /\ [][Next]_vars

\* The host bounds every synchronous call it injects (WakeRunner's docstring
\* demands it), and time passes; nothing makes the host call, or a call raise.
Fairness ==
    /\ \A r \in Runners: WF_vars(Step(r) \/ \E b \in Batches: PollReturns(r, b))
    /\ WF_vars(Tick)

FairSpec == Spec /\ Fairness

-----------------------------------------------------------------------------
(* Properties.                                                             *)

TypeOK ==
    /\ config \in Plans \union {NoPlan}
    /\ state \in States
    /\ phase \in [Runners -> Phases]
    /\ plan \in [Runners -> Plans \union {NoPlan}]
    /\ deadline \in [Runners -> Nat]
    /\ batch \in [Runners -> Seq(Notices)]
    /\ outcome \in [Runners -> Outcomes]
    /\ launches \in Seq(LaunchType)
    /\ now \in Nat

\* The side effect happens at most once per receipt database: over all the
\* processes, crashes between claim and launch or launch and record, failed
\* attempts, reopenings and reruns (at-most-one-attempt guard, _dispatch).
AtMostOneLaunch == Len(launches) <= 1

\* The durable row never lies about the outside world.  Before the claim nothing
\* was launched; 'completed' and 'failed' are only written for a launch that
\* ended that way, although both UPDATEs are unconditional.
ReceiptTellsTruth ==
    /\ state \in {"absent", "ready"} => launches = <<>>
    /\ state = "completed" => \E i \in DOMAIN launches: launches[i].exit = "clean"
    /\ state = "failed" => \E i \in DOMAIN launches: launches[i].exit = "dirty"

\* What is launched is the plan the receipt is pinned to, whichever plans the
\* processes were configured with (__init__, ConfigurationError).
LaunchUnderPinnedPlan == \A i \in DOMAIN launches: launches[i].plan = config

\* A host that run() tells "completed" has launched the job itself, the launch
\* ended cleanly, and the durable receipt says so, whatever the other runners did.
OutcomesAreHonest ==
    \A r \in Runners: outcome[r] = "completed" =>
        /\ state = "completed"
        /\ \E i \in DOMAIN launches: launches[i].by = r /\ launches[i].exit = "clean"

\* The claim is exclusive and everything after it rests on it: a runner past its
\* claim is the only one, finds the row still 'claimed' at each of its later
\* UPDATEs, has launched nothing before its launch, and owns the launch after it.
ClaimIsExclusive ==
    \A r \in Runners: phase[r] \in Holding =>
        /\ state = "claimed"
        /\ \A q \in Runners: phase[q] \in Holding => q = r
        /\ phase[r] = "launch" => launches = <<>>
        /\ phase[r] # "launch" => Len(launches) = 1 /\ launches[1].by = r

\* The receipt only moves forward: the config is written once, an attempt is
\* never reopened, and a recorded outcome never changes.
ReceiptMovesForward ==
    [][ /\ config' # config => config = NoPlan
        /\ state' # state => <<state, state'>> \in
             {<<"absent", "ready">>, <<"ready", "claimed">>,
              <<"claimed", "completed">>, <<"claimed", "failed">>} ]_vars

\* Every run() ends: by its timeout, by expiry, or by an attempt of its own or of
\* another runner.
RunsTerminate ==
    \A r \in Runners: phase[r] \in Running ~> phase[r] \notin Running

\* The bridge keeps the promise of AtMostOnceJob.
Promise == INSTANCE AtMostOnceJob
    WITH record <- IF state = "absent" THEN "ready" ELSE state, effects <- Len(launches)
KeepsPromise == Promise!Spec

\* "expires_at is the latest permitted launch time" (wake_runner.py:74) and
\* "Local authorization expired; no new callback may start" (:29): no execute()
\* begins at or after expiry.
NoLaunchAfterExpiry ==
    \A i \in DOMAIN launches: launches[i].at < launches[i].plan.expiry
=============================================================================
