----------------------------- MODULE WakeBridge -----------------------------
(***************************************************************************)
(* examples/semio-coordination as one host process uses it: a WakeRunner   *)
(* whose adapter is a SemioAdapter.  WakeRunner's abstract answer to a     *)
(* poll is here a call of poll() step by step, and its mark_delivered is   *)
(* the adapter's.  Both databases survive the process; both objects die    *)
(* with it.  One clock.                                                    *)
(***************************************************************************)
EXTENDS SemioInbox

CONSTANTS
    Host,         \* the one process
    Hashes, Plans, NoPlan,   \* as in WakeRunner
    RunTimeouts   \* the timeout argument of run()

VARIABLES
    job,       \* config of the receipt
    state,     \* its state
    stage,     \* where WakeRunner's run() stands
    plan, until, batch, result, launches   \* as in WakeRunner

\* The fields of an envelope that a trigger binds.
Triggers == [identity: Identities, from: Agents, to: Agents, mid: MessageIds]
Trigger(e) == [identity |-> e.identity, from |-> e.from, to |-> e.to, mid |-> e.mid]
Notice(e) == [trigger |-> Trigger(e), stamp |-> e.stamp]

W == INSTANCE WakeRunner
    WITH Runners <- {Host}, Notices <- {Notice(e): e \in Appendable}, Batches <- {},
         Timeouts <- RunTimeouts,
         config <- job, phase <- stage, deadline <- until, outcome <- result

ASSUME PlanAssumption == Plans \subseteq W!PlanType /\ NoPlan \notin Plans /\ RunTimeouts \subseteq Nat

bridge == <<job, state, stage, plan, until, batch, result, launches>>
inbox == <<stream, store, config, phase, locals, limit, pending, outcome>>

BridgeInit == Init /\ W!Init

OpenAdapter(c) == stage[Host] = "closed" /\ Open(c) /\ UNCHANGED bridge

\* The trusted host pairs an adapter with a plan of any mission: what keeps foreign
\* notifications from launching it is validation, not the pairing.
OpenRunner(p) == phase = "open" /\ W!Open(Host, p) /\ UNCHANGED inbox

StartRun(t) == phase = "open" /\ W!Run(Host, t) /\ UNCHANGED inbox

\* _eligible(), then the call of adapter.poll(batch_size=n).
BeginScan(n) ==
    /\ W!CheckEligible(Host)
    /\ IF stage'[Host] = "polling" THEN Poll(n) ELSE UNCHANGED inbox

ScanStep == stage[Host] = "polling" /\ Step /\ UNCHANGED bridge

Envelopes == [i \in DOMAIN pending |-> Notice(pending[i])]

\* poll() hands its pending envelopes to run(), or its exception leaves run().
EndScan ==
    /\ stage[Host] = "polling" /\ phase = "open"
    /\ IF outcome = "returned" THEN W!PollReturns(Host, Envelopes) ELSE W!Raise(Host)
    /\ UNCHANGED inbox

\* The statements of run() and _dispatch() that do not touch the adapter.
RunStep ==
    /\ \/ W!Validate(Host) \/ W!Remaining(Host) \/ W!Wake(Host) \/ W!ReturnIdle(Host)
       \/ W!Recheck(Host) \/ W!Claim(Host) \/ W!Launch(Host)
       \/ \E isNone \in BOOLEAN: W!ExecuteReturns(Host, isNone)
       \/ W!ExecuteRaises(Host) \/ W!RecordFailure(Host) \/ W!RecordCompletion(Host)
    /\ UNCHANGED inbox

\* Slip: the notification is confirmed however the callback ended.
ConfirmAnyExit ==
    /\ stage[Host] \in {"failing", "marking"}
    /\ stage' = [stage EXCEPT ![Host] = "open"]
    /\ MarkDelivered(plan[Host].trigger.mid)
    /\ UNCHANGED <<job, state, plan, until, batch, result, launches>>

Confirm ==
    /\ W!MarkDelivered(Host)
    /\ MarkDelivered(plan[Host].trigger.mid)

\* Anything else in run() raises; a scan raises inside the adapter first.
RaiseRun == stage[Host] # "polling" /\ W!Raise(Host) /\ UNCHANGED inbox
RaiseScan == Raise /\ UNCHANGED bridge

Crash ==
    /\ Close
    /\ stage' = [stage EXCEPT ![Host] = "closed"]
    /\ UNCHANGED <<job, state, plan, until, batch, result, launches>>

Outside ==
    /\ (\E e \in Appendable: PeerAppend(e)) \/ Trim \/ Tick
    /\ UNCHANGED bridge

\* How a run() that was started goes on.
BridgeStep ==
    \/ \E n \in Batches: BeginScan(n)
    \/ ScanStep \/ EndScan \/ RunStep \/ Confirm

BridgeNext ==
    \/ BridgeStep
    \/ \E c \in Configs: OpenAdapter(c)
    \/ \E p \in Plans: OpenRunner(p)
    \/ \E t \in RunTimeouts: StartRun(t)
    \/ RaiseRun \/ RaiseScan \/ Crash \/ Outside

bridgeVars == <<bridge, inbox, now>>

BridgeSpec == BridgeInit /\ [][BridgeNext]_bridgeVars

\* A host that reopens, runs again and is answered, once the faults are over.
\* Nothing makes time pass.
Attentive ==
    /\ WF_bridgeVars(\E c \in Configs: OpenAdapter(c))
    /\ WF_bridgeVars(\E p \in Plans: OpenRunner(p))
    /\ WF_bridgeVars(\E t \in RunTimeouts: StartRun(t))
    /\ WF_bridgeVars(BridgeStep)
    /\ <>[][/\ ~ RaiseRun /\ ~ RaiseScan /\ ~ Crash
            /\ phase = "read" /\ phase' = "recheck" => Read(scan)]_bridgeVars
AttentiveSpec == BridgeSpec /\ Attentive

-----------------------------------------------------------------------------
(* Properties.                                                             *)

Matching(p) == {k \in DOMAIN rows: Trigger(rows[k].envelope) = p.trigger}

\* A launch rests on a durable notification: the exact trigger of the pinned plan is
\* a row of the inbox, received no later than the launch, and the cursor has passed it.
LaunchHasDurableTrigger ==
    \A i \in DOMAIN launches: \E k \in Matching(launches[i].plan):
        rows[k].id <= cursor /\ rows[k].envelope.stamp <= launches[i].at + MaxSkew

\* A notification is confirmed only for a job that is on record as completed and
\* that really ended cleanly, and only the trigger is ever confirmed.
ConfirmedOnlyWhenCompleted ==
    \A k \in DOMAIN rows: rows[k].delivered =>
        /\ state = "completed" /\ k \in Matching(job)
        /\ \E i \in DOMAIN launches: launches[i].exit = "clean"

\* From the claim to the end of the attempt the oldest undelivered notification is
\* the trigger itself: no unexpected message was pending before it.
NothingAheadOfTheTrigger ==
    stage[Host] \in W!Holding =>
        \E k \in Matching(plan[Host]): \A j \in 1 .. k - 1: rows[j].delivered

\* Entry id is the trigger of the pinned plan p.
Triggered(id, p) ==
    /\ job = p /\ bound # NoConfig /\ id <= Len(log)
    /\ Addressed(bound, log[id]) /\ Trigger(log[id]) = p.trigger

\* Why a trigger need not launch: too late, too old, other messages are pending, or
\* the stream is blocked.  A blocked entry behind the trigger is enough: run() learns
\* of pending notifications from poll() alone, which raises before it returns them.
Excused(id, p) ==
    \/ now >= p.expiry \/ now - log[id].stamp > p.max_age
    \/ Blocked(id) \/ Blocked(Len(log))
    \/ \E k \in DOMAIN rows: k \notin Matching(p)

\* A fresh trigger on the stream is acted on: the job is claimed in the end, by this
\* or an earlier process, unless it is excused.
TriggerWakes ==
    \A id \in 1 .. MaxEntries: \A p \in Plans:
        Triggered(id, p) ~> (state # "ready" \/ (Triggered(id, p) /\ Excused(id, p)))
=============================================================================
