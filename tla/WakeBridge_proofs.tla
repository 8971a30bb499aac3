-------------------------- MODULE WakeBridge_proofs --------------------------
(***************************************************************************)
(* The bridge implements both of its components: with the other one hidden *)
(* it is a SemioAdapter, and it is a WakeRunner whose adapter may return   *)
(* any messages.  What is proved of either thereby holds of the bridge;    *)
(* the invariant below ties the two together.                              *)
(***************************************************************************)
EXTENDS WakeBridge, SemioInbox_proofs

Notes == {Notice(e): e \in Appendable}

\* The runner by itself, over an adapter that may return anything.
R == INSTANCE WakeRunner_proofs
    WITH Runners <- {Host}, Notices <- Notes, Batches <- Seq(Notes), Timeouts <- RunTimeouts,
         config <- job, phase <- stage, deadline <- until, outcome <- result

\* The run() that scanned: its first message is the oldest undelivered row.
FirstPending ==
    stage[Host] = "validate" /\ batch[Host] # <<>> =>
        \E k \in DOMAIN rows: /\ Notice(rows[k].envelope) = batch[Host][1]
                             /\ \A j \in 1 .. k - 1: rows[j].delivered

\* The run() that validated: the trigger it found is still the oldest
\* undelivered row, and was no message from the future.
TriggerFound ==
    stage[Host] \in {"recheck", "claim", "marking"} \union W!Holding =>
        \E k \in Matching(plan[Host]): /\ rows[k].envelope.stamp <= now + MaxSkew
                                      /\ \A j \in 1 .. k - 1: rows[j].delivered

\* Confirmed rows are the trigger of the completed job.
Confirmed ==
    \A k \in DOMAIN rows: rows[k].delivered => state = "completed" /\ k \in Matching(job)

Ties == FirstPending /\ TriggerFound /\ LaunchHasDurableTrigger /\ Confirmed
BridgeIInv == IInv /\ R!IInv /\ Ties
-----------------------------------------------------------------------------

\* What the runner assumes of its constants holds of the bridge's.
LEMMA RunnerAssumptions == R!PlansAssumption /\ R!NoticesAssumption /\ R!TimesAssumption
<1>1. Notes \subseteq R!NoticeType
  BY EntriesAssumption DEF Notes, Notice, Trigger, EntryType, R!NoticeType, Triggers
<1> QED
  BY <1>1, PlanAssumption, BoundsAssumption
     DEF R!PlansAssumption, R!NoticesAssumption, R!TimesAssumption, W!PlanType, R!PlanType

\* The statements of run() by themselves are statements of the runner.
LEMMA RunnerStatements ==
    ASSUME RunStep
    PROVE  R!Step(Host)
<1> USE DEF W!Goto, R!Goto, W!Return, R!Return, W!receipt, R!receipt, W!local, R!local
<1>1. W!Validate(Host) => R!Validate(Host)
  BY DEF W!Validate, R!Validate, W!Matches, R!Matches
<1>2. W!Remaining(Host) => R!Remaining(Host)
  BY DEF W!Remaining, R!Remaining
<1>3. W!Wake(Host) => R!Wake(Host)
  BY DEF W!Wake, R!Wake
<1>4. W!ReturnIdle(Host) => R!ReturnIdle(Host)
  BY DEF W!ReturnIdle, R!ReturnIdle, W!MayStart, R!MayStart, W!Refuse, R!Refuse
<1>5. W!Recheck(Host) => R!Recheck(Host)
  BY DEF W!Recheck, R!Recheck, W!MayStart, R!MayStart, W!Refuse, R!Refuse
<1>6. W!Claim(Host) => R!Claim(Host)
  BY DEF W!Claim, R!Claim
<1>7. W!Launch(Host) => R!Launch(Host)
  BY DEF W!Launch, R!Launch
<1>8. ASSUME NEW isNone \in BOOLEAN, W!ExecuteReturns(Host, isNone)
      PROVE  R!ExecuteReturns(Host, isNone)
  BY <1>8 DEF W!ExecuteReturns, R!ExecuteReturns, W!Ended, R!Ended
<1>9. W!ExecuteRaises(Host) => R!ExecuteRaises(Host)
  BY DEF W!ExecuteRaises, R!ExecuteRaises, W!Ended, R!Ended
<1>10. W!RecordFailure(Host) => R!RecordFailure(Host)
  BY DEF W!RecordFailure, R!RecordFailure
<1>11. W!RecordCompletion(Host) => R!RecordCompletion(Host)
  BY DEF W!RecordCompletion, R!RecordCompletion
<1> QED
  BY <1>1, <1>2, <1>3, <1>4, <1>5, <1>6, <1>7, <1>8, <1>9, <1>10, <1>11 DEF RunStep, R!Step

\* What a scan returned in one piece are envelopes of the stream.
LEMMA EnvelopesAreNotes ==
    ASSUME IInv, outcome = "returned"
    PROVE  Envelopes \in Seq(Notes)
<1>1. /\ pending \in Seq(EntryType) /\ rows \in Seq(RowType) /\ log \in Seq(Appendable)
      /\ Len(log) \in Nat /\ cursor \in 0..Len(log) /\ origin \in Nat
  BY DEF IInv, TypeOK, Streamed
<1>2. ASSUME NEW i \in DOMAIN pending
      PROVE  pending[i] \in Appendable
  <2>1. PICK k \in DOMAIN rows: rows[k].envelope = pending[i]
    BY <1>2 DEF IInv, HandedOverInOrder
  <2>2. rows[k].id \in origin..cursor /\ log[rows[k].id] = rows[k].envelope /\ rows # <<>>
    BY <2>1 DEF IInv, RowsComeFromStream
  <2>3. origin # 0
    BY <1>1, <2>2 DEF IInv, Bindings
  <2>4. rows[k].id \in 1..Len(log)
    BY <1>1, <2>2, <2>3
  <2> QED
    BY <1>1, <2>1, <2>2, <2>4
<1>3. DOMAIN pending = 1..Len(pending) /\ Len(pending) \in Nat
  BY <1>1
<1> QED
  BY <1>2, <1>3 DEF Envelopes, Notes

\* Every step of the bridge is a step of the runner, or none.
LEMMA RunnerStep ==
    ASSUME IInv, R!IInv, [BridgeNext]_bridgeVars
    PROVE  [R!Next]_(R!vars)
<1> USE DEF W!Goto, R!Goto, W!Return, R!Return, W!receipt, R!receipt, W!local, R!local
<1>1. R!Step(Host) => R!Next
  BY DEF R!Next
<1>2. R!Environment(Host) => R!Next
  BY DEF R!Next
<1>3. ASSUME NEW b \in Seq(Notes), R!PollReturns(Host, b)
      PROVE  R!Next
  BY <1>3 DEF R!Next
<1>4. W!Raise(Host) => R!Next
  <2>1. W!Raise(Host) => R!Raise(Host)
    BY DEF W!Raise, R!Raise, W!Running, R!Running, W!Scanning, R!Scanning, W!Dispatching, R!Dispatching
  <2> QED
    BY <1>2, <2>1 DEF R!Environment
<1>5. ASSUME NEW n \in Batches, BeginScan(n)
      PROVE  R!Next
  <2>1. R!CheckEligible(Host)
    BY <1>5 DEF BeginScan, W!CheckEligible, R!CheckEligible, W!MayStart, R!MayStart, W!Refuse, R!Refuse
  <2> QED
    BY <1>1, <2>1 DEF R!Step
<1>6. ASSUME EndScan
      PROVE  R!Next
  <2>1. CASE outcome = "returned"
    <3>1. R!PollReturns(Host, Envelopes)
      BY <1>6, <2>1 DEF EndScan, W!PollReturns, R!PollReturns
    <3> QED
      BY <1>3, <2>1, <3>1, EnvelopesAreNotes
  <2>2. CASE outcome # "returned"
    BY <1>4, <1>6, <2>2 DEF EndScan
  <2> QED
    BY <2>1, <2>2
<1>7. RunStep => R!Next
  BY <1>1, RunnerStatements
<1>8. Confirm => R!Next
  <2>1. Confirm => R!MarkDelivered(Host)
    BY DEF Confirm, W!MarkDelivered, R!MarkDelivered
  <2> QED
    BY <1>1, <2>1 DEF R!Step
<1>9. ASSUME NEW p \in Plans, OpenRunner(p)
      PROVE  R!Next
  <2>1. R!Open(Host, p)
    BY <1>9 DEF OpenRunner, W!Open, R!Open
  <2> QED
    BY <1>2, <2>1 DEF R!Environment
<1>10. ASSUME NEW t \in RunTimeouts, StartRun(t)
       PROVE  R!Next
  <2>1. R!Run(Host, t)
    BY <1>10 DEF StartRun, W!Run, R!Run
  <2> QED
    BY <1>2, <2>1 DEF R!Environment
<1>11. RaiseRun => R!Next
  BY <1>4 DEF RaiseRun
<1>12. ASSUME Crash
       PROVE  [R!Next]_(R!vars)
  <2>0. stage \in [{Host} -> R!Phases]
    BY DEF R!IInv, R!TypeOK
  <2>1. CASE stage[Host] = "closed"
    <3>1. stage' = stage
      BY <1>12, <2>0, <2>1 DEF Crash
    <3> QED
      BY <1>12, <3>1 DEF Crash, Close, R!vars
  <2>2. CASE stage[Host] # "closed"
    <3>1. R!Close(Host)
      BY <1>12, <2>2 DEF Crash, Close, R!Close
    <3> QED
      BY <1>2, <3>1 DEF R!Environment
  <2> QED
    BY <2>1, <2>2
<1>13. ASSUME UNCHANGED <<bridge, now>>
       PROVE  UNCHANGED R!vars
  BY <1>13 DEF bridge, R!vars
<1>14. Step => now' = now
  BY DEF Step, CheckCursor, Read, Recheck, Skip, Receive, Commit, Reject, Collect, Wake
<1>15. Outside => [R!Next]_(R!vars)
  <2>1. CASE (\E e \in Appendable: PeerAppend(e)) \/ Trim
    BY <1>13, <2>1 DEF Outside, PeerAppend, Trim
  <2>2. ASSUME Outside, Tick
        PROVE  R!Next
    BY <2>2 DEF Outside, Tick, bridge, R!Next, R!Tick
  <2> QED
    BY <2>1, <2>2 DEF Outside
<1>16. ASSUME ScanStep \/ (\E c \in Configs: OpenAdapter(c)) \/ RaiseScan \/ UNCHANGED bridgeVars
       PROVE  UNCHANGED R!vars
  BY <1>13, <1>14, <1>16 DEF ScanStep, OpenAdapter, Open, RaiseScan, Raise, bridgeVars
<1> QED
  BY <1>5, <1>6, <1>7, <1>8, <1>9, <1>10, <1>11, <1>12, <1>15, <1>16 DEF BridgeNext, BridgeStep

\* Every step of the bridge is a step of the adapter, or none.
LEMMA AdapterStep ==
    ASSUME R!IInv, [BridgeNext]_bridgeVars
    PROVE  [Next]_vars
<1>1. HostCall => Next
  BY DEF Next
<1>2. Step => Next
  BY DEF Next
<1>3. ASSUME UNCHANGED <<inbox, now>>
      PROVE  UNCHANGED vars
  BY <1>3 DEF inbox, vars, stream, store, locals
<1>4. ASSUME NEW c \in Configs, OpenAdapter(c)
      PROVE  Next
  BY <1>1, <1>4 DEF OpenAdapter, HostCall
<1>5. ASSUME NEW n \in Batches, BeginScan(n)
      PROVE  [Next]_vars
  <2>1. now' = now
    BY <1>5 DEF BeginScan, W!CheckEligible
  <2> QED
    BY <1>1, <1>3, <1>5, <2>1 DEF BeginScan, HostCall
<1>6. ASSUME Confirm
      PROVE  Next
  <2>1. plan[Host] = job /\ job \in Plans
    BY <1>6 DEF Confirm, W!MarkDelivered, R!IInv, R!Pinned, R!TypeOK
  <2>2. plan[Host].trigger.mid \in MessageIds
    BY <2>1, PlanAssumption DEF W!PlanType, Triggers
  <2> QED
    BY <1>1, <1>6, <2>2 DEF Confirm, HostCall
<1>7. ASSUME (\E p \in Plans: OpenRunner(p)) \/ (\E t \in RunTimeouts: StartRun(t)) \/ EndScan \/ RunStep \/ RaiseRun
      PROVE  UNCHANGED vars
  BY <1>3, <1>7 DEF OpenRunner, W!Open, StartRun, W!Run, EndScan, W!PollReturns, W!Raise, RaiseRun, RunStep, W!Validate,
     W!Remaining, W!Wake, W!ReturnIdle, W!Recheck, W!Claim, W!Launch, W!ExecuteReturns, W!ExecuteRaises,
     W!RecordFailure, W!RecordCompletion
<1>8. ASSUME ScanStep \/ RaiseScan \/ Crash \/ Outside
      PROVE  Next
  BY <1>2, <1>8 DEF ScanStep, RaiseScan, Crash, Outside, Next
<1>9. CASE UNCHANGED bridgeVars
  BY <1>3, <1>9 DEF bridgeVars
<1> QED
  BY <1>4, <1>5, <1>6, <1>7, <1>8, <1>9 DEF BridgeNext, BridgeStep

\* At the start both are empty.
LEMMA BridgeStart == BridgeInit => Init /\ R!Init
  BY DEF BridgeInit, W!Init, R!Init

\* Both components keep their invariants inside the bridge.
LEMMA ComponentsStep ==
    ASSUME IInv, R!IInv, [BridgeNext]_bridgeVars
    PROVE  IInv' /\ R!IInv'
<1>1. [Next]_vars /\ [R!Next]_(R!vars)
  BY RunnerStep, AdapterStep
<1>2. R!IInv'
  BY <1>1, R!Inductive, RunnerAssumptions
<1> QED
  BY <1>1, <1>2, InboxInductive
-----------------------------------------------------------------------------
(* The ties between runner and inbox.                                      *)

\* A step of the scan only adds undelivered rows; the cursor only grows.
LEMMA ScanAdds ==
    ASSUME IInv, Step
    PROVE  /\ cursor' >= cursor
           /\ \A k \in DOMAIN rows: k \in DOMAIN rows' /\ rows'[k] = rows[k]
           /\ \A k \in DOMAIN rows': rows'[k].delivered => k \in DOMAIN rows
<1>0. /\ TypeOK /\ Bindings /\ Scanning /\ rows \in Seq(RowType) /\ log \in Seq(EntryType)
      /\ DOMAIN rows = 1..Len(rows) /\ Len(rows) \in Nat /\ Len(log) \in Nat /\ cursor \in Nat
  BY DEF IInv, TypeOK
<1>1. CASE Skip \/ Receive
  <2> DEFINE id == Head(entries)
             new == [envelope |-> log[id], id |-> id, delivered |-> FALSE]
  <2>1. id \in 1..Len(log) /\ cursor < id /\ cursor' = id
    BY <1>0, <1>1, NextEntry DEF Commit
  <2>2. rows' = rows \/ rows' = Append(rows, new)
    BY <1>0, <1>1, <2>1, GrownRows DEF Skip
  <2>3. new.delivered = FALSE
    OBVIOUS
  <2> HIDE DEF id, new
  <2>4. CASE rows' = rows
    BY <1>0, <2>1, <2>4
  <2>5. CASE rows' = Append(rows, new)
    <3>1. /\ DOMAIN rows' = 1..(Len(rows) + 1) /\ rows'[Len(rows) + 1] = new
          /\ \A k \in 1..Len(rows): rows'[k] = rows[k]
      BY <1>0, <2>5, Extended
    <3> QED
      BY <1>0, <2>1, <2>3, <3>1
  <2> QED
    BY <2>2, <2>4, <2>5
<1>2. CASE ~(Skip \/ Receive)
  <2>1. rows' = rows /\ cursor' = cursor
    BY <1>2 DEF Step, CheckCursor, Read, Recheck, Reject, Collect, Wake, store
  <2> QED
    BY <1>0, <2>1
<1> QED
  BY <1>1, <1>2

\* A step that leaves job and launches alone, and no row that was there, keeps the
\* launches backed; and the confirmed rows, if it confirms none.
LEMMA StayBacked ==
    ASSUME IInv, LaunchHasDurableTrigger, cursor' >= cursor,
           DOMAIN launches' = DOMAIN launches,
           \A i \in DOMAIN launches: launches'[i].plan = launches[i].plan /\ launches'[i].at = launches[i].at,
           \A k \in DOMAIN rows: k \in DOMAIN rows' /\ rows'[k].envelope = rows[k].envelope /\ rows'[k].id = rows[k].id,
           cursor' \in Nat
    PROVE  LaunchHasDurableTrigger'
<1>1. \A k \in DOMAIN rows: rows[k].id \in Nat
  BY Members DEF IInv, TypeOK
<1>2. cursor \in Nat
  BY DEF IInv, TypeOK
<1>3. ASSUME NEW i \in DOMAIN launches
      PROVE  \E k \in DOMAIN rows': /\ Trigger(rows'[k].envelope) = launches'[i].plan.trigger
                                   /\ rows'[k].id <= cursor'
                                   /\ rows'[k].envelope.stamp <= launches'[i].at + MaxSkew
  <2>1. PICK k \in DOMAIN rows: /\ Trigger(rows[k].envelope) = launches[i].plan.trigger
                                /\ rows[k].id <= cursor
                                /\ rows[k].envelope.stamp <= launches[i].at + MaxSkew
    BY <1>3 DEF LaunchHasDurableTrigger, Matching
  <2> QED
    BY <1>1, <1>2, <1>3, <2>1
<1> QED
  BY <1>3 DEF LaunchHasDurableTrigger, Matching, Trigger

\* Away from the phases that promise something, there is nothing to keep.
LEMMA NothingPromised ==
    ASSUME stage'[Host] \notin {"validate", "recheck", "claim", "marking"} \union W!Holding
    PROVE  FirstPending' /\ TriggerFound'
  BY DEF FirstPending, TriggerFound, W!Holding

\* While run() stands still in a promising phase, or goes on to another one, and the
\* inbox stays as it is, the promise stands.
LEMMA StillFound ==
    ASSUME IInv, R!IInv, TriggerFound, UNCHANGED <<rows, plan>>, now' \in Nat, now' >= now,
           stage[Host] \in {"recheck", "claim", "marking"} \union W!Holding
    PROVE  TriggerFound'
<1>1. PICK k \in Matching(plan[Host]): /\ rows[k].envelope.stamp <= now + MaxSkew
                                       /\ \A j \in 1 .. k - 1: rows[j].delivered
  BY DEF TriggerFound
<1>2. rows[k].envelope.stamp \in Nat /\ now \in Nat /\ MaxSkew \in Nat
  <2>1. rows[k] \in RowType
    BY <1>1 DEF Matching, IInv, TypeOK
  <2>2. rows[k].envelope \in EntryType
    BY <2>1, Members
  <2> QED
    BY <2>2, BoundsAssumption DEF EntryType, IInv, TypeOK
<1>3. rows[k].envelope.stamp <= now' + MaxSkew
  BY <1>1, <1>2
<1> QED
  BY <1>1, <1>3 DEF TriggerFound, Matching, Trigger, W!Holding

\* The steps in which only the adapter, the stream or the clock moves.
LEMMA InboxSteps ==
    ASSUME BridgeIInv, IInv',
           \/ ScanStep \/ (\E c \in Configs: OpenAdapter(c)) \/ RaiseScan \/ Outside \/ UNCHANGED bridgeVars
    PROVE  Ties'
<1>0. /\ IInv /\ R!IInv /\ Ties /\ cursor \in Nat /\ cursor' \in Nat /\ now \in Nat /\ now' \in Nat
  BY DEF BridgeIInv, IInv, TypeOK
<1>1. UNCHANGED bridge
  BY DEF ScanStep, OpenAdapter, RaiseScan, Outside, bridgeVars
<1>2. CASE ScanStep
  <2>1. /\ cursor' >= cursor
        /\ \A k \in DOMAIN rows: k \in DOMAIN rows' /\ rows'[k] = rows[k]
        /\ \A k \in DOMAIN rows': rows'[k].delivered => k \in DOMAIN rows
    BY <1>0, <1>2, ScanAdds DEF ScanStep
  <2>2. LaunchHasDurableTrigger'
    BY <1>0, <1>1, <2>1, StayBacked DEF bridge, Ties
  <2>3. Confirmed'
    BY <1>0, <1>1, <2>1 DEF Ties, Confirmed, Matching, Trigger, bridge
  <2>4. stage'[Host] = "polling"
    BY <1>1, <1>2 DEF ScanStep, bridge
  <2> QED
    BY <2>2, <2>3, <2>4, NothingPromised DEF Ties, W!Holding
<1>3. CASE ~ScanStep
  <2>1. UNCHANGED <<rows, cursor>> /\ now' >= now
    BY <1>0, <1>3 DEF OpenAdapter, Open, RaiseScan, Raise, Outside, PeerAppend, Trim, Tick, bridgeVars, inbox, store
  <2>2. FirstPending'
    BY <1>0, <1>1, <2>1 DEF Ties, FirstPending, Notice, Trigger, bridge
  <2>3. TriggerFound'
    <3>1. CASE stage[Host] \in {"recheck", "claim", "marking"} \union W!Holding
      BY <1>0, <1>1, <2>1, <3>1, StillFound DEF Ties, bridge
    <3>2. CASE stage[Host] \notin {"recheck", "claim", "marking"} \union W!Holding
      BY <1>1, <3>2 DEF TriggerFound, W!Holding, bridge
    <3> QED
      BY <3>1, <3>2
  <2>4. LaunchHasDurableTrigger'
    BY <1>0, <1>1, <2>1, StayBacked DEF bridge, Ties
  <2>5. Confirmed'
    BY <1>0, <1>1, <2>1 DEF Ties, Confirmed, Matching, Trigger, bridge
  <2> QED
    BY <2>2, <2>3, <2>4, <2>5 DEF Ties
<1> QED
  BY <1>2, <1>3

\* The steps that open, start, scan or leave: the inbox stays, nothing is promised.
LEMMA HostSteps ==
    ASSUME BridgeIInv, IInv',
           \/ (\E p \in Plans: OpenRunner(p)) \/ (\E t \in RunTimeouts: StartRun(t))
           \/ (\E n \in Batches: BeginScan(n)) \/ RaiseRun \/ Crash
    PROVE  Ties'
<1>0. /\ IInv /\ R!IInv /\ Ties /\ cursor \in Nat /\ cursor' \in Nat /\ stage \in [{Host} -> R!Phases]
  BY DEF BridgeIInv, IInv, TypeOK, R!IInv, R!TypeOK
<1> USE DEF W!Goto, W!Return, W!receipt, W!local
<1>1. UNCHANGED <<rows, cursor, launches>> /\ stage'[Host] \in {"open", "eligible", "polling", "closed"}
  BY <1>0 DEF OpenRunner, W!Open, StartRun, W!Run, BeginScan, W!CheckEligible, W!Refuse, Poll, Begin, RaiseRun, W!Raise,
     Crash, Close, inbox, store
<1>2. (state = "absent" /\ state' = "ready") \/ UNCHANGED <<job, state>>
  BY DEF OpenRunner, W!Open, StartRun, W!Run, BeginScan, W!CheckEligible, RaiseRun, W!Raise, Crash
<1>3. LaunchHasDurableTrigger'
  BY <1>0, <1>1, StayBacked DEF Ties
<1>4. Confirmed'
  BY <1>0, <1>1, <1>2 DEF Ties, Confirmed, Matching, Trigger
<1> QED
  BY <1>1, <1>3, <1>4, NothingPromised DEF Ties, W!Holding

\* poll() hands over: the first message is the oldest undelivered row.
LEMMA EndScanStep ==
    ASSUME BridgeIInv, IInv', EndScan
    PROVE  Ties'
<1>0. /\ IInv /\ R!IInv /\ Ties /\ cursor \in Nat /\ cursor' \in Nat
      /\ stage \in [{Host} -> R!Phases] /\ batch \in [{Host} -> Seq(Notes)] /\ pending \in Seq(EntryType)
  BY DEF BridgeIInv, IInv, TypeOK, R!IInv, R!TypeOK
<1> USE DEF W!Goto, W!Return, W!receipt, W!local
<1>1. UNCHANGED <<rows, cursor, launches, job, state>>
  BY DEF EndScan, W!PollReturns, W!Raise, inbox, store
<1>2. LaunchHasDurableTrigger' /\ Confirmed'
  <2>1. LaunchHasDurableTrigger'
    BY <1>0, <1>1, StayBacked DEF Ties
  <2>2. Confirmed'
    BY <1>0, <1>1 DEF Ties, Confirmed, Matching, Trigger
  <2> QED
    BY <2>1, <2>2
<1>3. CASE outcome = "returned"
  <2>1. stage'[Host] = "validate" /\ batch'[Host] = Envelopes
    BY <1>0, <1>3 DEF EndScan, W!PollReturns
  <2>2. TriggerFound'
    BY <2>1 DEF TriggerFound, W!Holding
  <2>3. ASSUME Envelopes # <<>>
        PROVE  \E k \in DOMAIN rows: /\ Notice(rows[k].envelope) = Envelopes[1]
                                     /\ \A j \in 1 .. k - 1: rows[j].delivered
    <3>1. 1 \in DOMAIN pending
      <4>1. pending # <<>>
        BY <2>3 DEF Envelopes
      <4> QED
        BY <1>0, <4>1
    <3>2. PICK k \in DOMAIN rows:
             /\ rows[k].envelope = pending[1]
             /\ \A j \in 1 .. k - 1: rows[j].delivered \/ \E h \in 1 .. 1 - 1: pending[h] = rows[j].envelope
      BY <1>0, <1>3, <3>1 DEF IInv, HandedOverInOrder
    <3>3. 1 .. 1 - 1 = {}
      OBVIOUS
    <3>4. Envelopes[1] = Notice(pending[1])
      BY <3>1 DEF Envelopes
    <3> QED
      BY <3>2, <3>3, <3>4
  <2>4. FirstPending'
    BY <1>1, <2>1, <2>3 DEF FirstPending, Notice, Trigger
  <2> QED
    BY <1>2, <2>2, <2>4 DEF Ties
<1>4. CASE outcome # "returned"
  <2>1. stage'[Host] = "open"
    BY <1>0, <1>4 DEF EndScan, W!Raise
  <2> QED
    BY <1>2, <2>1, NothingPromised DEF Ties, W!Holding
<1> QED
  BY <1>3, <1>4

\* The claim, and everything after it, finds no confirmed row.
LEMMA NothingConfirmed ==
    ASSUME R!IInv, Confirmed, state # "completed"
    PROVE  \A k \in DOMAIN rows: ~rows[k].delivered
  BY DEF Confirmed

\* A scan that was validated found the trigger.
LEMMA ValidateStep ==
    ASSUME IInv, R!IInv, FirstPending, W!Validate(Host), UNCHANGED rows
    PROVE  FirstPending' /\ TriggerFound'
<1> USE DEF W!Goto, W!Return, W!local
<1>0. stage \in [{Host} -> R!Phases] /\ batch \in [{Host} -> Seq(Notes)]
  BY DEF R!IInv, R!TypeOK
<1>1. CASE stage'[Host] = "recheck"
  <2>1. /\ stage[Host] = "validate" /\ batch[Host] # <<>> /\ plan' = plan /\ now' = now
        /\ \A i \in DOMAIN batch[Host]: W!Matches(plan[Host], batch[Host][i])
    BY <1>0, <1>1 DEF W!Validate
  <2>2. PICK k \in DOMAIN rows: /\ Notice(rows[k].envelope) = batch[Host][1]
                                /\ \A j \in 1 .. k - 1: rows[j].delivered
    BY <2>1 DEF FirstPending
  <2>3. 1 \in DOMAIN batch[Host]
    BY <1>0, <2>1
  <2>4. /\ Notice(rows[k].envelope).trigger = plan[Host].trigger
        /\ Notice(rows[k].envelope).stamp - now <= MaxSkew
    BY <2>1, <2>2, <2>3 DEF W!Matches
  <2>5. Trigger(rows[k].envelope) = plan[Host].trigger /\ rows[k].envelope.stamp - now <= MaxSkew
    BY <2>4 DEF Notice
  <2>6. rows[k].envelope.stamp \in Nat /\ now \in Nat /\ MaxSkew \in Nat
    <3>1. rows[k].envelope \in EntryType
      BY Members DEF IInv, TypeOK
    <3> QED
      BY <3>1, BoundsAssumption DEF EntryType, IInv, TypeOK
  <2>7. rows[k].envelope.stamp <= now + MaxSkew
    BY <2>5, <2>6
  <2> QED
    BY <1>1, <2>1, <2>2, <2>5, <2>7 DEF FirstPending, TriggerFound, Matching, Trigger
<1>2. CASE stage'[Host] # "recheck"
  <2>1. stage'[Host] \in {"open", "empty"}
    BY <1>0, <1>2 DEF W!Validate
  <2> QED
    BY <2>1, NothingPromised DEF W!Holding
<1> QED
  BY <1>1, <1>2

\* A launch is backed by the row that was found.
LEMMA LaunchStep ==
    ASSUME IInv, R!IInv, TriggerFound, LaunchHasDurableTrigger, RowsComeFromStream, W!Launch(Host), UNCHANGED <<rows, cursor>>
    PROVE  LaunchHasDurableTrigger'
<1>1. stage[Host] = "launch" /\ launches = <<>> /\ plan' = plan
  BY DEF W!Launch, W!local, R!IInv, R!ClaimIsExclusive, R!Holding
<1>2. launches' = << [by |-> Host, plan |-> plan[Host], at |-> now, exit |-> "none"] >>
  BY <1>1 DEF W!Launch
<1>3. PICK k \in Matching(plan[Host]): rows[k].envelope.stamp <= now + MaxSkew
  BY <1>1 DEF TriggerFound, W!Holding
<1>4. rows[k].id <= cursor
  BY <1>3 DEF RowsComeFromStream, Matching
<1>5. DOMAIN launches' = {1} /\ launches'[1].plan = plan[Host] /\ launches'[1].at = now
  BY <1>2
<1> QED
  BY <1>3, <1>4, <1>5 DEF LaunchHasDurableTrigger, Matching, Trigger

\* The statements of run() between two calls of the adapter.
LEMMA RunSteps ==
    ASSUME BridgeIInv, IInv', RunStep
    PROVE  Ties'
<1>0. /\ IInv /\ R!IInv /\ Ties /\ cursor \in Nat /\ cursor' \in Nat /\ now \in Nat
      /\ stage \in [{Host} -> R!Phases] /\ launches \in Seq(R!LaunchType)
  BY DEF BridgeIInv, IInv, TypeOK, R!IInv, R!TypeOK
<1> USE DEF W!Goto, W!Return, W!receipt, W!local
<1>1. UNCHANGED <<rows, cursor>>
  BY DEF RunStep, inbox, store
<1>2. ASSUME UNCHANGED launches
      PROVE  LaunchHasDurableTrigger'
  BY <1>0, <1>1, <1>2, StayBacked DEF Ties
<1>3. ASSUME UNCHANGED <<job, state>>
      PROVE  Confirmed'
  BY <1>0, <1>1, <1>3 DEF Ties, Confirmed, Matching, Trigger
<1>4. ASSUME state # "completed"
      PROVE  Confirmed'
  BY <1>0, <1>1, <1>4, NothingConfirmed DEF Ties, Confirmed
<1>5. ASSUME stage[Host] \in {"recheck", "claim"} \union W!Holding, UNCHANGED <<plan, now>>, stage'[Host] # "validate"
      PROVE  FirstPending' /\ TriggerFound'
  <2>1. TriggerFound'
    BY <1>0, <1>1, <1>5, StillFound DEF Ties
  <2> QED
    BY <1>5, <2>1 DEF FirstPending
<1>6. CASE W!Validate(Host)
  BY <1>0, <1>1, <1>2, <1>3, <1>6, ValidateStep DEF W!Validate, Ties
<1>7. CASE W!Remaining(Host) \/ W!Wake(Host) \/ W!ReturnIdle(Host)
  <2>1. stage'[Host] \in {"leaving", "waiting", "eligible", "open"} /\ UNCHANGED <<launches, job, state>>
    BY <1>0, <1>7 DEF W!Remaining, W!Wake, W!ReturnIdle, W!Refuse
  <2> QED
    BY <1>2, <1>3, <2>1, NothingPromised DEF Ties, W!Holding
<1>8. CASE W!Recheck(Host)
  <2>1. /\ stage[Host] = "recheck" /\ stage'[Host] \in {"claim", "open"}
        /\ UNCHANGED <<launches, job, state, plan, now>>
    BY <1>0, <1>8 DEF W!Recheck, W!Refuse
  <2> QED
    BY <1>2, <1>3, <1>5, <2>1 DEF Ties
<1>9. CASE W!Claim(Host)
  <2>1. /\ stage[Host] = "claim" /\ stage'[Host] \in {"launch", "open"} /\ UNCHANGED <<launches, job, plan, now>>
        /\ state' = state \/ state # "completed"
    BY <1>0, <1>9 DEF W!Claim
  <2> QED
    BY <1>2, <1>3, <1>4, <1>5, <2>1 DEF Ties
<1>10. CASE W!Launch(Host)
  <2>1. stage[Host] = "launch" /\ stage'[Host] = "executing" /\ UNCHANGED <<job, state, plan, now>>
    BY <1>0, <1>10 DEF W!Launch
  <2>2. LaunchHasDurableTrigger'
    BY <1>0, <1>1, <1>10, LaunchStep DEF Ties, IInv
  <2> QED
    BY <1>3, <1>5, <2>1, <2>2 DEF Ties, W!Holding
<1>11. CASE (\E isNone \in BOOLEAN: W!ExecuteReturns(Host, isNone)) \/ W!ExecuteRaises(Host)
  <2>1. /\ stage[Host] = "executing" /\ stage'[Host] \in {"completing", "failing"} /\ UNCHANGED <<job, state, plan, now>>
        /\ \E exit \in {"clean", "dirty"}: launches' = [launches EXCEPT ![Len(launches)].exit = exit]
    BY <1>0, <1>11 DEF W!ExecuteReturns, W!ExecuteRaises, W!Ended
  <2>2. /\ DOMAIN launches' = DOMAIN launches
        /\ \A i \in DOMAIN launches: launches'[i].plan = launches[i].plan /\ launches'[i].at = launches[i].at
    <3>1. \A i \in DOMAIN launches: launches[i] \in R!LaunchType
      BY <1>0
    <3> QED
      BY <2>1, <3>1 DEF R!LaunchType
  <2>3. LaunchHasDurableTrigger'
    BY <1>0, <1>1, <2>2, StayBacked DEF Ties
  <2> QED
    BY <1>3, <1>5, <2>1, <2>3 DEF Ties, W!Holding
<1>12. CASE W!RecordFailure(Host) \/ W!RecordCompletion(Host)
  <2>1. /\ stage[Host] \in {"failing", "completing"} /\ stage'[Host] \in {"open", "marking"}
        /\ UNCHANGED <<launches, plan, now>>
    BY <1>0, <1>12 DEF W!RecordFailure, W!RecordCompletion
  <2>2. state = "claimed"
    BY <1>0, <2>1 DEF R!IInv, R!ClaimIsExclusive, R!Holding
  <2> QED
    BY <1>2, <1>4, <1>5, <2>1, <2>2 DEF Ties, W!Holding
<1> QED
  BY <1>6, <1>7, <1>8, <1>9, <1>10, <1>11, <1>12 DEF RunStep

\* The confirmation marks one row: the trigger of the job on record.
LEMMA ConfirmStep ==
    ASSUME BridgeIInv, IInv', Confirm
    PROVE  Ties'
<1> DEFINE mid == plan[Host].trigger.mid
<1>0. /\ IInv /\ R!IInv /\ Ties /\ cursor \in Nat /\ cursor' \in Nat /\ rows \in Seq(RowType) /\ Len(rows) \in Nat
      /\ stage \in [{Host} -> R!Phases] /\ DOMAIN rows = 1..Len(rows)
  <2>1. IInv /\ R!IInv /\ Ties /\ stage \in [{Host} -> R!Phases]
    BY DEF BridgeIInv, R!IInv, R!TypeOK
  <2>2. cursor \in Nat /\ cursor' \in Nat /\ rows \in Seq(RowType)
    BY DEF BridgeIInv, IInv, TypeOK
  <2> QED
    BY <2>1, <2>2
<1>1. /\ rows' \in Seq(RowType) /\ Len(rows') = Len(rows)
      /\ \A k \in 1..Len(rows): /\ rows'[k].envelope = rows[k].envelope /\ rows'[k].id = rows[k].id
                                /\ rows'[k].delivered <=> rows[k].delivered \/ rows[k].envelope.mid = mid
  BY <1>0, MarkedRows DEF Confirm
<1>2. /\ stage[Host] = "marking" /\ stage'[Host] = "open" /\ UNCHANGED <<job, state, launches, cursor>>
  BY <1>0 DEF Confirm, W!MarkDelivered, W!Return, W!Goto, W!receipt, W!local, MarkDelivered
<1>3. state = "completed" /\ plan[Host] = job
  BY <1>0, <1>2 DEF R!IInv, R!RowAndLaunches, R!Pinned
<1>4. PICK found \in Matching(plan[Host]): TRUE
  BY <1>0, <1>2 DEF Ties, TriggerFound
<1>5. found \in 1..Len(rows) /\ rows[found].envelope.mid = mid /\ found \in Matching(job)
  BY <1>0, <1>3, <1>4 DEF Matching, Trigger
<1> HIDE DEF mid
<1>6. ASSUME NEW k \in 1..Len(rows), rows[k].envelope.mid = mid
      PROVE  k = found
  <2>1. \A m \in 1..Len(rows): \A j \in 1..m - 1: rows[j].envelope.mid # rows[m].envelope.mid
    BY <1>0 DEF IInv, RowsComeFromStream
  <2>2. ~(k < found) /\ ~(found < k)
    BY <1>0, <1>5, <1>6, <2>1
  <2> QED
    BY <1>0, <1>5, <2>2
<1>7. DOMAIN rows' = 1..Len(rows)
  BY <1>1
<1>8. Confirmed'
  <2>1. ASSUME NEW k \in 1..Len(rows), rows'[k].delivered
        PROVE  k \in Matching(job)
    <3>1. rows[k].delivered \/ rows[k].envelope.mid = mid
      BY <1>1, <2>1
    <3> QED
      BY <1>0, <1>5, <1>6, <3>1 DEF Ties, Confirmed
  <2> QED
    BY <1>0, <1>1, <1>2, <1>3, <1>7, <2>1 DEF Confirmed, Matching, Trigger
<1>9. LaunchHasDurableTrigger'
  BY <1>0, <1>1, <1>2, <1>7, StayBacked DEF Ties
<1> QED
  BY <1>2, <1>8, <1>9, NothingPromised DEF Ties, W!Holding
-----------------------------------------------------------------------------
(* Theorems.                                                               *)

\* The inductive invariant of the bridge.
LEMMA BridgeInductive == BridgeIInv /\ [BridgeNext]_bridgeVars => BridgeIInv'
<1> SUFFICES ASSUME BridgeIInv, [BridgeNext]_bridgeVars
             PROVE  BridgeIInv'
  OBVIOUS
<1>1. IInv' /\ R!IInv'
  BY ComponentsStep DEF BridgeIInv
<1>2. Ties'
  BY <1>1, InboxSteps, HostSteps, EndScanStep, RunSteps, ConfirmStep DEF BridgeNext, BridgeStep
<1> QED
  BY <1>1, <1>2 DEF BridgeIInv

\* Both components and their ties are as they should be in every reachable state.
THEOREM BridgeInvariant == BridgeSpec => []BridgeIInv
<1>1. BridgeInit => BridgeIInv
  <2> SUFFICES ASSUME BridgeInit PROVE BridgeIInv
    OBVIOUS
  <2>1. IInv /\ R!IInv
    BY BridgeStart, InitIInv, R!InitIInv, RunnerAssumptions
  <2>2. Ties
    BY DEF BridgeInit, Init, W!Init, Ties, FirstPending, TriggerFound, LaunchHasDurableTrigger, Confirmed, W!Holding
  <2> QED
    BY <2>1, <2>2 DEF BridgeIInv
<1> QED
  BY <1>1, BridgeInductive, PTL DEF BridgeSpec

\* The bridge is a SemioAdapter: every theorem about the inbox holds of it.
THEOREM ImplementsAdapter == BridgeSpec => Spec
<1>1. BridgeIInv /\ [BridgeNext]_bridgeVars => [Next]_vars
  BY AdapterStep DEF BridgeIInv
<1>2. BridgeInit => Init
  BY BridgeStart
<1> QED
  BY <1>1, <1>2, BridgeInvariant, PTL DEF BridgeSpec, Spec

\* The bridge is a WakeRunner: every theorem about the runner holds of it.
THEOREM ImplementsRunner == BridgeSpec => R!Spec
<1>1. BridgeIInv /\ [BridgeNext]_bridgeVars => [R!Next]_(R!vars)
  BY RunnerStep DEF BridgeIInv
<1>2. BridgeInit => R!Init
  BY BridgeStart
<1> QED
  BY <1>1, <1>2, BridgeInvariant, PTL DEF BridgeSpec, R!Spec

\* So the bridge inherits what is proved of its parts: no notification is passed
\* over in silence, and the job is launched at most once.
THEOREM Inherited == BridgeSpec => [](NoSilentGap /\ R!AtMostOneLaunch)
<1>1. BridgeSpec => []NoSilentGap
  BY ImplementsAdapter, Complete, PTL
<1>2. BridgeSpec => []R!AtMostOneLaunch
  BY ImplementsRunner, R!LaunchedAtMostOnce, RunnerAssumptions, PTL
<1> QED
  BY <1>1, <1>2, PTL

\* A launch rests on a row of the inbox that came before it.
THEOREM LaunchBacked == BridgeSpec => []LaunchHasDurableTrigger
<1>1. BridgeIInv => LaunchHasDurableTrigger
  BY DEF BridgeIInv, Ties
<1> QED
  BY <1>1, BridgeInvariant, PTL

\* Only the trigger of a job that ended cleanly is ever confirmed.
THEOREM ConfirmedRightly == BridgeSpec => []ConfirmedOnlyWhenCompleted
<1>1. ASSUME BridgeIInv
      PROVE  ConfirmedOnlyWhenCompleted
  <2>1. state = "completed" => Len(launches) = 1 /\ launches[1].exit = "clean"
    BY <1>1 DEF BridgeIInv, R!IInv, R!RowAndLaunches
  <2>2. launches \in Seq(R!LaunchType)
    BY <1>1 DEF BridgeIInv, R!IInv, R!TypeOK
  <2>3. state = "completed" => \E i \in DOMAIN launches: launches[i].exit = "clean"
    BY <2>1, <2>2
  <2> QED
    BY <1>1, <2>3 DEF BridgeIInv, Ties, Confirmed, ConfirmedOnlyWhenCompleted
<1> QED
  BY <1>1, BridgeInvariant, PTL

\* From the claim on, the trigger is the oldest undelivered row.
THEOREM TriggerFirst == BridgeSpec => []NothingAheadOfTheTrigger
<1>1. BridgeIInv => NothingAheadOfTheTrigger
  BY DEF BridgeIInv, Ties, TriggerFound, NothingAheadOfTheTrigger
<1> QED
  BY <1>1, BridgeInvariant, PTL

\* Both promises at once: an inbox that loses and alters nothing, and a job that is
\* attempted at most once, whatever becomes of the one process between the two.
THEOREM BothPromises == BridgeSpec => KeepsPromise /\ W!KeepsPromise
<1>1. BridgeSpec => KeepsPromise
  BY ImplementsAdapter, Refinement, PTL
<1>2. BridgeSpec => R!KeepsPromise
  BY ImplementsRunner, R!ImplementsPromise, RunnerAssumptions, PTL
<1>3. R!KeepsPromise => W!KeepsPromise
  BY PTL DEF R!KeepsPromise, W!KeepsPromise, R!Promise!Spec, W!Promise!Spec, R!Promise!Init, W!Promise!Init,
     R!Promise!Next, W!Promise!Next, R!Promise!vars, W!Promise!vars, R!Promise!Claim, W!Promise!Claim,
     R!Promise!Effect, W!Promise!Effect, R!Promise!Settle, W!Promise!Settle
<1> QED
  BY <1>1, <1>2, <1>3, PTL

\* A launch goes back to an entry a peer appended to the stream: addressed to the
\* bound agent under the bound identity, with the trigger of the plan that runs.
LaunchTracesToStream ==
    \A i \in DOMAIN launches: \E id \in 1..Len(log):
        /\ log[id] \in Appendable /\ Addressed(bound, log[id])
        /\ log[id].sound /\ log[id].identity = bound.identity
        /\ Trigger(log[id]) = launches[i].plan.trigger
        /\ log[id].stamp <= launches[i].at + MaxSkew

\* From the stream to the side effect: every launch traces back to an entry of the
\* stream, and there is at most one launch.
THEOREM LaunchTraces == BridgeSpec => [](LaunchTracesToStream /\ W!AtMostOneLaunch)
<1>1. BridgeIInv => LaunchTracesToStream
  <2> SUFFICES ASSUME BridgeIInv, NEW i \in DOMAIN launches
               PROVE  \E id \in 1..Len(log):
                        /\ log[id] \in Appendable /\ Addressed(bound, log[id])
                        /\ log[id].sound /\ log[id].identity = bound.identity
                        /\ Trigger(log[id]) = launches[i].plan.trigger
                        /\ log[id].stamp <= launches[i].at + MaxSkew
    BY DEF LaunchTracesToStream
  <2>1. PICK k \in Matching(launches[i].plan):
            rows[k].id <= cursor /\ rows[k].envelope.stamp <= launches[i].at + MaxSkew
    BY DEF BridgeIInv, Ties, LaunchHasDurableTrigger
  <2>2. k \in DOMAIN rows /\ Trigger(rows[k].envelope) = launches[i].plan.trigger
    BY DEF Matching
  <2>3. /\ rows[k].id \in origin .. cursor /\ log[rows[k].id] = rows[k].envelope
        /\ Addressed(bound, rows[k].envelope)
        /\ rows[k].envelope.sound /\ rows[k].envelope.identity = bound.identity
    BY <2>2 DEF BridgeIInv, IInv, RowsComeFromStream
  <2>4. rows[k].id \in 1..Len(log) /\ log \in Seq(Appendable)
    <3>1. cursor \in 0..Len(log) /\ origin \in 0..Len(log) /\ Len(log) \in Nat
      BY DEF BridgeIInv, IInv, TypeOK
    <3>2. origin # 0
      BY <2>2 DEF BridgeIInv, IInv, Bindings
    <3> QED
      BY <2>3, <3>1, <3>2 DEF BridgeIInv, IInv, Streamed
  <2> QED
    BY <2>1, <2>2, <2>3, <2>4
<1>2. BridgeIInv => W!AtMostOneLaunch
  BY DEF BridgeIInv, R!IInv, R!RowAndLaunches, W!AtMostOneLaunch
<1> QED
  BY <1>1, <1>2, BridgeInvariant, PTL

\* While a job is held, the trigger is the very first message of the inbox, and
\* nothing has been confirmed.
TriggerIsFirst ==
    stage[Host] \in W!Holding =>
        /\ 1 \in Matching(plan[Host])
        /\ \A k \in DOMAIN rows: ~rows[k].delivered

\* A bridge acts on the first message its inbox ever took in, or on none.
THEOREM OneMessageOneJob == BridgeSpec => []TriggerIsFirst
<1>1. BridgeIInv => TriggerIsFirst
  <2> SUFFICES ASSUME BridgeIInv, stage[Host] \in W!Holding
               PROVE  1 \in Matching(plan[Host]) /\ \A k \in DOMAIN rows: ~rows[k].delivered
    BY DEF TriggerIsFirst
  <2>1. state = "claimed"
    BY DEF BridgeIInv, R!IInv, R!ClaimIsExclusive, R!Holding, W!Holding
  <2>2. \A k \in DOMAIN rows: ~rows[k].delivered
    BY <2>1 DEF BridgeIInv, Ties, Confirmed
  <2>3. PICK k \in Matching(plan[Host]): \A j \in 1 .. k - 1: rows[j].delivered
    BY DEF BridgeIInv, Ties, TriggerFound
  <2>4. k \in DOMAIN rows /\ DOMAIN rows = 1..Len(rows) /\ Len(rows) \in Nat
    BY DEF BridgeIInv, IInv, TypeOK, Matching
  <2>5. k = 1
    <3> SUFFICES ASSUME k # 1
                 PROVE  FALSE
      OBVIOUS
    <3>1. 1 \in 1 .. k - 1 /\ 1 \in DOMAIN rows
      BY <2>4
    <3> QED
      BY <2>2, <2>3, <3>1
  <2> QED
    BY <2>2, <2>3, <2>5
<1> QED
  BY <1>1, BridgeInvariant, PTL
==============================================================================
