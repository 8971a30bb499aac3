-------------------------- MODULE WakeRunner_proofs --------------------------
(***************************************************************************)
(* Theorems about WakeRunner for any number of runners, any plans and any  *)
(* clock: what the inductive invariant IInv says is that the row, the one  *)
(* runner past its claim, and the launches made so far always fit.         *)
(***************************************************************************)
EXTENDS WakeRunner, TLAPS

\* The row exists once it is pinned, and every open object runs its plan.
Pinned ==
    /\ state = "absent" <=> config = NoPlan
    /\ \A r \in Runners: phase[r] # "closed" => config # NoPlan /\ plan[r] = config

\* How the launch that a runner owns ended, by where the runner stands.
OwnLaunch ==
    \A r \in Runners:
        /\ phase[r] = "failing" => launches[1].exit = "dirty"
        /\ phase[r] = "completing" => launches[1].exit = "clean"

\* What the row says of the launches, and where "marking" comes from.
RowAndLaunches ==
    /\ Len(launches) <= 1
    /\ Len(launches) = 1 => launches[1].plan = config
    /\ state \in {"absent", "ready"} => launches = <<>>
    /\ state = "completed" => Len(launches) = 1 /\ launches[1].exit = "clean"
    /\ state = "failed" => Len(launches) = 1 /\ launches[1].exit = "dirty"
    /\ \A r \in Runners: phase[r] = "marking" \/ outcome[r] = "completed" =>
         state = "completed" /\ launches[1].by = r

IInv == TypeOK /\ Pinned /\ ClaimIsExclusive /\ OwnLaunch /\ RowAndLaunches

-----------------------------------------------------------------------------
(* The type invariant.                                                     *)

\* Recording how the latest launch ended keeps the launches well formed, as many
\* as they were, and changes nothing else of any of them.
LEMMA EndedLaunches ==
    ASSUME TypeOK, NEW exit \in Exits, Ended(exit)
    PROVE  /\ launches' \in Seq(LaunchType)
           /\ Len(launches') = Len(launches)
           /\ \A i \in 1 .. Len(launches): /\ launches'[i].by = launches[i].by
                                          /\ launches'[i].plan = launches[i].plan
           /\ Len(launches) = 1 => launches'[1].exit = exit
<1>1. PICK n \in Nat: n = Len(launches) /\ DOMAIN launches = 1 .. n
                      /\ launches \in Seq(LaunchType)
  BY DEF TypeOK
<1>2. launches' = [launches EXCEPT ![n] = [launches[n] EXCEPT !.exit = exit]]
  BY <1>1 DEF Ended
<1>3. launches' = [i \in 1 .. n |-> IF i = n THEN [launches[i] EXCEPT !.exit = exit]
                                            ELSE launches[i]]
  BY <1>1, <1>2
<1>4. ASSUME NEW i \in 1 .. n
      PROVE  /\ launches[i] \in LaunchType
             /\ [launches[i] EXCEPT !.exit = exit] \in LaunchType
             /\ [launches[i] EXCEPT !.exit = exit].by = launches[i].by
             /\ [launches[i] EXCEPT !.exit = exit].plan = launches[i].plan
             /\ [launches[i] EXCEPT !.exit = exit].exit = exit
  <2>1. launches[i] \in LaunchType
    BY <1>1
  <2> QED
    BY <2>1 DEF LaunchType
<1>5. launches' \in [1 .. n -> LaunchType]
  BY <1>3, <1>4
<1>6. launches' \in Seq(LaunchType) /\ Len(launches') = n
  <2>1. launches' \in Seq(LaunchType)
    BY <1>1, <1>5
  <2>2. DOMAIN launches' = 1 .. n
    BY <1>5
  <2> QED
    BY <1>1, <2>1, <2>2
<1>7. \A i \in 1 .. n: launches'[i].by = launches[i].by /\ launches'[i].plan = launches[i].plan
  BY <1>3, <1>4
<1>8. ASSUME n = 1 PROVE launches'[1].exit = exit
  <2>1. 1 \in 1 .. n /\ launches'[1] = [launches[1] EXCEPT !.exit = exit]
    BY <1>3, <1>8
  <2> QED
    BY <1>4, <2>1
<1> QED
  BY <1>1, <1>6, <1>7, <1>8

\* One step keeps every type, given that an open object runs a plan.
LEMMA TypeStep == TypeOK /\ Pinned /\ [Next]_vars => TypeOK'
<1> SUFFICES ASSUME TypeOK, Pinned, [Next]_vars PROVE TypeOK'
  OBVIOUS
<1> USE DEF TypeOK, Goto, Return, receipt, local, Phases, Running, Scanning, Dispatching,
            States, Outcomes
<1>1. ASSUME NEW r \in Runners, NEW p \in Plans, Open(r, p) PROVE TypeOK'
  BY <1>1 DEF Open
<1>2. ASSUME NEW r \in Runners, NEW t \in Timeouts, Run(r, t) PROVE TypeOK'
  BY <1>2, TimesAssumption DEF Run
<1>3. ASSUME NEW r \in Runners, CheckEligible(r) PROVE TypeOK'
  BY <1>3 DEF CheckEligible, Refuse
<1>4. ASSUME NEW r \in Runners, NEW b \in Batches, PollReturns(r, b) PROVE TypeOK'
  BY <1>4, NoticesAssumption DEF PollReturns
<1>5. ASSUME NEW r \in Runners, Validate(r) PROVE TypeOK'
  BY <1>5 DEF Validate
<1>6. ASSUME NEW r \in Runners, Remaining(r) \/ Wake(r) \/ ReturnIdle(r) PROVE TypeOK'
  BY <1>6 DEF Remaining, Wake, ReturnIdle, Refuse
<1>7. ASSUME NEW r \in Runners, Recheck(r) \/ Claim(r) PROVE TypeOK'
  BY <1>7 DEF Recheck, Refuse, Claim
<1>8. ASSUME NEW r \in Runners, Launch(r) PROVE TypeOK'
  <2>1. [by |-> r, plan |-> plan[r], at |-> now, exit |-> "none"] \in LaunchType
    BY <1>8 DEF Launch, Pinned, LaunchType, Exits
  <2>2. launches' \in Seq(LaunchType)
    BY <1>8, <2>1 DEF Launch
  <2> QED
    BY <1>8, <2>2 DEF Launch
<1>9. ASSUME NEW r \in Runners, \/ \E isNone \in BOOLEAN: ExecuteReturns(r, isNone)
                                \/ ExecuteRaises(r)
      PROVE  TypeOK'
  <2>1. \E exit \in Exits: Ended(exit)
    BY <1>9 DEF ExecuteReturns, ExecuteRaises, Exits
  <2>2. launches' \in Seq(LaunchType)
    BY <2>1, EndedLaunches
  <2> QED
    BY <1>9, <2>2 DEF ExecuteReturns, ExecuteRaises
<1>10. ASSUME NEW r \in Runners, RecordFailure(r) \/ RecordCompletion(r) \/ MarkDelivered(r)
       PROVE  TypeOK'
  BY <1>10 DEF RecordFailure, RecordCompletion, MarkDelivered
<1>11. ASSUME NEW r \in Runners, Raise(r) \/ Close(r) PROVE TypeOK'
  BY <1>11 DEF Raise, Close
<1>12. CASE Tick
  BY <1>12 DEF Tick
<1>13. CASE UNCHANGED vars
  BY <1>13 DEF vars
<1> QED
  BY <1>1, <1>2, <1>3, <1>4, <1>5, <1>6, <1>7, <1>8, <1>9, <1>10, <1>11, <1>12, <1>13
  DEF Next, Step, Environment

-----------------------------------------------------------------------------
(* The inductive invariant.                                                *)

Fits == Pinned /\ ClaimIsExclusive /\ OwnLaunch /\ RowAndLaunches

\* A step that only moves runner r, and not to a phase that promises anything,
\* keeps all that IInv says: the receipt and the launches are as they were.
LEMMA MoveStep ==
    ASSUME IInv, NEW r \in Runners, NEW p \in Phases \ (Holding \union {"marking"}),
           Goto(r, p), UNCHANGED <<receipt, plan, launches>>,
           phase[r] # "closed" \/ p = "closed",
           outcome' = outcome \/ \E x \in Outcomes \ {"completed"}:
                                   outcome' = [outcome EXCEPT ![r] = x]
    PROVE  Fits'
<1> USE DEF IInv, TypeOK, Goto, receipt, Holding
<1>1. \A q \in Runners: phase'[q] = IF q = r THEN p ELSE phase[q]
  OBVIOUS
<1>2. \A q \in Runners: outcome'[q] = "completed" => outcome[q] = "completed"
  OBVIOUS
<1>3. Pinned'
  BY <1>1 DEF Pinned
<1>4. ClaimIsExclusive'
  BY <1>1 DEF ClaimIsExclusive
<1>5. OwnLaunch'
  BY <1>1 DEF OwnLaunch
<1>6. RowAndLaunches'
  BY <1>1, <1>2 DEF RowAndLaunches
<1> QED
  BY <1>3, <1>4, <1>5, <1>6 DEF Fits

\* The first object pins the row; every other one opens under the same plan.
LEMMA OpenStep ==
    ASSUME IInv, NEW r \in Runners, NEW p \in Plans, Open(r, p)
    PROVE  Fits'
<1> USE DEF IInv, TypeOK, Open, Goto, receipt, Holding
<1>1. \A q \in Runners: phase'[q] = IF q = r THEN "open" ELSE phase[q]
  OBVIOUS
<1>2. Pinned'
  BY <1>1, PlansAssumption DEF Pinned
<1>3. ClaimIsExclusive'
  BY <1>1 DEF ClaimIsExclusive
<1>4. OwnLaunch'
  BY <1>1 DEF OwnLaunch
<1>5. RowAndLaunches'
  BY <1>1 DEF RowAndLaunches
<1> QED
  BY <1>2, <1>3, <1>4, <1>5 DEF Fits

\* A successful claim found the row 'ready': nobody holds it, nothing was launched.
LEMMA ClaimStep ==
    ASSUME IInv, NEW r \in Runners, phase[r] = "claim", state = "ready",
           state' = "claimed", Goto(r, "launch"),
           UNCHANGED <<config, local, outcome, launches>>
    PROVE  Fits'
<1> USE DEF IInv, TypeOK, Goto, local, Holding
<1>1. \A q \in Runners: phase'[q] = IF q = r THEN "launch" ELSE phase[q]
  OBVIOUS
<1>2. \A q \in Runners: phase[q] \notin Holding /\ phase[q] # "marking"
  BY DEF ClaimIsExclusive, RowAndLaunches
<1>3. launches = <<>>
  BY DEF RowAndLaunches
<1>4. Pinned'
  BY <1>1 DEF Pinned
<1>5. ClaimIsExclusive'
  BY <1>1, <1>2, <1>3 DEF ClaimIsExclusive
<1>6. OwnLaunch'
  BY <1>1, <1>2 DEF OwnLaunch
<1>7. RowAndLaunches'
  BY <1>1, <1>2, <1>3 DEF RowAndLaunches
<1> QED
  BY <1>4, <1>5, <1>6, <1>7 DEF Fits

\* The launch is the first one, and it runs the pinned plan.
LEMMA LaunchStep ==
    ASSUME IInv, NEW r \in Runners, Launch(r)
    PROVE  Fits'
<1> USE DEF IInv, TypeOK, Goto, receipt, local, Holding, Launch
<1> DEFINE new == [by |-> r, plan |-> plan[r], at |-> now, exit |-> "none"]
<1>1. \A q \in Runners: phase'[q] = IF q = r THEN "executing" ELSE phase[q]
  OBVIOUS
<1>2. state = "claimed" /\ launches = <<>>
      /\ \A q \in Runners: phase[q] \in Holding => q = r
  BY DEF ClaimIsExclusive
<1>3. launches' = <<new>>
  BY <1>2
<1>4. Len(launches') = 1 /\ launches'[1].by = r /\ launches'[1].plan = config
  BY <1>3 DEF Pinned
<1>5. Pinned'
  BY <1>1 DEF Pinned
<1>6. ClaimIsExclusive'
  BY <1>1, <1>2, <1>4 DEF ClaimIsExclusive
<1>7. OwnLaunch'
  BY <1>1, <1>2 DEF OwnLaunch
<1>8. RowAndLaunches'
  BY <1>1, <1>2, <1>4 DEF RowAndLaunches
<1> QED
  BY <1>5, <1>6, <1>7, <1>8 DEF Fits

\* The callback ends: the runner that owns the launch knows how.
LEMMA ExitStep ==
    ASSUME IInv, NEW r \in Runners, phase[r] = "executing",
           NEW exit \in {"clean", "dirty"}, Ended(exit),
           Goto(r, IF exit = "clean" THEN "completing" ELSE "failing"),
           UNCHANGED <<receipt, local, outcome>>
    PROVE  Fits'
<1> USE DEF IInv, TypeOK, Goto, receipt, local, Holding
<1>1. \A q \in Runners: phase'[q] = IF q # r THEN phase[q]
                                    ELSE IF exit = "clean" THEN "completing" ELSE "failing"
  OBVIOUS
<1>2. state = "claimed" /\ Len(launches) = 1 /\ launches[1].by = r
      /\ \A q \in Runners: phase[q] \in Holding => q = r
  BY DEF ClaimIsExclusive
<1>3. Len(launches') = 1 /\ launches'[1].by = r /\ launches'[1].exit = exit
      /\ launches'[1].plan = config
  <2>1. exit \in Exits /\ 1 \in 1 .. Len(launches)
    BY <1>2 DEF Exits
  <2>2. launches[1].plan = config
    BY <1>2 DEF RowAndLaunches
  <2> QED
    BY <1>2, <2>1, <2>2, EndedLaunches
<1>4. Pinned'
  BY <1>1 DEF Pinned
<1>5. ClaimIsExclusive'
  BY <1>1, <1>2, <1>3 DEF ClaimIsExclusive
<1>6. OwnLaunch'
  BY <1>1, <1>2, <1>3 DEF OwnLaunch
<1>7. RowAndLaunches'
  BY <1>1, <1>2, <1>3 DEF RowAndLaunches
<1> QED
  BY <1>4, <1>5, <1>6, <1>7 DEF Fits

\* The outcome is recorded by the owner of the claim, although the UPDATE has no
\* condition: the row is still 'claimed'.
LEMMA RecordStep ==
    ASSUME IInv, NEW r \in Runners, RecordFailure(r) \/ RecordCompletion(r)
    PROVE  Fits'
<1> USE DEF IInv, TypeOK, Goto, Return, local, Holding, RecordFailure, RecordCompletion
<1>1. \A q \in Runners: q # r => phase'[q] = phase[q] /\ outcome'[q] = outcome[q]
  OBVIOUS
<1>2. state = "claimed" /\ Len(launches) = 1 /\ launches[1].by = r
      /\ \A q \in Runners: phase[q] \in Holding => q = r
  BY DEF ClaimIsExclusive
<1>3. \A q \in Runners: phase[q] # "marking" /\ outcome[q] # "completed"
  BY <1>2 DEF RowAndLaunches
<1>4. /\ phase'[r] = "open" /\ outcome'[r] = "error" /\ state' = "failed"
         /\ launches[1].exit = "dirty"
      \/ /\ phase'[r] = "marking" /\ outcome'[r] = outcome[r] /\ state' = "completed"
         /\ launches[1].exit = "clean"
  BY DEF OwnLaunch
<1>5. Pinned'
  BY <1>1, <1>4, <1>2 DEF Pinned
<1>6. ClaimIsExclusive'
  BY <1>1, <1>2, <1>4 DEF ClaimIsExclusive
<1>7. OwnLaunch'
  BY <1>1, <1>2, <1>4 DEF OwnLaunch
<1>8. RowAndLaunches'
  <2>1. UNCHANGED launches /\ config' = config
    OBVIOUS
  <2>2. launches[1].plan = config
    BY <1>2 DEF RowAndLaunches
  <2>3. \A q \in Runners: phase'[q] = "marking" \/ outcome'[q] = "completed" =>
          q = r /\ state' = "completed"
    BY <1>1, <1>3, <1>4
  <2>4. Len(launches') = 1 /\ launches'[1].by = r /\ launches'[1].plan = config'
    BY <1>2, <2>1, <2>2
  <2>5. \/ state' = "failed" /\ launches'[1].exit = "dirty"
        \/ state' = "completed" /\ launches'[1].exit = "clean"
    BY <1>4, <2>1
  <2> HIDE DEF IInv, TypeOK, RecordFailure, RecordCompletion
  <2> QED
    BY <2>3, <2>4, <2>5 DEF RowAndLaunches
<1> QED
  BY <1>5, <1>6, <1>7, <1>8 DEF Fits

\* run() returns "completed" only after "marking".
LEMMA MarkStep ==
    ASSUME IInv, NEW r \in Runners, MarkDelivered(r)
    PROVE  Fits'
<1> USE DEF IInv, TypeOK, Goto, Return, receipt, local, Holding, MarkDelivered
<1>1. \A q \in Runners: phase'[q] = IF q = r THEN "open" ELSE phase[q]
  OBVIOUS
<1>2. \A q \in Runners: outcome'[q] = "completed" => outcome[q] = "completed" \/ phase[q] = "marking"
  OBVIOUS
<1>3. Pinned'
  BY <1>1 DEF Pinned
<1>4. ClaimIsExclusive'
  BY <1>1 DEF ClaimIsExclusive
<1>5. OwnLaunch'
  BY <1>1 DEF OwnLaunch
<1>6. RowAndLaunches'
  BY <1>1, <1>2 DEF RowAndLaunches
<1> QED
  BY <1>3, <1>4, <1>5, <1>6 DEF Fits

\* Any step keeps IInv.
LEMMA Inductive == IInv /\ [Next]_vars => IInv'
<1> SUFFICES ASSUME IInv, [Next]_vars PROVE IInv'
  OBVIOUS
<1>0. TypeOK'
  BY TypeStep DEF IInv
<1> SUFFICES Fits'
  BY <1>0 DEF IInv, Fits
<1> USE DEF Phases, Running, Scanning, Dispatching, Holding
<1>1. ASSUME NEW r \in Runners, NEW p \in Plans, Open(r, p) PROVE Fits'
  BY <1>1, OpenStep
<1>2. ASSUME NEW r \in Runners, NEW t \in Timeouts, Run(r, t) PROVE Fits'
  BY <1>2, MoveStep DEF Run, Outcomes
<1>3. ASSUME NEW r \in Runners, CheckEligible(r) PROVE Fits'
  BY <1>3, MoveStep DEF CheckEligible, Refuse, Return, Outcomes, local
<1>4. ASSUME NEW r \in Runners, NEW b \in Batches, PollReturns(r, b) PROVE Fits'
  BY <1>4, MoveStep DEF PollReturns
<1>5. ASSUME NEW r \in Runners, Validate(r) PROVE Fits'
  BY <1>5, MoveStep DEF Validate, Return, Outcomes, local
<1>6. ASSUME NEW r \in Runners, Remaining(r) \/ Wake(r) PROVE Fits'
  BY <1>6, MoveStep DEF Remaining, Wake, local
<1>7. ASSUME NEW r \in Runners, ReturnIdle(r) PROVE Fits'
  BY <1>7, MoveStep DEF ReturnIdle, Refuse, Return, Outcomes, local
<1>8. ASSUME NEW r \in Runners, Recheck(r) PROVE Fits'
  BY <1>8, MoveStep DEF Recheck, Refuse, Return, Outcomes, local
<1>9. ASSUME NEW r \in Runners, Claim(r) PROVE Fits'
  <2>1. CASE state = "ready"
    BY <1>9, <2>1, ClaimStep DEF Claim
  <2>2. CASE state # "ready"
    BY <1>9, <2>2, MoveStep DEF Claim, Return, Outcomes, local, receipt
  <2> QED
    BY <2>1, <2>2
<1>10. ASSUME NEW r \in Runners, Launch(r) PROVE Fits'
  BY <1>10, LaunchStep
<1>11. ASSUME NEW r \in Runners, \/ \E isNone \in BOOLEAN: ExecuteReturns(r, isNone)
                                 \/ ExecuteRaises(r)
       PROVE  Fits'
  <2>1. \E exit \in {"clean", "dirty"}:
           /\ phase[r] = "executing" /\ Ended(exit)
           /\ Goto(r, IF exit = "clean" THEN "completing" ELSE "failing")
           /\ UNCHANGED <<receipt, local, outcome>>
    BY <1>11 DEF ExecuteReturns, ExecuteRaises
  <2> QED
    BY <2>1, ExitStep
<1>12. ASSUME NEW r \in Runners, RecordFailure(r) \/ RecordCompletion(r) PROVE Fits'
  BY <1>12, RecordStep
<1>13. ASSUME NEW r \in Runners, MarkDelivered(r) PROVE Fits'
  BY <1>13, MarkStep
<1>14. ASSUME NEW r \in Runners, Raise(r) \/ Close(r) PROVE Fits'
  BY <1>14, MoveStep DEF Raise, Close, Return, Outcomes, local
<1>15. CASE Tick \/ UNCHANGED vars
  <2>1. UNCHANGED <<config, state, phase, plan, outcome, launches>>
    BY <1>15 DEF Tick, vars, receipt, local
  <2> QED
    BY <2>1 DEF IInv, Fits, Pinned, ClaimIsExclusive, OwnLaunch, RowAndLaunches
<1> QED
  BY <1>1, <1>2, <1>3, <1>4, <1>5, <1>6, <1>7, <1>8, <1>9, <1>10, <1>11, <1>12, <1>13,
     <1>14, <1>15
  DEF Next, Step, Environment

\* Before any process opens the receipt.
LEMMA InitIInv == Init => IInv
<1> USE DEF Init
<1>1. Init => TypeOK
  BY DEF TypeOK, Phases, States, Outcomes
<1>2. Init => Fits
  BY PlansAssumption DEF Fits, Pinned, ClaimIsExclusive, OwnLaunch, RowAndLaunches, Holding
<1> QED
  BY <1>1, <1>2 DEF IInv, Fits

\* The row, the claimer and the launches fit in every reachable state.
THEOREM Invariant == Spec => []IInv
  BY InitIInv, Inductive, PTL DEF Spec

\* Every variable keeps its type, for any runners, plans, scans and clock.
THEOREM TypeCorrect == Spec => []TypeOK
<1>1. IInv => TypeOK
  BY DEF IInv
<1>2. QED
  BY <1>1, Invariant, PTL

\* execute() is called at most once per receipt database, however many processes
\* open it and wherever they crash.
THEOREM LaunchedAtMostOnce == Spec => []AtMostOneLaunch
<1>1. IInv => AtMostOneLaunch
  BY DEF IInv, RowAndLaunches, AtMostOneLaunch
<1>2. QED
  BY <1>1, Invariant, PTL

\* A runner past its claim is alone and its UPDATEs find its own claim.
THEOREM ClaimExclusive == Spec => []ClaimIsExclusive
<1>1. IInv => ClaimIsExclusive
  BY DEF IInv
<1>2. QED
  BY <1>1, Invariant, PTL

\* The row never says more, or less, than what happened outside.
THEOREM ReceiptTruthful == Spec => []ReceiptTellsTruth
<1>1. ASSUME IInv PROVE ReceiptTellsTruth
  <2>1. DOMAIN launches = 1 .. Len(launches)
    BY <1>1 DEF IInv, TypeOK
  <2> QED
    BY <1>1, <2>1 DEF IInv, RowAndLaunches, ReceiptTellsTruth
<1>2. QED
  BY <1>1, Invariant, PTL

\* The launched plan is the one the receipt was pinned to.
THEOREM LaunchPinned == Spec => []LaunchUnderPinnedPlan
<1>1. ASSUME IInv PROVE LaunchUnderPinnedPlan
  <2>1. DOMAIN launches = 1 .. Len(launches) /\ Len(launches) \in Nat
    BY <1>1 DEF IInv, TypeOK
  <2> QED
    BY <1>1, <2>1 DEF IInv, RowAndLaunches, LaunchUnderPinnedPlan
<1>2. QED
  BY <1>1, Invariant, PTL

\* The pinned config is written once; the state of an attempt only moves forward.
THEOREM MovesForward == Spec => ReceiptMovesForward
<1> DEFINE Forward ==
      /\ config' # config => config = NoPlan
      /\ state' # state => <<state, state'>> \in
           {<<"absent", "ready">>, <<"ready", "claimed">>,
            <<"claimed", "completed">>, <<"claimed", "failed">>}
<1>1. ASSUME IInv, [Next]_vars PROVE [Forward]_vars
  <2>1. ASSUME NEW r \in Runners, NEW p \in Plans, Open(r, p) PROVE Forward
    BY <1>1, <2>1 DEF Open, receipt, IInv, Pinned
  <2>2. ASSUME NEW r \in Runners, Claim(r) PROVE Forward
    BY <2>2 DEF Claim
  <2>3. ASSUME NEW r \in Runners, RecordFailure(r) \/ RecordCompletion(r) PROVE Forward
    BY <1>1, <2>3 DEF RecordFailure, RecordCompletion, IInv, ClaimIsExclusive, Holding
  <2>4. CASE UNCHANGED receipt
    BY <2>4 DEF receipt
  <2> QED
    BY <1>1, <2>1, <2>2, <2>3, <2>4
    DEF Next, Step, Environment, Run, CheckEligible, PollReturns, Validate, Remaining, Wake,
        ReturnIdle, Recheck, Launch, ExecuteReturns, ExecuteRaises, MarkDelivered, Raise,
        Close, Tick
<1>2. QED
  BY <1>1, Invariant, PTL DEF Spec, ReceiptMovesForward

\* A host told "completed" launched the job itself, cleanly, on the record.
THEOREM HonestOutcomes == Spec => []OutcomesAreHonest
<1>1. ASSUME IInv PROVE OutcomesAreHonest
  <2>1. DOMAIN launches = 1 .. Len(launches) /\ Len(launches) \in Nat
    BY <1>1 DEF IInv, TypeOK
  <2> QED
    BY <1>1, <2>1 DEF IInv, RowAndLaunches, OutcomesAreHonest
<1>2. QED
  BY <1>1, Invariant, PTL

-----------------------------------------------------------------------------
(* WakeRunner implements AtMostOnceJob: claiming is Claim, calling         *)
(* execute() is Effect, the two final UPDATEs are Settle, and every other  *)
(* step is a stutter, pinning the row included.                            *)

THEOREM ImplementsPromise == Spec => KeepsPromise
<1> USE DEF Promise!vars
<1>1. Init => Promise!Init
  BY DEF Init, Promise!Init
<1>2. ASSUME IInv, [Next]_vars PROVE [Promise!Next]_Promise!vars
  <2> USE DEF Promise!Next, Promise!Claim, Promise!Effect, Promise!Settle
  <2>1. ASSUME NEW r \in Runners, NEW p \in Plans, Open(r, p)
        PROVE  UNCHANGED Promise!vars
    BY <2>1 DEF Open, receipt
  <2>2. ASSUME NEW r \in Runners, Claim(r) PROVE [Promise!Next]_Promise!vars
    BY <2>2 DEF Claim
  <2>3. ASSUME NEW r \in Runners, Launch(r) PROVE Promise!Effect
    <3>1. state = "claimed" /\ launches = <<>> /\ UNCHANGED state
      BY <1>2, <2>3 DEF Launch, IInv, ClaimIsExclusive, Holding, receipt
    <3>2. Len(launches) = 0 /\ Len(launches') = 1
      BY <2>3, <3>1 DEF Launch
    <3> QED
      BY <3>1, <3>2
  <2>4. ASSUME NEW r \in Runners, RecordFailure(r) \/ RecordCompletion(r)
        PROVE  Promise!Settle
    BY <1>2, <2>4 DEF RecordFailure, RecordCompletion, IInv, ClaimIsExclusive, Holding
  <2>5. ASSUME NEW r \in Runners, \/ \E isNone \in BOOLEAN: ExecuteReturns(r, isNone)
                                  \/ ExecuteRaises(r)
        PROVE  UNCHANGED Promise!vars
    <3>1. \E exit \in Exits: Ended(exit)
      BY <2>5 DEF ExecuteReturns, ExecuteRaises, Exits
    <3>2. Len(launches') = Len(launches)
      BY <1>2, <3>1, EndedLaunches DEF IInv
    <3> QED
      BY <2>5, <3>2 DEF ExecuteReturns, ExecuteRaises, receipt
  <2>6. CASE UNCHANGED <<state, launches>>
    BY <2>6
  <2> QED
    BY <1>2, <2>1, <2>2, <2>3, <2>4, <2>5, <2>6
    DEF Next, Step, Environment, Run, CheckEligible, PollReturns, Validate, Remaining, Wake,
        ReturnIdle, Recheck, MarkDelivered, Raise, Close, Tick, receipt, vars
<1>3. QED
  BY <1>1, <1>2, Invariant, PTL DEF Spec, KeepsPromise, Promise!Spec

-----------------------------------------------------------------------------
(* Expiry.                                                                 *)

\* No time passes from the last check of the authorization to the launch.
AtOnce == now' # now => \A r \in Runners: phase[r] \notin {"claim", "launch"}

\* Whoever is past the last check is in time, and so is every launch.
InTime ==
    /\ \A r \in Runners: phase[r] \in {"claim", "launch"} => now < plan[r].expiry
    /\ NoLaunchAfterExpiry

\* Only a tick of the clock between the check and the launch makes a launch late.
LEMMA StaysInTime ==
    ASSUME IInv, InTime, [Next]_vars, [AtOnce]_vars
    PROVE  InTime'
<1>0. TypeOK
  BY DEF IInv
<1>1. CASE Tick \/ UNCHANGED vars
  <2>1. UNCHANGED <<phase, plan, launches>>
    BY <1>1 DEF Tick, vars, receipt, local
  <2>2. now' # now => \A r \in Runners: phase[r] \notin {"claim", "launch"}
    BY DEF AtOnce, vars
  <2> QED
    BY <2>1, <2>2 DEF InTime, NoLaunchAfterExpiry
<1>2. ASSUME NEW r \in Runners, Launch(r)
      PROVE  InTime'
  <2>1. /\ phase[r] = "launch" /\ phase' = [phase EXCEPT ![r] = "executing"]
        /\ launches' = Append(launches, [by |-> r, plan |-> plan[r], at |-> now, exit |-> "none"])
        /\ UNCHANGED <<plan, now>>
    BY <1>2 DEF Launch, Goto, local
  <2> DEFINE l == [by |-> r, plan |-> plan[r], at |-> now, exit |-> "none"]
  <2>2. l.at = now /\ l.plan = plan[r] /\ now < plan[r].expiry
    BY <2>1 DEF InTime
  <2>3. launches' = Append(launches, l)
    BY <2>1
  <2> HIDE DEF l
  <2>4. NoLaunchAfterExpiry'
    <3>1. launches \in Seq(LaunchType)
      BY <1>0 DEF TypeOK
    <3>2. /\ DOMAIN launches' = 1..(Len(launches) + 1) /\ DOMAIN launches = 1..Len(launches)
          /\ \A i \in 1..Len(launches): launches'[i] = launches[i]
          /\ launches'[Len(launches) + 1] = l
      BY <2>3, <3>1
    <3> QED
      BY <2>1, <2>2, <3>2 DEF InTime, NoLaunchAfterExpiry
  <2> QED
    BY <1>0, <2>1, <2>4 DEF InTime, TypeOK
<1>3. ASSUME NEW r \in Runners, NEW exit, Ended(exit), NEW to \in {"completing", "failing"}, Goto(r, to),
             UNCHANGED <<plan, now>>
      PROVE  InTime'
  <2>1. launches \in Seq(LaunchType)
    BY <1>0 DEF TypeOK
  <2>2. DOMAIN launches' = DOMAIN launches
        /\ \A i \in DOMAIN launches: launches'[i].at = launches[i].at /\ launches'[i].plan = launches[i].plan
    BY <1>3, <2>1 DEF Ended, LaunchType
  <2> QED
    BY <1>0, <1>3, <2>2 DEF InTime, NoLaunchAfterExpiry, Goto, TypeOK
<1>4. ASSUME NEW r \in Runners, ExecuteRaises(r) \/ \E isNone \in BOOLEAN: ExecuteReturns(r, isNone)
      PROVE  InTime'
  <2>1. UNCHANGED <<plan, now>>
    BY <1>4 DEF ExecuteRaises, ExecuteReturns, local
  <2>2. CASE ExecuteRaises(r)
    BY <1>3, <2>1, <2>2 DEF ExecuteRaises
  <2>3. ASSUME NEW isNone \in BOOLEAN, ExecuteReturns(r, isNone)
        PROVE  InTime'
    <3>1. (Ended("clean") /\ Goto(r, "completing")) \/ (Ended("dirty") /\ Goto(r, "failing"))
      BY <2>3 DEF ExecuteReturns
    <3> QED
      BY <1>3, <2>1, <3>1
  <2> QED
    BY <1>4, <2>2, <2>3
<1>5. ASSUME NEW r \in Runners, Recheck(r)
      PROVE  InTime'
  <2>1. \/ MayStart(r) /\ Goto(r, "claim")
        \/ Goto(r, "open")
    BY <1>5 DEF Recheck, Refuse, Return
  <2>2. UNCHANGED <<plan, now, launches>>
    BY <1>5 DEF Recheck, local
  <2> QED
    BY <1>0, <2>1, <2>2 DEF InTime, NoLaunchAfterExpiry, Goto, TypeOK, MayStart
<1>6. ASSUME NEW r \in Runners, Claim(r)
      PROVE  InTime'
  <2>1. phase[r] = "claim" /\ (Goto(r, "launch") \/ Goto(r, "open")) /\ UNCHANGED <<plan, now, launches>>
    BY <1>6 DEF Claim, Return, local
  <2> QED
    BY <1>0, <2>1 DEF InTime, NoLaunchAfterExpiry, Goto, TypeOK
<1>7. ASSUME NEW r \in Runners, NEW to \in Phases \ {"claim", "launch"}, Goto(r, to), UNCHANGED <<now, launches>>,
             \A q \in Runners \ {r}: plan'[q] = plan[q]
      PROVE  InTime'
  BY <1>0, <1>7 DEF InTime, NoLaunchAfterExpiry, Goto, TypeOK
<1>8. ASSUME NEW r \in Runners,
             \/ CheckEligible(r) \/ Validate(r) \/ Remaining(r) \/ Wake(r) \/ ReturnIdle(r)
             \/ RecordFailure(r) \/ RecordCompletion(r) \/ MarkDelivered(r) \/ Raise(r) \/ Close(r)
             \/ \E b \in Batches: PollReturns(r, b)
             \/ \E t \in Timeouts: Run(r, t)
      PROVE  InTime'
  <2>1. UNCHANGED <<plan, now, launches>>
    BY <1>8 DEF CheckEligible, Validate, Remaining, Wake, ReturnIdle, RecordFailure, RecordCompletion,
                MarkDelivered, Raise, Close, PollReturns, Run, local
  <2>2. \E to \in Phases \ {"claim", "launch"}: Goto(r, to)
    BY <1>8 DEF CheckEligible, Validate, Remaining, Wake, ReturnIdle, RecordFailure, RecordCompletion,
                MarkDelivered, Raise, Close, PollReturns, Run, Return, Refuse, Phases, Running, Scanning, Dispatching
  <2> QED
    BY <1>7, <2>1, <2>2
<1>9. ASSUME NEW r \in Runners, NEW p \in Plans, Open(r, p)
      PROVE  InTime'
  <2>1. Goto(r, "open") /\ UNCHANGED <<now, launches>> /\ plan' = [plan EXCEPT ![r] = p]
    BY <1>9 DEF Open
  <2>2. \A q \in Runners \ {r}: plan'[q] = plan[q]
    BY <1>0, <2>1 DEF TypeOK
  <2> QED
    BY <1>7, <2>1, <2>2 DEF Phases
<1> QED
  BY <1>1, <1>2, <1>4, <1>5, <1>6, <1>8, <1>9 DEF Next, Step, Environment

\* What NoLaunchAfterExpiry takes: however many processes run and however long they
\* wait, a launch is late only by the time between its own check and its start.
THEOREM LaunchesInTime == Spec /\ [][AtOnce]_vars => []NoLaunchAfterExpiry
<1>1. Init => InTime
  BY DEF Init, InTime, NoLaunchAfterExpiry
<1>2. IInv /\ InTime /\ [Next]_vars /\ [AtOnce]_vars => InTime'
  BY StaysInTime
<1>3. InTime => NoLaunchAfterExpiry
  BY DEF InTime
<1> QED
  BY <1>1, <1>2, <1>3, Invariant, PTL DEF Spec

-----------------------------------------------------------------------------
(* The way to the end.                                                     *)

\* How far each statement of run() is from its end, if it does not wait again.
Index ==
    [closed |-> 0, open |-> 0, leaving |-> 1, marking |-> 2, failing |-> 3, completing |-> 3,
     executing |-> 4, launch |-> 5, claim |-> 6, recheck |-> 7, empty |-> 7, validate |-> 8,
     polling |-> 9, eligible |-> 10, waiting |-> 11]

\* run() decides to wait: there is time left, and the authorization stands.
WaitsOn(r) == Remaining(r) /\ now < deadline[r] /\ now < plan[r].expiry

\* Every statement of a run() brings it closer to its end, or is the decision to
\* wait that only a call in time can take; no other process throws it back.
Approaches ==
    \A r \in Runners:
        /\ Index[phase[r]] \in 0..11
        /\ Step(r) \/ (\E b \in Batches: PollReturns(r, b)) =>
               Index[phase'[r]] < Index[phase[r]] \/ WaitsOn(r)
        /\ Index[phase'[r]] > Index[phase[r]] => (\E t \in Timeouts: Run(r, t)) \/ WaitsOn(r)

LEMMA Indices == \A p \in Phases: Index[p] \in 0..11
BY DEF Phases, Running, Scanning, Dispatching, Index

\* The statements of run(), one by one.
LEMMA StepApproaches ==
    ASSUME IInv, NEW r \in Runners, Step(r) \/ (\E b \in Batches: PollReturns(r, b)), ~WaitsOn(r)
    PROVE  \E p \in Phases: Goto(r, p) /\ Index[p] < Index[phase[r]]
<1>1. ASSUME NEW p \in Phases, Goto(r, p), Index[p] < Index[phase[r]]
      PROVE  \E q \in Phases: Goto(r, q) /\ Index[q] < Index[phase[r]]
  BY <1>1
<1> HIDE DEF Goto
<1> USE DEF Phases, Running, Scanning, Dispatching
<1>2. CASE Remaining(r)
  <2>1. now \in Nat /\ deadline[r] \in Nat
    BY DEF IInv, TypeOK
  <2>2. plan[r].expiry \in Nat
    <3>1. plan[r] \in Plans
      BY <1>2 DEF Remaining, IInv, Pinned, TypeOK
    <3> QED
      BY <3>1, PlansAssumption DEF PlanType
  <2>3. now >= deadline[r] \/ now >= plan[r].expiry \/ WaitsOn(r) \/ Goto(r, "leaving")
    BY <1>2, <2>1, <2>2 DEF Remaining, WaitsOn
  <2>4. Goto(r, "leaving") \/ Goto(r, "waiting")
    BY <1>2 DEF Remaining
  <2>5. Goto(r, "leaving") /\ phase[r] = "empty"
    BY <1>2, <2>3, <2>4 DEF Remaining
  <2> QED
    BY <1>1, <2>5 DEF Index
<1>3. CASE CheckEligible(r) \/ ReturnIdle(r) \/ Recheck(r)
  BY <1>1, <1>3 DEF CheckEligible, ReturnIdle, Recheck, Refuse, Return, Index
<1>4. CASE Validate(r) \/ Claim(r)
  BY <1>1, <1>4 DEF Validate, Claim, Return, Index
<1>5. CASE Wake(r) \/ Launch(r) \/ RecordFailure(r) \/ RecordCompletion(r) \/ MarkDelivered(r)
  BY <1>1, <1>5 DEF Wake, Launch, RecordFailure, RecordCompletion, MarkDelivered, Return, Index
<1>6. CASE ExecuteRaises(r) \/ \E isNone \in BOOLEAN: ExecuteReturns(r, isNone)
  <2>1. phase[r] = "executing" /\ (Goto(r, "completing") \/ Goto(r, "failing"))
    BY <1>6 DEF ExecuteRaises, ExecuteReturns
  <2> QED
    BY <1>1, <2>1 DEF Index
<1>7. CASE \E b \in Batches: PollReturns(r, b)
  BY <1>1, <1>7 DEF PollReturns, Index
<1> QED
  BY <1>2, <1>3, <1>4, <1>5, <1>6, <1>7 DEF Step

\* Every run() comes to an end once its time is over, however many processes share
\* the receipt: it takes at most eleven statements, and none of them waits.
THEOREM RunsAdvance == Spec => [][Approaches]_vars
<1>1. IInv /\ TypeOK' /\ [Next]_vars => [Approaches]_vars
  <2> SUFFICES ASSUME IInv, TypeOK', [Next]_vars PROVE [Approaches]_vars
    OBVIOUS
  <2>a. TypeOK
    BY DEF IInv
  <2>0. \A q \in Runners: /\ phase[q] \in Phases /\ phase'[q] \in Phases
                          /\ Index[phase[q]] \in 0..11 /\ Index[phase'[q]] \in 0..11
    BY <2>a, Indices DEF TypeOK
  <2>1. ASSUME NEW r \in Runners, NEW p \in Phases, Goto(r, p)
        PROVE  phase'[r] = p /\ \A q \in Runners \ {r}: phase'[q] = phase[q]
    BY <2>a, <2>1 DEF TypeOK, Goto
  <2> DEFINE moves(r) == Step(r) \/ \E b \in Batches: PollReturns(r, b)
             calls(r) == \E t \in Timeouts: Run(r, t)
  <2>2. \A q \in Runners: moves(q) => Index[phase'[q]] < Index[phase[q]] \/ WaitsOn(q)
    BY <2>1, StepApproaches
  <2>3. ASSUME NEW r \in Runners, moves(r) PROVE \A q \in Runners \ {r}: phase'[q] = phase[q]
    <3>1. CASE WaitsOn(r)
      <4>1. Goto(r, "leaving") \/ Goto(r, "waiting")
        BY <3>1 DEF WaitsOn, Remaining
      <4> QED
        BY <2>1, <4>1 DEF Phases, Running, Scanning
    <3>2. CASE ~WaitsOn(r)
      BY <2>1, <2>3, <3>2, StepApproaches
    <3> QED
      BY <3>1, <3>2
  <2>4. ASSUME NEW r \in Runners, Environment(r)
        PROVE  /\ \A q \in Runners \ {r}: phase'[q] = phase[q]
               /\ Index[phase'[r]] > Index[phase[r]] => calls(r)
    <3>1. CASE calls(r)
      BY <2>1, <3>1 DEF Run, Phases, Running, Scanning
    <3>2. CASE ~calls(r)
      <4>1. Goto(r, "open") \/ Goto(r, "closed")
        BY <2>4, <3>2 DEF Environment, Open, Raise, Close, Return
      <4>2. \A q \in Runners \ {r}: phase'[q] = phase[q]
        BY <2>1, <4>1 DEF Phases
      <4>3. phase'[r] \in {"open", "closed"}
        BY <2>1, <4>1 DEF Phases
      <4>4. Index[phase'[r]] = 0
        BY <4>3 DEF Index
      <4> QED
        BY <2>0, <4>2, <4>4
    <3> QED
      BY <3>1, <3>2
  <2>5. CASE Tick \/ UNCHANGED vars
    <3>1. phase' = phase
      BY <2>5 DEF Tick, vars
    <3>2. \A q \in Runners: ~(Index[phase'[q]] > Index[phase[q]])
      BY <2>0, <3>1
    <3> QED
      BY <2>0, <2>2, <3>2 DEF Approaches
  <2>6. \A q \in Runners: Index[phase'[q]] > Index[phase[q]] => calls(q) \/ WaitsOn(q)
    <3> SUFFICES ASSUME NEW q \in Runners, Index[phase'[q]] > Index[phase[q]]
                 PROVE  calls(q) \/ WaitsOn(q)
      OBVIOUS
    <3>1. phase'[q] # phase[q]
      BY <2>0
    <3>2. ASSUME NEW r \in Runners, moves(r) PROVE WaitsOn(q)
      <4>1. q = r
        BY <2>3, <3>1, <3>2
      <4>2. Index[phase'[q]] < Index[phase[q]] \/ WaitsOn(q)
        BY <2>2, <3>2, <4>1
      <4> QED
        BY <2>0, <4>2
    <3>3. ASSUME NEW r \in Runners, Environment(r) PROVE calls(q)
      BY <2>4, <3>1, <3>3
    <3>4. CASE Tick \/ UNCHANGED vars
      BY <3>1, <3>4 DEF Tick, vars
    <3> QED
      BY <3>2, <3>3, <3>4 DEF Next
  <2> QED
    BY <2>0, <2>2, <2>6 DEF Approaches
<1> QED
  BY <1>1, Invariant, TypeCorrect, PTL DEF Spec
=============================================================================
