------------------------- MODULE AuditRunner_proofs -------------------------
(***************************************************************************)
(* Theorems about AuditRunner for any number of probes, any limits and any *)
(* bounds.  The inductive invariant says where the ledger stands while a   *)
(* run goes on, what the loop of execute() knows of the probe, and what a  *)
(* directory holds between runs.                                           *)
(***************************************************************************)
EXTENDS AuditRunner, SequenceTheorems, TLAPS

Live == pc \notin {"idle", "exited"}
Announced == pc \in {"prepared", "loop", "select", "observe", "record"}
Reported == pc \in {"packet", "seal", "sealed"}

\* A run owns a directory that was new to it.
Directory ==
    /\ Live => Taken /\ altered = {}
    /\ pc # "exited" => exit = -1
    /\ ~Taken => files = {} /\ ledger = <<>> /\ altered = {}
    /\ pc \in {"idle", "setup", "exited"} => dispatch = 1
    /\ pc = "setup" => ledger = <<>>
    /\ altered \subseteq (files \ {Kept("directory")}) \union {Kept("ledger")}

\* The ledger up to the dispatch at hand.
LedgerIsCurrent ==
    Live =>
        /\ Announced =>
               ledger # <<>> /\ ledger[Len(ledger)] = [event |-> "started", dispatch |-> dispatch, row |-> NewRow]
        /\ ~Announced /\ ledger # <<>> =>
               ledger[Len(ledger)].event # "started" /\ ledger[Len(ledger)].dispatch = dispatch - 1
        /\ \A d \in 1..(dispatch - 1): \E i \in 1..Len(ledger): ledger[i].dispatch = d /\ ledger[i].event # "started"
        /\ \A i \in 1..Len(ledger): ledger[i].event # "started" =>
               ledger[i].dispatch < dispatch /\ ledger[i].row = rows[ledger[i].dispatch]
        /\ ledger = <<>> /\ ~Announced => dispatch = 1

\* A probe at hand is one of those declared.
InBounds == Announced \/ pc = "copied" => dispatch <= Dispatches

\* How far the report, the packet and the seal are.
EndIsCurrent ==
    /\ Live => (Reported => dispatch = Dispatches + 1)
    /\ Live /\ Kept("comparison") \in files => Reported
    /\ Live /\ Kept("seal") \in files => pc = "sealed"
    /\ Kept("seal") \in files => sealed = (files \ {Kept("seal")}) \union {Kept("ledger")}

\* What the loop knows of the probe.
WatchIsCurrent ==
    /\ pc # "record" => row = NewRow
    /\ \A s \in Streams: taken[s] <= written[s]
    /\ pc \in {"loop", "select", "observe"} =>
           /\ child # "none"
           /\ killed => status # "completed"
           /\ \A s \in Streams \ open: s \notin writers /\ taken[s] = written[s]
           /\ status = "completed" => \A s \in Streams: taken[s] <= Limit
    /\ pc = "observe" => open = {} /\ child = "exited"

IInv ==
    /\ TypeOK /\ InBounds /\ Directory /\ LedgerIsCurrent /\ EndIsCurrent /\ WatchIsCurrent
    /\ ResultIsEarned /\ NobodyLeftRunning /\ LedgerIsOrdered /\ ReportRestsOnLedger
-----------------------------------------------------------------------------

\* The files of the directory are told apart by their names.
LEMMA Names ==
    /\ \A f, g \in {"directory", "inputs", "ledger", "comparison", "packet", "seal"}: Kept(f) = Kept(g) <=> f = g
    /\ \A f \in {"directory", "inputs", "ledger", "comparison", "packet", "seal"}, d \in 1..Dispatches:
           Kept(f) \notin {<<"logs", d>>, <<"observations", d>>}
  BY DEF Kept

\* What the code writes into a row, an event or the directory is one.
LEMMA Members ==
    /\ NewRow \in Row
    /\ \A e \in {"not_run", "started", "finished"}, d \in 1..Dispatches, r \in Row:
           [event |-> e, dispatch |-> d, row |-> r] \in Event
    /\ \A x \in {"launch_error", "completed", "timeout", "output_limit"}, y \in {"unproven", "matched", "mismatch"}:
           [execution |-> x, status |-> y] \in Row
    /\ [NewRow EXCEPT !.execution = "launch_error"] \in Row
    /\ \A r \in Row: [r EXCEPT !.execution = "launch_error"] \in Row
    /\ \A f \in {"directory", "inputs", "ledger", "comparison", "packet", "seal"}: Kept(f) \in Files
    /\ \A d \in 1..Dispatches: <<"logs", d>> \in Files /\ <<"observations", d>> \in Files
  BY DEF Row, NewRow, Event, Files, Kept

\* The parts of TypeOK, by who changes them.
RunnerTypes ==
    /\ pc \in {"idle", "setup", "dispatch", "copied", "prepared", "loop", "select", "observe",
               "record", "packet", "seal", "sealed", "exited"}
    /\ now \in 0..MaxTime /\ exit \in {-1, 0, 1, 2, 9}
    /\ dispatch \in 1..(Dispatches + 1) /\ Len(rows) = dispatch - 1
    /\ row \in Row /\ rows \in Seq(Row)
    /\ InBounds
ProbeTypes ==
    /\ begun \in 0..MaxTime /\ status \in {"completed", "timeout", "output_limit"}
    /\ open \subseteq Streams /\ writers \subseteq Streams
    /\ taken \in [Streams -> 0..MaxOutput] /\ written \in [Streams -> 0..MaxOutput]
    /\ code \in {"expected", "other"} /\ alive \in BOOLEAN
    /\ results \in {"none", "invalid", "different", "expected"}
ProcessTypes == child \in {"none", "running", "exited"} /\ killed \in BOOLEAN
DiskTypes ==
    /\ ledger \in Seq(Event) /\ files \subseteq Files /\ sealed \subseteq Files
    /\ altered \subseteq Files /\ verdict \in {"none", "verified", "changed"}

\* The type invariant, part by part.
LEMMA TypeParts == TypeOK /\ InBounds <=> RunnerTypes /\ ProbeTypes /\ ProcessTypes /\ DiskTypes
  BY DEF TypeOK, RunnerTypes, ProbeTypes, ProcessTypes, DiskTypes

\* A new dispatch starts with nothing observed.
LEMMA ForgetTypes == ASSUME Forget PROVE ProbeTypes'
<1>1. [s \in Streams |-> 0] \in [Streams -> 0..MaxOutput] /\ 0 \in 0..MaxTime
  BY BoundsAssumption
<1> QED
  BY <1>1 DEF Forget, ProbeTypes

\* append_event() and the row kept keep the ledger and the rows typed.
LEMMA AppendTypes ==
    ASSUME RunnerTypes, DiskTypes, dispatch <= Dispatches
    PROVE  /\ \A e \in {"not_run", "started", "finished"}, r \in Row: append_event(e, r) => ledger' \in Seq(Event)
           /\ \A r \in Row: keep_row(r) => rows' \in Seq(Row) /\ Len(rows') = Len(rows) + 1 /\ row' \in Row
<1>1. dispatch \in 1..Dispatches
  BY CountAssumption DEF RunnerTypes
<1>2. ASSUME NEW e \in {"not_run", "started", "finished"}, NEW r \in Row, append_event(e, r)
      PROVE  ledger' \in Seq(Event)
  BY <1>1, <1>2, Members, AppendProperties DEF append_event, DiskTypes
<1>3. ASSUME NEW r \in Row, keep_row(r)
      PROVE  rows' \in Seq(Row) /\ Len(rows') = Len(rows) + 1 /\ row' \in Row
  BY <1>3, Members, AppendProperties DEF keep_row, RunnerTypes
<1> QED
  BY <1>2, <1>3

\* Any end of the process leaves its variables typed.
LEMMA ExitTypes == ASSUME NEW value \in {0, 1, 2, 9}, Exit(value) PROVE RunnerTypes' /\ ProbeTypes'
  BY ForgetTypes, CountAssumption, BoundsAssumption, Members DEF Exit, RunnerTypes, InBounds, Announced

\* Every step keeps the types, and the row count with the dispatch.
LEMMA TypeStep == TypeOK /\ InBounds /\ [Next]_vars => TypeOK' /\ InBounds'
<1> SUFFICES ASSUME RunnerTypes, ProbeTypes, ProcessTypes, DiskTypes, [Next]_vars
             PROVE  RunnerTypes' /\ ProbeTypes' /\ ProcessTypes' /\ DiskTypes'
  BY TypeParts, PTL
<1> USE CountAssumption, LimitsAssumption, BoundsAssumption, Members
<1>1. CASE Start
  <2>1. RunnerTypes'
    BY <1>1, ExitTypes DEF Start, runner, watch, process, effects, RunnerTypes, InBounds, Announced
  <2>2. ProbeTypes'
    BY <1>1, ExitTypes DEF Start, runner, watch, process, effects, ProbeTypes
  <2>3. ProcessTypes'
    BY <1>1 DEF Start, runner, watch, process, effects, ProcessTypes
  <2>4. DiskTypes'
    BY <1>1 DEF Start, runner, watch, process, effects, DiskTypes
  <2> QED
    BY <2>1, <2>2, <2>3, <2>4
<1>2. CASE SetUp
  BY <1>2 DEF SetUp, runner, watch, sandbox, process, effects, disk, RunnerTypes, InBounds, Announced, ProbeTypes, ProcessTypes, DiskTypes
<1>3. CASE Dispatch
  <2>1. RunnerTypes'
    <3>1. dispatch <= Dispatches /\ NewRow \in Row
      BY <1>3 DEF Dispatch
    <3>2. CASE keep_row(NewRow) /\ UNCHANGED <<pc, now, exit>>
      <4>1. rows' \in Seq(Row) /\ Len(rows') = Len(rows) + 1 /\ row' \in Row /\ dispatch' = dispatch + 1
        BY <3>1, <3>2, AppendTypes DEF keep_row
      <4>2. pc = "dispatch" /\ pc' = "dispatch"
        BY <1>3, <3>2 DEF Dispatch
      <4> QED
        BY <3>1, <3>2, <4>1, <4>2, SMTT(40) DEF RunnerTypes, InBounds, Announced
    <3>3. CASE pc' = "copied" /\ UNCHANGED <<rows, dispatch, row, now, exit>>
      BY <3>1, <3>3 DEF RunnerTypes, InBounds, Announced
    <3> QED
      BY <1>3, <3>2, <3>3 DEF Dispatch
  <2>2. ProbeTypes'
    BY <1>3 DEF Dispatch, runner, watch, sandbox, process, effects, disk, ProbeTypes
  <2>3. ProcessTypes'
    BY <1>3 DEF Dispatch, runner, watch, sandbox, process, effects, disk, ProcessTypes
  <2>4. DiskTypes'
    BY <1>3, AppendTypes DEF Dispatch, runner, watch, sandbox, process, effects, disk, DiskTypes, RunnerTypes, InBounds, Announced
  <2> QED
    BY <2>1, <2>2, <2>3, <2>4
<1>4. CASE Announce
  <2>1. RunnerTypes'
    BY <1>4 DEF Announce, runner, watch, sandbox, process, effects, disk, RunnerTypes, InBounds, Announced
  <2>2. ProbeTypes'
    BY <1>4 DEF Announce, runner, watch, sandbox, process, effects, disk, ProbeTypes
  <2>3. ProcessTypes'
    BY <1>4 DEF Announce, runner, watch, sandbox, process, effects, disk, ProcessTypes
  <2>4. DiskTypes'
    BY <1>4, AppendTypes DEF Announce, runner, watch, sandbox, process, effects, disk, DiskTypes, RunnerTypes, InBounds, Announced
  <2> QED
    BY <2>1, <2>2, <2>3, <2>4
<1>5. CASE Launch
  <2>1. RunnerTypes'
    BY <1>5 DEF Launch, runner, watch, sandbox, process, effects, disk, RunnerTypes, InBounds, Announced
  <2>2. ProbeTypes'
    <3>1. [s \in Streams |-> 0] \in [Streams -> 0..MaxOutput]
      OBVIOUS
    <3>2. UNCHANGED <<watch, sandbox>> \/ UNCHANGED <<begun, status, open, taken, sandbox>> \/
          /\ begun' = now /\ status' = "completed" /\ open' = Streams /\ writers' = Streams
          /\ taken' = [s \in Streams |-> 0] /\ written' = [s \in Streams |-> 0]
          /\ code' = "other" /\ alive' = TRUE /\ results' = "none"
      BY <1>5 DEF Launch
    <3> QED
      BY <3>1, <3>2 DEF watch, sandbox, process, effects, ProbeTypes, RunnerTypes
  <2>3. ProcessTypes'
    BY <1>5 DEF Launch, runner, watch, sandbox, process, effects, disk, ProcessTypes
  <2>4. DiskTypes'
    <3>1. dispatch \in 1..Dispatches
      BY <1>5 DEF Launch, RunnerTypes, InBounds, Announced
    <3> QED
      BY <1>5, <3>1 DEF Launch, DiskTypes
  <2> QED
    BY <2>1, <2>2, <2>3, <2>4
<1>6. CASE Loop
  <2>1. RunnerTypes'
    BY <1>6 DEF Loop, runner, watch, sandbox, process, effects, disk, RunnerTypes, InBounds, Announced
  <2>2. ProbeTypes'
    BY <1>6 DEF Loop, runner, watch, sandbox, process, effects, disk, ProbeTypes
  <2>3. ProcessTypes'
    BY <1>6 DEF Loop, runner, watch, sandbox, process, effects, disk, ProcessTypes
  <2>4. DiskTypes'
    BY <1>6 DEF Loop, runner, watch, sandbox, process, effects, disk, DiskTypes
  <2> QED
    BY <2>1, <2>2, <2>3, <2>4
<1>7. CASE Select
  <2>1. RunnerTypes'
    BY <1>7 DEF Select, runner, watch, sandbox, process, effects, disk, RunnerTypes, InBounds, Announced
  <2>2. ProbeTypes'
    BY <1>7 DEF Select, runner, watch, sandbox, process, effects, disk, ProbeTypes
  <2>3. ProcessTypes'
    BY <1>7 DEF Select, runner, watch, sandbox, process, effects, disk, ProcessTypes
  <2>4. DiskTypes'
    BY <1>7 DEF Select, runner, watch, sandbox, process, effects, disk, DiskTypes
  <2> QED
    BY <2>1, <2>2, <2>3, <2>4
<1>8. CASE Observe
  <2>1. RunnerTypes'
    <3>1. \A o: Judge(o) \in {"unproven", "matched", "mismatch"}
      BY DEF Judge
    <3>2. row' \in Row
      BY <1>8, <3>1 DEF Observe, ProbeTypes
    <3> QED
      BY <1>8, <3>2 DEF Observe, RunnerTypes, InBounds, Announced
  <2>2. ProbeTypes'
    BY <1>8 DEF Observe, runner, watch, sandbox, process, effects, disk, ProbeTypes
  <2>3. ProcessTypes'
    BY <1>8 DEF Observe, runner, watch, sandbox, process, effects, disk, ProcessTypes
  <2>4. DiskTypes'
    <3>1. dispatch \in 1..Dispatches
      BY <1>8 DEF Observe, RunnerTypes, InBounds, Announced
    <3> QED
      BY <1>8, <3>1 DEF Observe, DiskTypes
  <2> QED
    BY <2>1, <2>2, <2>3, <2>4
<1>9. CASE Record
  <2>1. RunnerTypes'
    BY <1>9, AppendTypes, SMTT(40) DEF Record, keep_row, runner, watch, sandbox, process, effects, disk, RunnerTypes, InBounds, Announced
  <2>2. ProbeTypes'
    BY <1>9, ForgetTypes DEF Record
  <2>3. ProcessTypes'
    BY <1>9 DEF Record, runner, watch, sandbox, process, effects, disk, ProcessTypes
  <2>4. DiskTypes'
    BY <1>9, AppendTypes DEF Record, runner, watch, sandbox, process, effects, disk, DiskTypes, RunnerTypes, InBounds, Announced
  <2> QED
    BY <2>1, <2>2, <2>3, <2>4
<1>10. CASE Report
  BY <1>10 DEF Report, runner, watch, sandbox, process, effects, disk, RunnerTypes, InBounds, Announced, ProbeTypes, ProcessTypes, DiskTypes
<1>11. CASE Packet
  BY <1>11 DEF Packet, runner, watch, sandbox, process, effects, disk, RunnerTypes, InBounds, Announced, ProbeTypes, ProcessTypes, DiskTypes
<1>12. CASE Seal
  BY <1>12 DEF Seal, Listed, runner, watch, sandbox, process, effects, disk, RunnerTypes, InBounds, Announced, ProbeTypes, ProcessTypes, DiskTypes
<1>13. CASE Return
  BY <1>13, ExitTypes DEF Return, vars, disk, process, ProcessTypes, DiskTypes
<1>14. CASE Raise
  BY <1>14, ExitTypes DEF Raise, Abandon, vars, disk, process, ProcessTypes, DiskTypes
<1>15. CASE Die
  BY <1>15, ExitTypes DEF Die, vars, disk, process, ProcessTypes, DiskTypes
<1>16. CASE Rerun
  BY <1>16 DEF Rerun, runner, watch, sandbox, process, effects, disk, RunnerTypes, InBounds, Announced, ProbeTypes, ProcessTypes, DiskTypes
<1>17. CASE Tamper
  BY <1>17 DEF Tamper, runner, watch, sandbox, process, effects, disk, RunnerTypes, InBounds, Announced, ProbeTypes, ProcessTypes, DiskTypes
<1>18. CASE Verify
  BY <1>18 DEF Verify, runner, watch, sandbox, process, effects, disk, RunnerTypes, InBounds, Announced, ProbeTypes, ProcessTypes, DiskTypes
<1>19. CASE Leave
  BY <1>19 DEF Leave, runner, watch, sandbox, process, effects, disk, RunnerTypes, InBounds, Announced, ProbeTypes, ProcessTypes, DiskTypes
<1>20. CASE ChildEnds
  BY <1>20 DEF ChildEnds, runner, watch, sandbox, process, effects, disk, RunnerTypes, InBounds, Announced, ProbeTypes, ProcessTypes, DiskTypes
<1>21. CASE NamespaceEnds
  <2>1. RunnerTypes'
    BY <1>21 DEF NamespaceEnds, runner, watch, sandbox, process, effects, disk, RunnerTypes, InBounds, Announced
  <2>2. ProbeTypes'
    BY <1>21 DEF NamespaceEnds, runner, watch, sandbox, process, effects, disk, ProbeTypes
  <2>3. ProcessTypes'
    BY <1>21 DEF NamespaceEnds, runner, watch, sandbox, process, effects, disk, ProcessTypes
  <2>4. DiskTypes'
    BY <1>21 DEF NamespaceEnds, runner, watch, sandbox, process, effects, disk, DiskTypes
  <2> QED
    BY <2>1, <2>2, <2>3, <2>4
<1>22. CASE Tick
  BY <1>22, SMTT(40) DEF Tick, runner, watch, sandbox, process, effects, disk, RunnerTypes, InBounds, Announced, ProbeTypes, ProcessTypes, DiskTypes
<1>23. ASSUME NEW s \in Streams, Write(s)
      PROVE  RunnerTypes' /\ ProbeTypes' /\ ProcessTypes' /\ DiskTypes'
  BY <1>23, SMTT(40) DEF Write, runner, watch, sandbox, process, effects, disk, RunnerTypes, InBounds, Announced, ProbeTypes, ProcessTypes, DiskTypes
<1>24. ASSUME NEW s \in Streams, Close(s)
      PROVE  RunnerTypes' /\ ProbeTypes' /\ ProcessTypes' /\ DiskTypes'
  BY <1>24, SMTT(40) DEF Close, runner, watch, sandbox, process, effects, disk, RunnerTypes, InBounds, Announced, ProbeTypes, ProcessTypes, DiskTypes
<1>25. CASE UNCHANGED vars
  BY <1>25 DEF vars, runner, watch, sandbox, process, effects, disk, RunnerTypes, InBounds, Announced, ProbeTypes, ProcessTypes, DiskTypes
<1> QED
  BY <1>1, <1>2, <1>3, <1>4, <1>5, <1>6, <1>7, <1>8, <1>9, <1>10, <1>11, <1>12, <1>13, <1>14, <1>15, <1>16, <1>17, <1>18, <1>19, <1>20, <1>21, <1>22, <1>23, <1>24, <1>25 DEF Next, Step, Sandbox

\* The probe: what the loop knows of it, and what becomes of its process.
ProbeInv == WatchIsCurrent /\ ResultIsEarned /\ NobodyLeftRunning

\* Every step keeps what the loop knows of its probe, and what it leaves behind.
LEMMA ProbeStep == TypeOK /\ ProbeInv /\ [Next]_vars => ProbeInv'
<1> SUFFICES ASSUME TypeOK, ProbeInv, [Next]_vars PROVE ProbeInv'
  OBVIOUS
<1> USE LimitsAssumption, BoundsAssumption
<1>1. CASE Start
  BY <1>1 DEF Start, Exit, Forget, vars, runner, watch, sandbox, process, effects, disk, TypeOK, ProbeInv, WatchIsCurrent, ResultIsEarned, NobodyLeftRunning, NewRow
<1>2. CASE SetUp
  BY <1>2 DEF SetUp, vars, runner, watch, sandbox, process, effects, disk, TypeOK, ProbeInv, WatchIsCurrent, ResultIsEarned, NobodyLeftRunning, NewRow
<1>3. CASE Dispatch
  BY <1>3 DEF Dispatch, append_event, keep_row, vars, runner, watch, sandbox, process, effects, disk, TypeOK, ProbeInv, WatchIsCurrent, ResultIsEarned, NobodyLeftRunning, NewRow
<1>4. CASE Announce
  BY <1>4 DEF Announce, append_event, vars, runner, watch, sandbox, process, effects, disk, TypeOK, ProbeInv, WatchIsCurrent, ResultIsEarned, NobodyLeftRunning, NewRow
<1>5. CASE Launch
  <2>1. CASE pc' = "record"
    <3>1. UNCHANGED <<taken, sandbox>> /\ row'.status = "unproven" /\ pc = "prepared"
      BY <1>5, <2>1 DEF Launch, ProbeInv, WatchIsCurrent, NewRow
    <3> QED
      BY <2>1, <3>1 DEF sandbox, process, effects, ProbeInv, WatchIsCurrent, ResultIsEarned, NobodyLeftRunning
  <2>2. CASE pc' = "loop"
    BY <1>5, <2>2 DEF Launch, TypeOK, ProbeInv, WatchIsCurrent, ResultIsEarned, NobodyLeftRunning
  <2> QED
    BY <1>5, <2>1, <2>2 DEF Launch
<1>6. CASE Loop
  BY <1>6 DEF Loop, Late, vars, runner, watch, sandbox, process, effects, disk, TypeOK, ProbeInv, WatchIsCurrent, ResultIsEarned, NobodyLeftRunning, NewRow
<1>7. CASE Select
  BY <1>7 DEF Select, Overflows, vars, runner, watch, sandbox, process, effects, disk, TypeOK, ProbeInv, WatchIsCurrent, ResultIsEarned, NobodyLeftRunning, NewRow
<1>8. CASE Observe
  BY <1>8 DEF Observe, Judge, vars, runner, watch, sandbox, process, effects, disk, TypeOK, ProbeInv, WatchIsCurrent, ResultIsEarned, NobodyLeftRunning, NewRow
<1>9. CASE Record
  BY <1>9 DEF Record, append_event, keep_row, Forget, vars, runner, watch, sandbox, process, effects, disk, TypeOK, ProbeInv, WatchIsCurrent, ResultIsEarned, NobodyLeftRunning, NewRow
<1>10. CASE Report
  BY <1>10 DEF Report, vars, runner, watch, sandbox, process, effects, disk, TypeOK, ProbeInv, WatchIsCurrent, ResultIsEarned, NobodyLeftRunning, NewRow
<1>11. CASE Packet
  BY <1>11 DEF Packet, vars, runner, watch, sandbox, process, effects, disk, TypeOK, ProbeInv, WatchIsCurrent, ResultIsEarned, NobodyLeftRunning, NewRow
<1>12. CASE Seal
  BY <1>12 DEF Seal, Listed, vars, runner, watch, sandbox, process, effects, disk, TypeOK, ProbeInv, WatchIsCurrent, ResultIsEarned, NobodyLeftRunning, NewRow
<1>13. CASE Return
  BY <1>13 DEF Return, Exit, Forget, all_expectations_met, vars, runner, watch, sandbox, process, effects, disk, TypeOK, ProbeInv, WatchIsCurrent, ResultIsEarned, NobodyLeftRunning, NewRow
<1>14. CASE Raise
  BY <1>14 DEF Raise, Exit, Forget, Abandon, vars, runner, watch, sandbox, process, effects, disk, TypeOK, ProbeInv, WatchIsCurrent, ResultIsEarned, NobodyLeftRunning, NewRow
<1>15. CASE Die
  <2>1. pc' = "exited" /\ UNCHANGED child /\ killed' = (killed \/ child = "running") /\ row' = NewRow
        /\ taken' = [s \in Streams |-> 0] /\ written' = [s \in Streams |-> 0]
    BY <1>15 DEF Die, Exit, Forget
  <2>2. NobodyLeftRunning'
    BY <2>1, Zenon DEF NobodyLeftRunning
  <2>3. WatchIsCurrent' /\ ResultIsEarned'
    BY <2>1 DEF WatchIsCurrent, ResultIsEarned
  <2> QED
    BY <2>2, <2>3 DEF ProbeInv
<1>16. CASE Rerun
  BY <1>16 DEF Rerun, vars, runner, watch, sandbox, process, effects, disk, TypeOK, ProbeInv, WatchIsCurrent, ResultIsEarned, NobodyLeftRunning, NewRow
<1>17. CASE Tamper
  BY <1>17 DEF Tamper, vars, runner, watch, sandbox, process, effects, disk, TypeOK, ProbeInv, WatchIsCurrent, ResultIsEarned, NobodyLeftRunning, NewRow
<1>18. CASE Verify
  BY <1>18 DEF Verify, vars, runner, watch, sandbox, process, effects, disk, TypeOK, ProbeInv, WatchIsCurrent, ResultIsEarned, NobodyLeftRunning, NewRow
<1>19. CASE Leave
  BY <1>19 DEF Leave, vars, runner, watch, sandbox, process, effects, disk, TypeOK, ProbeInv, WatchIsCurrent, ResultIsEarned, NobodyLeftRunning, NewRow
<1>20. CASE ChildEnds
  BY <1>20 DEF ChildEnds, vars, runner, watch, sandbox, process, effects, disk, TypeOK, ProbeInv, WatchIsCurrent, ResultIsEarned, NobodyLeftRunning, NewRow
<1>21. CASE NamespaceEnds
  BY <1>21 DEF NamespaceEnds, vars, runner, watch, sandbox, process, effects, disk, TypeOK, ProbeInv, WatchIsCurrent, ResultIsEarned, NobodyLeftRunning, NewRow
<1>22. CASE Tick
  BY <1>22 DEF Tick, vars, runner, watch, sandbox, process, effects, disk, TypeOK, ProbeInv, WatchIsCurrent, ResultIsEarned, NobodyLeftRunning, NewRow
<1>23. ASSUME NEW s \in Streams, Write(s) PROVE ProbeInv'
  BY <1>23 DEF Write, vars, runner, watch, sandbox, process, effects, disk, TypeOK, ProbeInv, WatchIsCurrent, ResultIsEarned, NobodyLeftRunning, NewRow
<1>24. ASSUME NEW s \in Streams, Close(s) PROVE ProbeInv'
  BY <1>24 DEF Close, vars, runner, watch, sandbox, process, effects, disk, TypeOK, ProbeInv, WatchIsCurrent, ResultIsEarned, NobodyLeftRunning, NewRow
<1>25. CASE UNCHANGED vars
  BY <1>25 DEF vars, runner, watch, sandbox, process, effects, disk, TypeOK, ProbeInv, WatchIsCurrent, ResultIsEarned, NobodyLeftRunning, NewRow
<1> QED
  BY <1>1, <1>2, <1>3, <1>4, <1>5, <1>6, <1>7, <1>8, <1>9, <1>10, <1>11, <1>12, <1>13, <1>14, <1>15, <1>16, <1>17, <1>18, <1>19, <1>20, <1>21, <1>22, <1>23, <1>24, <1>25 DEF Next, Step, Sandbox

\* The directory: the ledger and the files that rest on it.
LedgerInv == Directory /\ LedgerIsCurrent /\ EndIsCurrent /\ LedgerIsOrdered /\ ReportRestsOnLedger

\* append_event() adds one event behind the others and touches none of them.
LEMMA Appended ==
    ASSUME TypeOK, dispatch <= Dispatches, NEW e \in {"not_run", "started", "finished"}, NEW r \in Row, append_event(e, r)
    PROVE  /\ Len(ledger) \in Nat /\ Len(ledger') = Len(ledger) + 1 /\ ledger' # <<>>
           /\ ledger'[Len(ledger) + 1] = [event |-> e, dispatch |-> dispatch, row |-> r]
           /\ \A i \in 1..Len(ledger): ledger'[i] = ledger[i]
<1>1. ledger \in Seq(Event) /\ [event |-> e, dispatch |-> dispatch, row |-> r] \in Event
  BY Members, CountAssumption DEF TypeOK
<1> QED
  BY <1>1, AppendProperties DEF append_event

\* The row of a dispatch goes behind those of the dispatches before it.
LEMMA RowKept ==
    ASSUME TypeOK, NEW r \in Row, keep_row(r)
    PROVE  /\ dispatch' = dispatch + 1 /\ rows'[dispatch] = r
           /\ \A d \in 1..(dispatch - 1): rows'[d] = rows[d]
  BY AppendProperties DEF keep_row, TypeOK

\* One dispatch ends with one event and one row.
LEMMA EndStep ==
    ASSUME TypeOK, InBounds, LedgerInv, Live, dispatch <= Dispatches, Live', ~Announced', pc' # "setup", pc' # "idle", ~Reported',
           ~Reported, pc # "copied",
           NEW e \in {"not_run", "finished"}, NEW r \in Row, append_event(e, r), keep_row(r),
           Announced <=> e = "finished", UNCHANGED <<files, sealed, altered, exit>>
    PROVE  LedgerInv'
<1> DEFINE n == Len(ledger)
<1>a. /\ ledger' # <<>> /\ Len(ledger') = n + 1 /\ n \in Nat
      /\ ledger'[n + 1] = [event |-> e, dispatch |-> dispatch, row |-> r]
      /\ \A i \in 1..n: ledger'[i] = ledger[i]
  BY Appended
<1>b. dispatch' = dispatch + 1 /\ rows'[dispatch] = r /\ \A d \in 1..(dispatch - 1): rows'[d] = rows[d]
  BY RowKept
<1>c. dispatch \in Nat /\ (ledger = <<>> <=> n = 0) /\ (\A i \in 1..n: ledger[i] \in Event)
  BY DEF TypeOK
<1>1. Directory'
  BY <1>a DEF LedgerInv, Directory, Live, Taken, Announced
<1>2. LedgerIsCurrent'
  <2>3. /\ \A d \in 1..(dispatch - 1): \E i \in 1..n: ledger[i].dispatch = d /\ ledger[i].event # "started"
        /\ \A i \in 1..n: ledger[i].event # "started" =>
               ledger[i].dispatch < dispatch /\ ledger[i].row = rows[ledger[i].dispatch]
    BY DEF LedgerInv, LedgerIsCurrent
  <2>4. LedgerIsCurrent' <=>
            /\ ledger'[n + 1].event # "started" /\ ledger'[n + 1].dispatch = dispatch' - 1
            /\ \A d \in 1..(dispatch' - 1): \E i \in 1..(n + 1): ledger'[i].dispatch = d /\ ledger'[i].event # "started"
            /\ \A i \in 1..(n + 1): ledger'[i].event # "started" =>
                   ledger'[i].dispatch < dispatch' /\ ledger'[i].row = rows'[ledger'[i].dispatch]
    BY <1>a DEF LedgerIsCurrent
  <2> HIDE DEF n
  <2>5. \A i \in 1..n: ledger[i].dispatch \in Nat \ {0}
    BY <1>c DEF Event
  <2>6. \A d \in 1..(dispatch' - 1): \E i \in 1..(n + 1): ledger'[i].dispatch = d /\ ledger'[i].event # "started"
    <3> TAKE d \in 1..(dispatch' - 1)
    <3>1. CASE d = dispatch
      BY <3>1, <1>a
    <3>2. CASE d \in 1..(dispatch - 1)
      <4>1. PICK i \in 1..n: ledger[i].dispatch = d /\ ledger[i].event # "started"
        BY <3>2, <2>3
      <4>2. i \in 1..(n + 1) /\ ledger'[i] = ledger[i]
        BY <1>a
      <4> QED
        BY <4>1, <4>2
    <3> QED
      BY <3>1, <3>2, <1>b, <1>c
  <2>7. \A i \in 1..(n + 1): ledger'[i].event # "started" =>
            ledger'[i].dispatch < dispatch' /\ ledger'[i].row = rows'[ledger'[i].dispatch]
    <3> TAKE i \in 1..(n + 1)
    <3>1. CASE i = n + 1
      BY <3>1, <1>a, <1>b, <1>c
    <3>2. CASE i \in 1..n
      <4>1. ledger'[i] = ledger[i]
        BY <3>2, <1>a
      <4>2. ledger[i].event # "started" => ledger[i].dispatch \in 1..(dispatch - 1) /\ ledger[i].row = rows[ledger[i].dispatch]
        BY <3>2, <2>3, <2>5, <1>c
      <4> QED
        BY <4>1, <4>2, <1>b, <1>c
    <3> QED
      BY <3>1, <3>2, <1>a
  <2> QED
    <3>1. ledger'[n + 1].event = e /\ ledger'[n + 1].dispatch = dispatch /\ e # "started"
      BY <1>a
    <3>2. dispatch = dispatch' - 1
      BY <1>b, <1>c
    <3> QED
      BY <2>4, <2>6, <2>7, <3>1, <3>2
<1>3. EndIsCurrent'
  BY <1>a, <1>b DEF LedgerInv, EndIsCurrent, Live, Reported
<1>4. LedgerIsOrdered'
  <2>1. IF Announced
        THEN ledger # <<>> /\ ledger[Len(ledger)] = [event |-> "started", dispatch |-> dispatch, row |-> NewRow]
        ELSE ledger # <<>> => ledger[Len(ledger)].event # "started" /\ ledger[Len(ledger)].dispatch = dispatch - 1
    BY DEF LedgerInv, LedgerIsCurrent
  <2> QED
    BY <2>1, <1>a, <1>c, SMTT(40) DEF LedgerInv, LedgerIsOrdered
<1>5. ReportRestsOnLedger'
  BY <1>a DEF LedgerInv, ReportRestsOnLedger, EndIsCurrent, Directory, Live
<1> QED
  BY <1>1, <1>2, <1>3, <1>4, <1>5 DEF LedgerInv

\* Every step keeps ledger, rows, report and exit code in line.
LEMMA LedgerStep == TypeOK /\ InBounds /\ LedgerInv /\ [Next]_vars => LedgerInv'
<1> SUFFICES ASSUME TypeOK, InBounds, LedgerInv, [Next]_vars PROVE LedgerInv'
  OBVIOUS
<1> USE CountAssumption, Names
<1>1. CASE Start
  <2>1. CASE Exit(2) /\ UNCHANGED files
    BY <1>1, <2>1 DEF Start, Exit, TypeOK, LedgerInv, Directory, EndIsCurrent, LedgerIsOrdered, ReportRestsOnLedger, LedgerIsCurrent, Live, Announced, Reported, Taken
  <2>2. CASE ~Taken /\ files' = files \union {Kept("directory")} /\ pc' = "setup" /\ UNCHANGED <<now, runner, exit, effects>>
    <3>1. UNCHANGED <<ledger, sealed, altered, rows, dispatch, exit>> /\ ledger = <<>> /\ files' = {Kept("directory")} /\ altered = {}
      BY <1>1, <2>2 DEF Start, runner, LedgerInv, Directory
    <3>2. dispatch = 1 /\ exit = -1 /\ Len(ledger) = 0
      BY <1>1, <3>1 DEF Start, LedgerInv, Directory
    <3> QED
      BY <2>2, <3>1, <3>2 DEF LedgerInv, Directory, EndIsCurrent, LedgerIsOrdered, ReportRestsOnLedger, LedgerIsCurrent, Live, Announced, Reported, Taken
  <2> QED
    BY <1>1, <2>1, <2>2 DEF Start
<1>2. CASE SetUp
  BY <1>2 DEF SetUp, vars, runner, watch, sandbox, process, effects, disk, TypeOK, LedgerInv, Directory, LedgerIsCurrent, EndIsCurrent, LedgerIsOrdered, ReportRestsOnLedger, InBounds, Live, Announced, Reported, Taken, NewRow, Event
<1>3. CASE Dispatch
  <2>1. CASE now >= RunTime
    <3>1. append_event("not_run", NewRow) /\ keep_row(NewRow) /\ UNCHANGED <<pc, files, sealed, altered, exit>>
      BY <1>3, <2>1, LimitsAssumption DEF Dispatch, TypeOK
    <3>2. pc = "dispatch" /\ dispatch <= Dispatches
      BY <1>3 DEF Dispatch
    <3> QED
      BY <3>1, <3>2, EndStep, Members DEF Live, Announced, Reported
  <2>2. CASE now < RunTime
    <3>1. pc = "dispatch" /\ pc' = "copied" /\ UNCHANGED <<ledger, rows, dispatch, files, sealed, altered, exit>>
      BY <1>3, <2>2, LimitsAssumption DEF Dispatch, TypeOK
    <3> QED
      BY <3>1 DEF LedgerInv, Directory, EndIsCurrent, LedgerIsOrdered, ReportRestsOnLedger, LedgerIsCurrent, Live, Announced, Reported, Taken
  <2> QED
    BY <2>1, <2>2, LimitsAssumption DEF TypeOK
<1>4. CASE Announce
  <2>1. append_event("started", NewRow) /\ UNCHANGED <<files, sealed, altered, exit, dispatch, rows>>
    BY <1>4 DEF Announce, runner
  <2>2. pc = "copied" /\ pc' = "prepared" /\ dispatch <= Dispatches
    BY <1>4 DEF Announce, InBounds
  <2>3. Directory'
    BY <2>1, <2>2, Appended DEF LedgerInv, Directory, Live, Taken
  <2>3a. /\ Len(ledger) \in Nat /\ Len(ledger') = Len(ledger) + 1 /\ ledger' # <<>>
         /\ ledger'[Len(ledger) + 1] = [event |-> "started", dispatch |-> dispatch, row |-> NewRow]
         /\ \A i \in 1..Len(ledger): ledger'[i] = ledger[i]
    BY <2>1, <2>2, Appended, Members
  <2>4. LedgerIsCurrent'
    <3>1. /\ \A d \in 1..(dispatch - 1): \E i \in 1..Len(ledger): ledger[i].dispatch = d /\ ledger[i].event # "started"
          /\ \A i \in 1..Len(ledger): ledger[i].event # "started" =>
                 ledger[i].dispatch < dispatch /\ ledger[i].row = rows[ledger[i].dispatch]
      BY <2>2 DEF LedgerInv, LedgerIsCurrent, Live
    <3> QED
      BY <2>1, <2>2, <2>3a, <3>1 DEF LedgerIsCurrent, Live, Announced
  <2>5. EndIsCurrent'
    BY <2>1, <2>2 DEF LedgerInv, EndIsCurrent, Live, Reported, Announced
  <2>6. LedgerIsOrdered'
    <3>1. IF ledger = <<>> THEN dispatch = 1
          ELSE ledger[Len(ledger)].event # "started" /\ ledger[Len(ledger)].dispatch = dispatch - 1
      BY <2>2 DEF LedgerInv, LedgerIsCurrent, Live, Announced
    <3>2. dispatch \in Nat /\ (ledger = <<>> <=> Len(ledger) = 0)
      BY DEF TypeOK
    <3> QED
      BY <2>3a, <3>1, <3>2, SMTT(40) DEF LedgerInv, LedgerIsOrdered
  <2>7. ReportRestsOnLedger'
    BY <2>1, <2>2, Appended DEF LedgerInv, ReportRestsOnLedger, EndIsCurrent, Directory, Live, Reported
  <2> QED
    BY <2>3, <2>4, <2>5, <2>6, <2>7 DEF LedgerInv
<1>5. CASE Launch
  BY <1>5 DEF Launch, Allowance, vars, runner, watch, sandbox, process, effects, disk, TypeOK, LedgerInv, Directory, LedgerIsCurrent, EndIsCurrent, LedgerIsOrdered, ReportRestsOnLedger, InBounds, Live, Announced, Reported, Taken, NewRow, Event
<1>6. CASE Loop
  BY <1>6 DEF Loop, Late, vars, runner, watch, sandbox, process, effects, disk, TypeOK, LedgerInv, Directory, LedgerIsCurrent, EndIsCurrent, LedgerIsOrdered, ReportRestsOnLedger, InBounds, Live, Announced, Reported, Taken, NewRow, Event
<1>7. CASE Select
  BY <1>7 DEF Select, Overflows, vars, runner, watch, sandbox, process, effects, disk, TypeOK, LedgerInv, Directory, LedgerIsCurrent, EndIsCurrent, LedgerIsOrdered, ReportRestsOnLedger, InBounds, Live, Announced, Reported, Taken, NewRow, Event
<1>8. CASE Observe
  BY <1>8 DEF Observe, Judge, vars, runner, watch, sandbox, process, effects, disk, TypeOK, LedgerInv, Directory, LedgerIsCurrent, EndIsCurrent, LedgerIsOrdered, ReportRestsOnLedger, InBounds, Live, Announced, Reported, Taken, NewRow, Event
<1>9. CASE Record
  <2>1. append_event("finished", row) /\ keep_row(row) /\ UNCHANGED <<files, sealed, altered, exit>>
    BY <1>9 DEF Record
  <2>2. pc = "record" /\ pc' = "dispatch" /\ dispatch <= Dispatches
    BY <1>9 DEF Record, InBounds, Announced
  <2> QED
    BY <2>1, <2>2, EndStep DEF Live, Announced, Reported, TypeOK
<1>10. CASE Report
  <2>1. UNCHANGED <<ledger, rows, dispatch, exit, sealed, altered>> /\ files' = files \union {Kept("comparison")}
    BY <1>10 DEF Report, runner
  <2>2. pc = "dispatch" /\ pc' = "packet" /\ dispatch = Dispatches + 1
    BY <1>10 DEF Report, TypeOK
  <2>3. Directory'
    BY <2>1, <2>2 DEF LedgerInv, Directory, Live, Taken
  <2>4. LedgerIsCurrent'
    BY <2>1, <2>2 DEF LedgerInv, LedgerIsCurrent, Live, Announced
  <2>5. EndIsCurrent'
    BY <2>1, <2>2 DEF LedgerInv, EndIsCurrent, Live, Reported, Announced
  <2>6. LedgerIsOrdered'
    BY <2>1 DEF LedgerInv, LedgerIsOrdered
  <2>7. ReportRestsOnLedger'
    BY <2>1, <2>2 DEF LedgerInv, ReportRestsOnLedger, LedgerIsCurrent, Directory, Live
  <2> QED
    BY <2>3, <2>4, <2>5, <2>6, <2>7 DEF LedgerInv
<1>11. CASE Packet
  BY <1>11 DEF Packet, vars, runner, watch, sandbox, process, effects, disk, TypeOK, LedgerInv, Directory, LedgerIsCurrent, EndIsCurrent, LedgerIsOrdered, ReportRestsOnLedger, InBounds, Live, Announced, Reported, Taken, NewRow, Event
<1>12. CASE Seal
  BY <1>12 DEF Seal, Listed, vars, runner, watch, sandbox, process, effects, disk, TypeOK, LedgerInv, Directory, LedgerIsCurrent, EndIsCurrent, LedgerIsOrdered, ReportRestsOnLedger, InBounds, Live, Announced, Reported, Taken, NewRow, Event
<1>13. CASE Return
  <2>1. UNCHANGED disk /\ UNCHANGED altered /\ pc' = "exited" /\ dispatch' = 1 /\ pc = "sealed"
        /\ exit' = (IF all_expectations_met THEN 0 ELSE 1)
    BY <1>13 DEF Return, Exit
  <2>2. Directory' /\ LedgerIsCurrent' /\ EndIsCurrent' /\ LedgerIsOrdered'
    BY <2>1 DEF disk, LedgerInv, Directory, LedgerIsCurrent, EndIsCurrent, LedgerIsOrdered, Live, Announced, Reported, Taken
  <2>3. exit' = 0 => \A i \in 1..Len(ledger): ledger[i].event # "started" => ledger[i].row.status = "matched"
    <3>1. \A i \in 1..Len(ledger): ledger[i].event # "started" => ledger[i].dispatch \in 1..Len(rows) /\ ledger[i].row = rows[ledger[i].dispatch]
      <4>1. \A i \in 1..Len(ledger): ledger[i] \in Event
        BY DEF TypeOK
      <4>2. \A i \in 1..Len(ledger): ledger[i].dispatch \in Nat \ {0}
        BY <4>1 DEF Event
      <4>3. dispatch \in Nat /\ Len(rows) = dispatch - 1
        BY DEF TypeOK
      <4> QED
        BY <2>1, <4>2, <4>3 DEF LedgerInv, LedgerIsCurrent, Live
    <3> QED
      BY <2>1, <3>1 DEF all_expectations_met
  <2>4. ReportRestsOnLedger'
    BY <2>1, <2>3 DEF LedgerInv, ReportRestsOnLedger, disk
  <2> QED
    BY <2>2, <2>4 DEF LedgerInv
<1>14. CASE Raise
  BY <1>14 DEF Raise, Exit, Forget, Abandon, vars, runner, watch, sandbox, process, effects, disk, TypeOK, LedgerInv, Directory, LedgerIsCurrent, EndIsCurrent, LedgerIsOrdered, ReportRestsOnLedger, InBounds, Live, Announced, Reported, Taken, NewRow, Event
<1>15. CASE Die
  BY <1>15 DEF Die, Exit, Forget, vars, runner, watch, sandbox, process, effects, disk, TypeOK, LedgerInv, Directory, LedgerIsCurrent, EndIsCurrent, LedgerIsOrdered, ReportRestsOnLedger, InBounds, Live, Announced, Reported, Taken, NewRow, Event
<1>16. CASE Rerun
  BY <1>16 DEF Rerun, vars, runner, watch, sandbox, process, effects, disk, TypeOK, LedgerInv, Directory, LedgerIsCurrent, EndIsCurrent, LedgerIsOrdered, ReportRestsOnLedger, InBounds, Live, Announced, Reported, Taken, NewRow, Event
<1>17. CASE Tamper
  BY <1>17 DEF Tamper, vars, runner, watch, sandbox, process, effects, disk, TypeOK, LedgerInv, Directory, LedgerIsCurrent, EndIsCurrent, LedgerIsOrdered, ReportRestsOnLedger, InBounds, Live, Announced, Reported, Taken, NewRow, Event
<1>18. CASE Verify
  BY <1>18 DEF Verify, vars, runner, watch, sandbox, process, effects, disk, TypeOK, LedgerInv, Directory, LedgerIsCurrent, EndIsCurrent, LedgerIsOrdered, ReportRestsOnLedger, InBounds, Live, Announced, Reported, Taken, NewRow, Event
<1>19. CASE Leave
  BY <1>19 DEF Leave, vars, runner, watch, sandbox, process, effects, disk, TypeOK, LedgerInv, Directory, LedgerIsCurrent, EndIsCurrent, LedgerIsOrdered, ReportRestsOnLedger, InBounds, Live, Announced, Reported, Taken, NewRow, Event
<1>20. CASE ChildEnds
  BY <1>20 DEF ChildEnds, vars, runner, watch, sandbox, process, effects, disk, TypeOK, LedgerInv, Directory, LedgerIsCurrent, EndIsCurrent, LedgerIsOrdered, ReportRestsOnLedger, InBounds, Live, Announced, Reported, Taken, NewRow, Event
<1>21. CASE NamespaceEnds
  BY <1>21 DEF NamespaceEnds, vars, runner, watch, sandbox, process, effects, disk, TypeOK, LedgerInv, Directory, LedgerIsCurrent, EndIsCurrent, LedgerIsOrdered, ReportRestsOnLedger, InBounds, Live, Announced, Reported, Taken, NewRow, Event
<1>22. CASE Tick
  BY <1>22 DEF Tick, vars, runner, watch, sandbox, process, effects, disk, TypeOK, LedgerInv, Directory, LedgerIsCurrent, EndIsCurrent, LedgerIsOrdered, ReportRestsOnLedger, InBounds, Live, Announced, Reported, Taken, NewRow, Event
<1>23. ASSUME NEW s \in Streams, Write(s) PROVE LedgerInv'
  BY <1>23 DEF Write, vars, runner, watch, sandbox, process, effects, disk, TypeOK, LedgerInv, Directory, LedgerIsCurrent, EndIsCurrent, LedgerIsOrdered, ReportRestsOnLedger, InBounds, Live, Announced, Reported, Taken, NewRow, Event
<1>24. ASSUME NEW s \in Streams, Close(s) PROVE LedgerInv'
  BY <1>24 DEF Close, vars, runner, watch, sandbox, process, effects, disk, TypeOK, LedgerInv, Directory, LedgerIsCurrent, EndIsCurrent, LedgerIsOrdered, ReportRestsOnLedger, InBounds, Live, Announced, Reported, Taken, NewRow, Event
<1>25. CASE UNCHANGED vars
  BY <1>25 DEF vars, runner, watch, sandbox, process, effects, disk, TypeOK, LedgerInv, Directory, LedgerIsCurrent, EndIsCurrent, LedgerIsOrdered, ReportRestsOnLedger, InBounds, Live, Announced, Reported, Taken, NewRow, Event
<1> QED
  BY <1>1, <1>2, <1>3, <1>4, <1>5, <1>6, <1>7, <1>8, <1>9, <1>10, <1>11, <1>12, <1>13, <1>14, <1>15, <1>16, <1>17, <1>18, <1>19, <1>20, <1>21, <1>22, <1>23, <1>24, <1>25 DEF Next, Step, Sandbox

-----------------------------------------------------------------------------

\* The inductive invariant: where the ledger, the report and the probe stand.
THEOREM Invariant == Spec => []IInv
<1>1. Init => IInv
  <2> SUFFICES ASSUME Init PROVE IInv
    OBVIOUS
  <2> USE CountAssumption, LimitsAssumption, BoundsAssumption
  <2>1. Len(ledger) = 0 /\ Len(rows) = 0 /\ rows \in Seq(Row) /\ ledger \in Seq(Event)
    BY DEF Init
  <2>2. TypeOK /\ InBounds
    <3>1. [s \in Streams |-> 0] \in [Streams -> 0..MaxOutput] /\ 0 \in 0..MaxTime
      OBVIOUS
    <3>2. RunnerTypes
      BY <2>1, Members DEF Init, RunnerTypes, InBounds, Announced
    <3>3. ProbeTypes
      BY <3>1 DEF Init, ProbeTypes
    <3>4. ProcessTypes /\ DiskTypes
      BY <2>1 DEF Init, ProcessTypes, DiskTypes
    <3> QED
      BY <3>2, <3>3, <3>4, TypeParts
  <2>3. Directory /\ LedgerIsCurrent /\ EndIsCurrent /\ LedgerIsOrdered /\ ReportRestsOnLedger
    BY <2>1 DEF Init, Directory, LedgerIsCurrent, EndIsCurrent, LedgerIsOrdered, ReportRestsOnLedger, Live, Announced, Reported, Taken
  <2>4. WatchIsCurrent /\ ResultIsEarned /\ NobodyLeftRunning
    BY DEF Init, WatchIsCurrent, ResultIsEarned, NobodyLeftRunning
  <2> QED
    BY <2>2, <2>3, <2>4 DEF IInv
<1>2. IInv /\ [Next]_vars => IInv'
  BY TypeStep, ProbeStep, LedgerStep DEF IInv, ProbeInv, LedgerInv
<1> QED
  BY <1>1, <1>2, PTL DEF Spec

\* Every variable keeps its type, and a row is kept for each dispatch passed.
THEOREM TypeCorrect == Spec => []TypeOK
  BY Invariant, PTL DEF IInv

\* No row says "matched" or "mismatch" of a probe that was killed, cut or late.
THEOREM ResultsAreEarned == Spec => []ResultIsEarned
  BY Invariant, PTL DEF IInv

\* No path out of execute() leaves a probe running that nobody has told to end.
THEOREM NobodyIsLeft == Spec => []NobodyLeftRunning
  BY Invariant, PTL DEF IInv

\* Whatever a run dies of, its ledger is a chain of whole dispatches with at most
\* one open end.
THEOREM LedgerInOrder == Spec => []LedgerIsOrdered
  BY Invariant, PTL DEF IInv

\* A report covers every dispatch, and success means that all of them matched.
THEOREM ReportFollowsLedger == Spec => []ReportRestsOnLedger
  BY Invariant, PTL DEF IInv

\* A sequence is a prefix of itself and of itself with one more.
LEMMA PrefixGrows == ASSUME NEW S, NEW s \in Seq(S), NEW x \in S PROVE IsPrefix(s, s) /\ IsPrefix(s, Append(s, x))
<1>1. Len(s) \in Nat /\ Append(s, x) \in Seq(S) /\ Len(Append(s, x)) = Len(s) + 1
      /\ \A i \in 1..Len(s): Append(s, x)[i] = s[i]
  BY AppendProperties
<1>2. SubSeq(Append(s, x), 1, Len(s)) = [i \in 1..Len(s) |-> Append(s, x)[i]] /\ SubSeq(s, 1, Len(s)) = [i \in 1..Len(s) |-> s[i]]
  OBVIOUS
<1> QED
  BY <1>1, <1>2 DEF IsPrefix

\* Evidence is only added, and sealed evidence stays as it is.
THEOREM SealedStays == Spec => SealedIsFinal
<1>1. IInv /\ [Next]_vars => [OnlyGrows]_disk
  <2> SUFFICES ASSUME IInv, Next, disk' # disk PROVE OnlyGrows
    BY DEF vars
  <2>1. Start \/ SetUp \/ Dispatch \/ Announce \/ Launch \/ Observe \/ Record \/ Report \/ Packet \/ Seal
    BY DEF Next, Step, Sandbox, Loop, Select, Return, Raise, Die, Rerun, Tamper, Verify, Leave, Write, Close,
           ChildEnds, NamespaceEnds, Tick
  <2>2. files \subseteq files'
    BY <2>1 DEF Start, SetUp, Dispatch, Announce, Launch, Observe, Record, Report, Packet, Seal
  <2>3. Kept("seal") \notin files
    <3>1. pc # "sealed"
      BY <2>1 DEF Start, SetUp, Dispatch, Announce, Launch, Observe, Record, Report, Packet, Seal
    <3>2. CASE pc = "idle"
      <4>1. ~Taken
        BY <2>1, <3>2 DEF Start, SetUp, Dispatch, Announce, Launch, Observe, Record, Report, Packet, Seal, disk
      <4> QED
        BY <4>1 DEF IInv, Directory
    <3>3. CASE pc # "idle"
      <4>1. Live
        BY <2>1, <3>3 DEF Start, SetUp, Dispatch, Announce, Launch, Observe, Record, Report, Packet, Seal, Live
      <4> QED
        BY <3>1, <4>1 DEF IInv, EndIsCurrent
    <3> QED
      BY <3>2, <3>3
  <2>4. IsPrefix(ledger, ledger')
    <3>1. UNCHANGED ledger \/ \E e \in {"not_run", "started", "finished"}, r \in Row: append_event(e, r) /\ dispatch \in 1..Dispatches
      BY <2>1, Members DEF Start, SetUp, Dispatch, Announce, Launch, Observe, Record, Report, Packet, Seal, runner,
         IInv, TypeOK, InBounds, Announced
    <3>2. ledger \in Seq(Event) /\ <<>> \in Seq(Event)
      BY DEF IInv, TypeOK
    <3>3. CASE UNCHANGED ledger
      <4>1. NewRow \in Row /\ 1 \in 1..Dispatches
        BY Members, CountAssumption
      <4> QED
        BY <3>2, <3>3, <4>1, PrefixGrows, Members
    <3>4. CASE \E e \in {"not_run", "started", "finished"}, r \in Row: append_event(e, r) /\ dispatch \in 1..Dispatches
      BY <3>2, <3>4, PrefixGrows, Members DEF append_event
    <3> QED
      BY <3>1, <3>3, <3>4
  <2> QED
    BY <2>2, <2>3, <2>4 DEF OnlyGrows
<1> QED
  BY <1>1, Invariant, PTL DEF Spec, SealedIsFinal

\* verify() accepts only evidence nobody has touched since the seal.
THEOREM VerifiedStays == Spec => VerifiedIsWhole
<1>1. IInv /\ [Next]_vars => [verdict' = "verified" => altered = {}]_verdict
  <2> SUFFICES ASSUME IInv, Next, verdict' = "verified", verdict' # verdict PROVE altered = {}
    BY DEF vars
  <2>1. Verify
    BY DEF Next, Step, Sandbox, Start, SetUp, Dispatch, Announce, Launch, Loop, Select, Observe, Record, Report, Packet,
           Seal, Return, Raise, Die, Rerun, Tamper, Leave, Write, Close, ChildEnds, NamespaceEnds, Tick
  <2>2. Intact /\ Kept("seal") \in files
    BY <2>1 DEF Verify
  <2> QED
    BY <2>2 DEF Intact, IInv, Directory, EndIsCurrent
<1> QED
  BY <1>1, Invariant, PTL DEF Spec, VerifiedIsWhole
-----------------------------------------------------------------------------
(* The way to the end.                                                     *)

\* How far each statement is from the end of its dispatch, or of the run.
Index ==
    [idle |-> 12, setup |-> 11, dispatch |-> 10, copied |-> 9, prepared |-> 8,
     loop |-> 3, select |-> 2, observe |-> 2, record |-> 1,
     packet |-> 3, seal |-> 2, sealed |-> 1, exited |-> 0]

\* How many turns of the selector the pipes still take when nobody writes: one to
\* read what is in them, one to find their ends.
Turns ==
    IF open = {} THEN 0 ELSE IF \A s \in open: taken[s] = written[s] THEN 1 ELSE 2

\* At most so many statements are left, when the probes leave the runner alone.
Left ==
    Index[pc] + (IF pc \in {"loop", "select"} THEN 2 * Turns ELSE 0)
              + (IF pc \in {"packet", "seal", "sealed", "exited"} THEN 0
                 ELSE 10 * (Dispatches + 1 - dispatch))

\* The selector looks at pipes somebody can still write to, or at none.
Waiting == pc = "select" /\ (open = {} \/ writers # {})

\* Every statement brings the run closer to its end but for one: a look of the
\* selector while the probe itself goes on.
Approaches ==
    /\ Left \in 0..(10 * Dispatches + 12)
    /\ Step /\ ~Waiting => Left' < Left
    /\ Left' > Left => Rerun \/ Waiting \/ \E s \in Streams: Write(s)

\* The numbers add up, whatever the dispatch and the state of the pipes.
LEMMA Sums ==
    ASSUME NEW p \in DOMAIN Index, NEW d \in 1..(Dispatches + 1), NEW turns \in 0..2
    PROVE  Index[p] + (IF p \in {"loop", "select"} THEN 2 * turns ELSE 0)
                    + (IF p \in {"packet", "seal", "sealed", "exited"} THEN 0 ELSE 10 * (Dispatches + 1 - d))
               \in 0..(10 * Dispatches + 12)
<1>1. Dispatches \in Nat
  BY CountAssumption
<1>2. Index[p] \in 0..12 /\ (p \in {"loop", "select"} => Index[p] \in 0..3)
  BY DEF Index
<1> HIDE DEF Index
<1> QED
  BY <1>1, <1>2

\* A statement that leaves the dispatch and the pipes alone.
LEMMA Onward ==
    ASSUME TypeOK, dispatch' = dispatch, Index[pc'] < Index[pc],
           pc' \notin {"loop", "select"}, pc \notin {"loop", "select"}, pc \in DOMAIN Index, pc' \in DOMAIN Index,
           pc \in {"packet", "seal", "sealed", "exited"} => pc' \in {"packet", "seal", "sealed", "exited"}
    PROVE  Left' < Left
<1>1. dispatch \in 1..(Dispatches + 1) /\ Dispatches \in Nat
  BY CountAssumption DEF TypeOK
<1>2. Index[pc] \in Nat /\ Index[pc'] \in Nat
  BY DEF Index
<1>3. Left' = Index[pc'] + (IF pc' \in {"packet", "seal", "sealed", "exited"} THEN 0 ELSE 10 * (Dispatches + 1 - dispatch))
  BY <1>1, <1>2 DEF Left, Index
<1>4. Left = Index[pc] + (IF pc \in {"packet", "seal", "sealed", "exited"} THEN 0 ELSE 10 * (Dispatches + 1 - dispatch))
  BY <1>1, <1>2 DEF Left
<1>5. 10 * (Dispatches + 1 - dispatch) \in Nat
  BY <1>1
<1> HIDE DEF Left, Index
<1> QED
  BY <1>2, <1>3, <1>4, <1>5

\* Within one dispatch the loop counts the turns its pipes still take.
LEMMA Looping ==
    ASSUME TypeOK, dispatch' = dispatch,
           pc \in {"prepared", "loop", "select"}, pc' \in {"loop", "select", "observe", "record"},
           Index[pc'] + (IF pc' \in {"loop", "select"} THEN 2 * Turns' ELSE 0)
             < Index[pc] + (IF pc \in {"loop", "select"} THEN 2 * Turns ELSE 0)
    PROVE  Left' < Left
<1>1. dispatch \in 1..(Dispatches + 1) /\ Dispatches \in Nat
  BY CountAssumption DEF TypeOK
<1> DEFINE new == Index[pc'] + (IF pc' \in {"loop", "select"} THEN 2 * Turns' ELSE 0)
           old == Index[pc] + (IF pc \in {"loop", "select"} THEN 2 * Turns ELSE 0)
           rest == 10 * (Dispatches + 1 - dispatch)
<1>2. new \in Nat /\ old \in Nat /\ rest \in Nat
  BY <1>1 DEF Index, Turns
<1>3. Left = old + rest
  BY DEF Left
<1>4. Left' = new + rest
  BY DEF Left, Index
<1> HIDE DEF new, old, rest
<1> QED
  BY <1>2, <1>3, <1>4 DEF new, old

\* A look of the selector reads what there is, and ends the pipes it found empty.
LEMMA Drains ==
    ASSUME IInv, Select, ~Waiting
    PROVE  Turns' < Turns
<1>1. /\ open # {} /\ writers = {} /\ pc = "select"
      /\ \A s \in Streams: taken[s] <= written[s] /\ taken[s] \in Nat /\ written[s] \in Nat
      /\ open \subseteq Streams
  BY BoundsAssumption DEF Waiting, Select, IInv, TypeOK, WatchIsCurrent
<1>2. \A s \in open: taken'[s] = written[s]
  BY <1>1 DEF Select
<1>3. open' = open \ {s \in open: written[s] = taken[s]} /\ written' = written
  BY <1>1 DEF Select, sandbox, effects
<1>4. CASE \A s \in open: taken[s] = written[s]
  <2>1. open' = {}
    BY <1>3, <1>4
  <2> QED
    BY <1>1, <1>4, <2>1 DEF Turns
<1>5. CASE ~(\A s \in open: taken[s] = written[s])
  <2>1. \A s \in open': taken'[s] = written'[s]
    BY <1>2, <1>3
  <2> QED
    BY <1>1, <1>5, <2>1 DEF Turns
<1> QED
  BY <1>4, <1>5

\* A turn costs two statements, the entry into the loop fewer than it saves.
LEMMA TurnDown == \A new, old \in 0..2: 3 + 2 * new < 8 /\ (new < old => 3 + 2 * new < 2 + 2 * old)
OBVIOUS

\* Every statement but a look at pipes in use lowers what is left.
LEMMA ApproachStep ==
    ASSUME IInv, Step, ~Waiting
    PROVE  Left' < Left
<1>0. TypeOK /\ InBounds /\ dispatch \in 1..(Dispatches + 1) /\ Dispatches \in Nat
  BY CountAssumption DEF IInv, TypeOK
<1>1. CASE Start
  <2>1. CASE dispatch' = dispatch /\ pc = "idle" /\ pc' \in {"setup", "exited"}
    BY <1>0, <2>1, Onward DEF Index
  <2>2. dispatch = 1 /\ pc = "idle"
    BY <1>1 DEF Start, IInv, Directory
  <2>3. dispatch' = 1 /\ pc' \in {"setup", "exited"}
    BY <1>1, <2>2 DEF Start, Exit, runner
  <2> QED
    BY <2>1, <2>2, <2>3
<1>2. CASE SetUp \/ Announce \/ Report \/ Packet \/ Seal
  BY <1>0, <1>2, Onward DEF SetUp, Announce, Report, Packet, Seal, Index, runner
<1>3. ASSUME pc \in {"dispatch", "record"}, pc' = "dispatch", dispatch' = dispatch + 1, dispatch <= Dispatches
      PROVE  Left' < Left
  <2>1. Index[pc] >= 1 /\ Index[pc] \in Nat /\ Index[pc'] = 10
    BY <1>3 DEF Index
  <2>2. Left = Index[pc] + 10 * (Dispatches + 1 - dispatch)
    BY <1>0, <1>3, <2>1 DEF Left
  <2>3. Left' = 10 + 10 * (Dispatches + 1 - (dispatch + 1))
    BY <1>0, <1>3, <2>1 DEF Left, Index
  <2> HIDE DEF Left, Index
  <2> QED
    BY <1>0, <2>1, <2>2, <2>3
<1>4. CASE Dispatch
  <2>1. CASE now < RunTime /\ pc' = "copied" /\ dispatch' = dispatch
    BY <1>0, <1>4, <2>1, Onward DEF Dispatch, Index
  <2>2. CASE keep_row(NewRow) /\ pc' = pc
    BY <1>3, <1>4, <2>2 DEF Dispatch, keep_row
  <2> QED
    BY <1>4, <2>1, <2>2 DEF Dispatch
<1>5. CASE Record
  <2>1. dispatch <= Dispatches
    BY <1>0, <1>5 DEF Record, InBounds, Announced
  <2> QED
    BY <1>3, <1>5, <2>1 DEF Record, keep_row
<1>6. CASE Launch
  <2>1. pc = "prepared" /\ dispatch' = dispatch
    BY <1>6 DEF Launch
  <2>2. CASE pc' = "record"
    BY <1>0, <2>1, <2>2, Onward DEF Index
  <2>3. CASE pc' = "loop"
    <3>1. taken' = [s \in Streams |-> 0] /\ written' = [s \in Streams |-> 0] /\ open' = Streams
      BY <1>6, <2>3 DEF Launch
    <3>2. Turns' \in 0..2
      BY <3>1 DEF Turns
    <3> QED
      <4>1. 3 + 2 * Turns' < 8
        BY <3>2, TurnDown
      <4>2. Index[pc'] + (IF pc' \in {"loop", "select"} THEN 2 * Turns' ELSE 0) = 3 + 2 * Turns'
        BY <2>3, <3>2 DEF Index
      <4>3. Index[pc] + (IF pc \in {"loop", "select"} THEN 2 * Turns ELSE 0) = 8
        BY <2>1 DEF Index
      <4> QED
        BY <1>0, <2>1, <2>3, <4>1, <4>2, <4>3, Looping
  <2> QED
    BY <1>6, <2>2, <2>3 DEF Launch
<1>7. CASE Loop
  <2>1. Turns' = Turns /\ dispatch' = dispatch /\ pc = "loop" /\ Turns \in 0..2
    BY <1>7 DEF Loop, Turns, effects
  <2>2. pc' \in {"observe", "select"}
    BY <1>7 DEF Loop
  <2> HIDE DEF Turns
  <2> QED
    BY <1>0, <2>1, <2>2, Looping DEF Index
<1>8. CASE Select
  <2>1. Turns' < Turns /\ Turns \in 0..2 /\ Turns' \in 0..2
    BY <1>8, Drains DEF Turns
  <2>2. pc = "select" /\ pc' = "loop" /\ dispatch' = dispatch
    BY <1>8 DEF Select
  <2> HIDE DEF Turns
  <2>3. 3 + 2 * Turns' < 2 + 2 * Turns
    BY <2>1, TurnDown
  <2>4. Index[pc'] + (IF pc' \in {"loop", "select"} THEN 2 * Turns' ELSE 0) = 3 + 2 * Turns'
    BY <2>1, <2>2 DEF Index
  <2>5. Index[pc] + (IF pc \in {"loop", "select"} THEN 2 * Turns ELSE 0) = 2 + 2 * Turns
    BY <2>1, <2>2 DEF Index
  <2> QED
    BY <1>0, <2>2, <2>3, <2>4, <2>5, Looping
<1>9. CASE Observe
  <2>1. pc = "observe" /\ pc' = "record" /\ dispatch' = dispatch
    BY <1>9 DEF Observe
  <2> QED
    BY <1>0, <2>1, Onward DEF Index
<1>10. CASE Return
  <2>1. pc = "sealed" /\ pc' = "exited"
    BY <1>10 DEF Return, Exit
  <2> QED
    BY <2>1 DEF Left, Index
<1> QED
  BY <1>1, <1>2, <1>4, <1>5, <1>6, <1>7, <1>8, <1>9, <1>10 DEF Step

\* A run goes on only for as long as its probe does: every other statement brings
\* it closer to its end.  With the signal at the deadline this is why it ends.
THEOREM RunsAdvance == Spec => [][Approaches]_vars
<1>1. IInv /\ IInv' /\ [Next]_vars => [Approaches]_vars
  <2> SUFFICES ASSUME IInv, IInv', [Next]_vars PROVE [Approaches]_vars
    OBVIOUS
  <2>1. Left \in 0..(10 * Dispatches + 12)
    <3>1. pc \in DOMAIN Index /\ dispatch \in 1..(Dispatches + 1) /\ Turns \in 0..2
      BY DEF IInv, TypeOK, Index, Turns
    <3> HIDE DEF Index, Turns
    <3> QED
      BY <3>1, Sums DEF Left
  <2>2. Left' \in 0..(10 * Dispatches + 12)
    <3>1. pc' \in DOMAIN Index /\ dispatch' \in 1..(Dispatches + 1) /\ Turns' \in 0..2
      BY DEF IInv, TypeOK, Index, Turns
    <3>2. Left' = Index[pc'] + (IF pc' \in {"loop", "select"} THEN 2 * Turns' ELSE 0)
                    + (IF pc' \in {"packet", "seal", "sealed", "exited"} THEN 0 ELSE 10 * (Dispatches + 1 - dispatch'))
      BY DEF Left, Index
    <3> HIDE DEF Index, Turns
    <3> QED
      BY <3>1, <3>2, Sums
  <2>3. Dispatches \in Nat
    BY CountAssumption
  <2>4. CASE Step
    <3>1. ~Waiting => Left' < Left
      BY <2>4, ApproachStep
    <3> HIDE DEF Left
    <3> QED
      BY <2>1, <2>2, <2>3, <3>1 DEF Approaches
  <2>5. CASE (Raise \/ Die) /\ ~Step
    <3>1. Left' = 0
      BY <2>5 DEF Raise, Die, Exit, Left, Index
    <3> HIDE DEF Left
    <3> QED
      BY <2>1, <2>2, <2>3, <2>5, <3>1 DEF Approaches
  <2>6. CASE (Rerun \/ \E s \in Streams: Write(s)) /\ ~Step
    BY <2>1, <2>6 DEF Approaches
  <2>7. CASE (Tamper \/ Verify \/ Leave \/ ChildEnds \/ NamespaceEnds \/ Tick \/ \E s \in Streams: Close(s)) /\ ~Step
    <3>1. UNCHANGED <<pc, dispatch, open, taken, written>>
      BY <2>7 DEF Tamper, Verify, Leave, ChildEnds, NamespaceEnds, Tick, Close, runner, watch, sandbox, effects
    <3>2. Left' = Left
      BY <3>1 DEF Left, Turns
    <3> HIDE DEF Left
    <3> QED
      BY <2>1, <2>2, <2>3, <2>7, <3>2 DEF Approaches
  <2> QED
    BY <2>4, <2>5, <2>6, <2>7 DEF Next, Sandbox
<1> QED
  BY <1>1, Invariant, PTL DEF Spec
=============================================================================
