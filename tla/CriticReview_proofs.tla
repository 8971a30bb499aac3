------------------------ MODULE CriticReview_proofs ------------------------
(***************************************************************************)
(* Theorems about CriticReview for any limits: whatever a review dies of,  *)
(* effort.json covers what the provider has seen, and a verdict rests on a *)
(* complete record.  The inductive invariant follows the loop of           *)
(* run_review(): what is in memory, on disk and with the provider.         *)
(***************************************************************************)
EXTENDS CriticReview, FiniteSetTheorems, SequenceTheorems, TLAPS

Live == pc \notin {"idle", "exited"}
Loop == {"open", "note", "send", "waiting", "answered", "judge"}
Final == {"extract", "validate", "return"}

\* Before its first write a run has left nothing; after it, the directory is full.
Directory ==
    /\ files = {} => saved = NoEffort /\ sent = 0 /\ shown = 0 /\ verdict = NoContent
    /\ Live => files # {}
    /\ pc = "idle" => effort = NewEffort
    /\ Live /\ pc # "return" => verdict = NoContent
    /\ Live => Len(saved.calls) <= Call /\ Len(saved.reads) <= Len(effort.reads)
    /\ Len(saved.calls) <= MaxCalls

\* The single request of a run without --evidence-reads.
Single ==
    ~reading =>
        /\ effort = NewEffort /\ saved = NoEffort
        /\ shown = 0 /\ sent <= 1
        /\ pc = "send" => sent = 0
        /\ pc \in {"idle", "send", "waiting", "extract", "validate", "return", "exited"}

\* Calls 1..n have been sent, answered, noted and filed.
Answered(n) ==
    \A i \in 1..n: effort.calls[i] = "received" /\ <<"response", i>> \in files

\* Where the call under way stands in each part of the loop.
Underway ==
    /\ sent = IF pc \in {"note", "send"} THEN Call - 1 ELSE Call
    /\ pc \in {"open", "judge"} => Answered(Call)
    /\ pc \in {"note", "send", "waiting", "answered", "judge"} => Call > 0 /\ Answered(Call - 1)
    /\ pc = "answered" => effort.calls[Call] = "received"

\* The dialogue: what was noted never lags behind what was sent.
Dialogue ==
    reading =>
        /\ pc = "prepare" => effort = NewEffort /\ saved = NoEffort /\ sent = 0
        /\ pc \in Loop =>
            /\ Underway
            /\ \A i \in 1..Call: <<"request", i>> \in files
            /\ effort.status = "incomplete" /\ saved.status # "received"
        /\ pc \in {"send", "waiting"} => saved = effort
        /\ pc = "closing" /\ effort.status = "received" => sent = Call /\ Answered(Call)
        /\ pc \in Final => saved = effort /\ effort.status = "received" /\ sent = Call /\ Answered(Call)
        /\ Live => Len(effort.reads) <= effort.requested
        /\ Live => Returned(saved.reads) <= Returned(effort.reads)
        /\ pc = "judge" => answer.kind # "malformed"

\* What is being made of the final content.
Content ==
    /\ pc \in {"validate", "return"} => <<"provider-response", 0>> \in files
    /\ pc = "return" => verdict = content /\ Acceptable

IInv ==
    /\ TypeOK /\ Directory /\ Single /\ Dialogue /\ Content
    /\ EffortCoversTraffic /\ DialogueIsBounded /\ VerdictIsEarned

-----------------------------------------------------------------------------
(* What run_review() does to its record.                                   *)

\* The reads of one message, as far as they went, are a sequence of outcomes.
LEMMA OutcomeTypes ==
    ASSUME NEW n \in Nat \ {0}, NEW outcome \in Outcomes(n)
    PROVE  outcome \in Seq({"rejected", "returned"}) /\ Len(outcome) <= n
<1>1. \E k \in 0..n: outcome \in [1..k -> {"rejected", "returned"}]
  BY DEF Outcomes
<1>2. PICK k \in 0..n: outcome \in [1..k -> {"rejected", "returned"}]
  BY <1>1
<1> QED
  BY <1>2

\* There are no more reads returned than reads on record, and a longer record has
\* at least as many.
LEMMA ReturnedBounds ==
    ASSUME NEW reads \in Seq({"rejected", "returned"}), NEW more \in Seq({"rejected", "returned"})
    PROVE  /\ Returned(reads) \in Nat
           /\ Returned(reads) <= Len(reads)
           /\ Returned(reads) <= Returned(reads \o more)
<1> DEFINE In(s) == {i \in 1..Len(s): s[i] = "returned"}
<1>1. reads \o more \in Seq({"rejected", "returned"}) /\ Len(reads \o more) = Len(reads) + Len(more)
      /\ Len(reads) \in Nat /\ Len(more) \in Nat
  BY ConcatProperties
<1>2. IsFiniteSet(1..Len(reads)) /\ Cardinality(1..Len(reads)) = Len(reads)
  <2> DEFINE n == Len(reads)
  <2>1. 1 \in Int /\ n \in Int
    BY <1>1
  <2> HIDE DEF n
  <2>2. IsFiniteSet(1..n) /\ Cardinality(1..n) = IF 1 > n THEN 0 ELSE n - 1 + 1
    BY <2>1, FS_Interval
  <2>3. n \in Nat
    BY <1>1 DEF n
  <2>4. IsFiniteSet(1..n) /\ Cardinality(1..n) = n
    BY <2>2, <2>3
  <2> QED
    BY <2>4 DEF n
<1>3. IsFiniteSet(In(reads)) /\ Cardinality(In(reads)) <= Len(reads)
  <2>1. In(reads) \in SUBSET (1..Len(reads))
    OBVIOUS
  <2> HIDE DEF In
  <2> QED
    BY <1>2, <2>1, FS_Subset
<1>4. IsFiniteSet(1..Len(reads \o more))
  BY <1>1, FS_Interval
<1>5. IsFiniteSet(In(reads \o more))
  <2>1. In(reads \o more) \in SUBSET (1..Len(reads \o more))
    OBVIOUS
  <2> HIDE DEF In
  <2> QED
    BY <1>4, <2>1, FS_Subset
<1>6. In(reads) \in SUBSET In(reads \o more)
  <2>1. \A i \in 1..Len(reads): (reads \o more)[i] = reads[i]
    BY ConcatProperties
  <2> QED
    BY <1>1, <2>1
<1>7. Cardinality(In(reads)) <= Cardinality(In(reads \o more))
  <2> HIDE DEF In
  <2> QED
    BY <1>5, <1>6, FS_Subset
<1>8. Cardinality(In(reads)) \in Nat
  <2> HIDE DEF In
  <2> QED
    BY <1>3, FS_CardinalityType
<1> QED
  BY <1>3, <1>7, <1>8 DEF Returned

\* effort.json, before the first write and after.
LEMMA RecordTypes ==
    ASSUME NEW record, record = NoEffort \/ record \in Effort
    PROVE  /\ Len(record.calls) \in Nat /\ Len(record.reads) \in Nat /\ record.requested \in Nat
           /\ Returned(record.reads) \in Nat /\ Returned(record.reads) <= Len(record.reads)
           /\ Len(NoEffort.calls) = 0 /\ Len(NoEffort.reads) = 0 /\ Returned(NoEffort.reads) = 0
           /\ NoEffort.status = "none" /\ NoEffort.requested = 0
<1>1. NoEffort = [status |-> "none", calls |-> <<>>, reads |-> <<>>, requested |-> 0]
  BY DEF NoEffort, NewEffort
<1>2. NoEffort.calls = <<>> /\ NoEffort.reads = <<>> /\ NoEffort.status = "none" /\ NoEffort.requested = 0
  BY <1>1
<1>3. <<>> \in Seq({"rejected", "returned"}) /\ Len(<<>>) = 0
  OBVIOUS
<1>4. record.reads \in Seq({"rejected", "returned"}) /\ record.requested \in Nat
  <2>1. CASE record = NoEffort
    <3>1. record.reads = <<>> /\ record.requested = 0
      BY <1>2, <2>1
    <3>2. record.reads \in Seq({"rejected", "returned"})
      BY <1>3, <3>1
    <3> QED
      BY <3>1, <3>2
  <2>2. CASE record \in Effort
    BY <2>2 DEF Effort
  <2> QED
    BY <2>1, <2>2
<1>5. Len(record.calls) \in Nat
  BY <1>2, <1>3 DEF Effort
<1>6. Returned(<<>>) \in Nat /\ Returned(<<>>) <= 0
  BY <1>3, ReturnedBounds
<1> QED
  BY <1>2, <1>3, <1>4, <1>5, <1>6, ReturnedBounds

\* The same of effort.json as it is.
LEMMA SavedTypes ==
    ASSUME TypeOK
    PROVE  /\ Len(saved.calls) \in Nat /\ Len(saved.reads) \in Nat
           /\ Returned(saved.reads) \in Nat /\ Returned(saved.reads) <= Len(saved.reads)
           /\ Len(NoEffort.calls) = 0 /\ Len(NoEffort.reads) = 0 /\ Returned(NoEffort.reads) = 0
           /\ NoEffort.status = "none" /\ NoEffort.requested = 0
<1>1. saved = NoEffort \/ saved \in Effort
  BY DEF TypeOK
<1> QED
  BY <1>1, RecordTypes

\* A new call is one more record behind the others.
LEMMA Appended ==
    ASSUME effort \in Effort, NEW status \in {"attempted", "not_sent"},
           effort' = [effort EXCEPT !.calls = Append(@, status)]
    PROVE  /\ effort' \in Effort
           /\ Len(effort'.calls) = Call + 1
           /\ \A i \in 1..Call: effort'.calls[i] = effort.calls[i]
           /\ effort'.status = effort.status /\ effort'.reads = effort.reads
           /\ effort'.requested = effort.requested
<1>1. effort.calls \in Seq({"attempted", "not_sent", "received"})
  BY DEF Effort
<1>2. effort' = [effort EXCEPT !.calls = Append(effort.calls, status)]
  OBVIOUS
<1>3. Append(effort.calls, status) \in Seq({"attempted", "not_sent", "received"})
      /\ Len(Append(effort.calls, status)) = Call + 1
      /\ \A i \in 1..Call: Append(effort.calls, status)[i] = effort.calls[i]
  BY <1>1, AppendProperties DEF Call
<1>4. effort'.calls = Append(effort.calls, status)
  BY <1>2 DEF Effort
<1> QED
  BY <1>2, <1>3, <1>4 DEF Effort

\* An arrival only marks the last call.
LEMMA Arrived ==
    ASSUME effort \in Effort, Call > 0,
           effort' = [effort EXCEPT !.calls[Call] = "received"]
    PROVE  /\ effort' \in Effort
           /\ Len(effort'.calls) = Call
           /\ effort'.calls[Call] = "received"
           /\ \A i \in 1..(Call - 1): effort'.calls[i] = effort.calls[i]
           /\ effort'.status = effort.status /\ effort'.reads = effort.reads
           /\ effort'.requested = effort.requested
<1> DEFINE c == [effort.calls EXCEPT ![Call] = "received"]
<1>1. effort.calls \in Seq({"attempted", "not_sent", "received"}) /\ Call \in 1..Len(effort.calls)
  BY DEF Effort, Call
<1>2. c \in Seq({"attempted", "not_sent", "received"}) /\ Len(c) = Call /\ c[Call] = "received"
      /\ \A i \in 1..(Call - 1): c[i] = effort.calls[i]
  BY <1>1, ExceptSeq DEF Call
<1>3. effort'.calls = c /\ effort' = [effort EXCEPT !.calls = c]
  BY DEF Effort
<1> HIDE DEF c
<1> QED
  BY <1>2, <1>3 DEF Effort

\* A judged message changes nothing of the calls and only adds to the reads,
\* within the budget.
LEMMA Judged ==
    ASSUME TypeOK, Judge, answer.kind # "malformed"
    PROVE  /\ effort' \in Effort
           /\ effort'.calls = effort.calls
           /\ Len(effort'.reads) <= MaxReads /\ Len(effort.reads) <= Len(effort'.reads)
           /\ Len(effort.reads) <= effort.requested => Len(effort'.reads) <= effort'.requested
           /\ Returned(effort.reads) <= Returned(effort'.reads)
           /\ effort'.status = "received" /\ effort.status # "received" =>
                now <= Timeout /\ answer.stop /\ pc' = "closing"
           /\ pc' \in {"open", "closing"}
<1>0. effort \in Effort /\ Len(effort.reads) <= MaxReads /\ Returned(effort.reads) \in Nat
      /\ effort.reads \in Seq({"rejected", "returned"}) /\ MaxReads \in Nat
  BY ReturnedBounds, LimitsAssumption DEF TypeOK, Effort
<1>1. CASE effort' = effort /\ pc' = "closing"
  BY <1>0, <1>1
<1>2. CASE now <= Timeout /\ JudgeFinal
  <2>1. effort' = effort \/ (answer.stop /\ effort' = [effort EXCEPT !.status = "received"])
    BY <1>2 DEF JudgeFinal
  <2> QED
    BY <1>0, <1>2, <2>1 DEF JudgeFinal, Effort
<1>3. CASE now <= Timeout /\ JudgeAsking
  <2> DEFINE asked == [effort EXCEPT !.requested = effort.requested + answer.reads]
  <2>1. answer.reads \in Nat \ {0}
    <3>1. answer \in Answers /\ answer.kind = "asking"
      BY <1>3 DEF JudgeAsking, TypeOK
    <3>2. answer \in [kind: {"asking"}, reads: 1..(MaxReads + 1), stop: {FALSE}]
      BY <3>1 DEF Answers
    <3>3. answer.reads \in 1..(MaxReads + 1)
      BY <3>2
    <3> QED
      BY <1>0, <3>3
  <2>2. asked \in Effort /\ asked.reads = effort.reads /\ asked.calls = effort.calls
        /\ asked.status = effort.status /\ asked.requested = effort.requested + answer.reads
    BY <1>0, <2>1, SMTT(40) DEF Effort
  <2>3. CASE effort' = asked /\ pc' = "closing"
    BY <1>0, <2>1, <2>2, <2>3 DEF Effort
  <2>4. CASE \E outcome \in Outcomes(answer.reads):
                /\ ~OverBudget
                /\ effort' = [asked EXCEPT !.reads = asked.reads \o outcome]
                /\ pc' \in {"open", "closing"}
    <3>1. PICK outcome \in Outcomes(answer.reads):
                /\ ~OverBudget
                /\ effort' = [asked EXCEPT !.reads = asked.reads \o outcome]
                /\ pc' \in {"open", "closing"}
      BY <2>4
    <3>2. outcome \in Seq({"rejected", "returned"}) /\ Len(outcome) <= answer.reads
      BY <2>1, OutcomeTypes
    <3> DEFINE r == effort.reads \o outcome
    <3>3. r \in Seq({"rejected", "returned"}) /\ Len(r) = Len(effort.reads) + Len(outcome)
          /\ Len(outcome) \in Nat /\ Len(effort.reads) \in Nat
      BY <1>0, <3>2, ConcatProperties
    <3>4. Returned(effort.reads) <= Returned(r)
      BY <1>0, <3>2, ReturnedBounds
    <3> HIDE DEF asked, r
    <3>5. effort' = [asked EXCEPT !.reads = r]
      BY <2>2, <3>1 DEF r
    <3>6. effort' \in Effort /\ effort'.reads = r /\ effort'.calls = effort.calls
          /\ effort'.status = effort.status /\ effort'.requested = effort.requested + answer.reads
      BY <2>2, <3>3, <3>5 DEF Effort
    <3>7. answer.reads + Len(effort.reads) <= MaxReads
      BY <1>0, <2>1, <3>1, <3>3 DEF OverBudget
    <3>8. effort.requested \in Nat
      BY <1>0 DEF Effort
    <3>9. Len(effort'.reads) <= MaxReads /\ Len(effort.reads) <= Len(effort'.reads)
      BY <1>0, <2>1, <3>3, <3>6, <3>7, <3>2
    <3>10. Len(effort.reads) <= effort.requested => Len(effort'.reads) <= effort'.requested
      BY <2>1, <3>2, <3>3, <3>6, <3>8
    <3> QED
      BY <3>1, <3>4, <3>6, <3>9, <3>10
  <2> QED
    BY <1>3, <2>3, <2>4 DEF JudgeAsking
<1> QED
  BY <1>1, <1>2, <1>3 DEF Judge

-----------------------------------------------------------------------------
(* The type invariant.                                                     *)

\* What opening a call does to the record.
LEMMA Opened ==
    ASSUME TypeOK, Open
    PROVE  \/ UNCHANGED <<effort, files>> /\ pc' = IF reading THEN "closing" ELSE "exited"
           \/ /\ Call < MaxCalls
              /\ \E status \in {"attempted", "not_sent"}:
                    effort' = [effort EXCEPT !.calls = Append(@, status)]
              /\ \/ pc' = (IF reading THEN "closing" ELSE "exited") /\ UNCHANGED files
                 \/ /\ pc' = "note"
                    /\ files' = files \union {<<"request", Call + 1>>}
BY DEF Open, Raise, Exit

\* A run reads evidence or it does not.
LEMMA Constant == [Next]_vars => UNCHANGED reading
BY DEF Next, Step, vars, Start, Prepare, Open, Note, Send, RequestFails, TimesOut, Receive,
   File, Judge, Close, Extract, Validate, Return, Trickle, Tick, Die, Rerun

\* Each step of a run leaves its variables within their types.
LEMMA TypeStep == TypeOK /\ Single /\ Dialogue /\ [Next]_vars => TypeOK'
<1> SUFFICES ASSUME TypeOK, Single, Dialogue, [Next]_vars PROVE TypeOK'
  OBVIOUS
<1>a. effort \in Effort /\ Call \in Nat /\ Len(effort.reads) \in Nat
      /\ MaxCalls \in Nat /\ Timeout \in Nat /\ now \in Nat /\ sent \in Nat /\ quiet \in Nat
  BY LimitsAssumption DEF TypeOK, Effort, Call
<1> USE DEF TypeOK, Exit, Raise
<1>1. CASE Start
  BY <1>1, LimitsAssumption DEF Start, socket, Files, Once
<1>2. CASE Prepare
  BY <1>2 DEF Prepare, socket, Files, Once
<1>3. CASE Open
  <2>1. effort' \in Effort /\ Len(effort'.calls) <= MaxCalls /\ Len(effort'.reads) <= MaxReads
    <3>1. CASE UNCHANGED effort
      BY <3>1
    <3>2. CASE /\ Call < MaxCalls
               /\ \E status \in {"attempted", "not_sent"}:
                    effort' = [effort EXCEPT !.calls = Append(@, status)]
      <4>1. PICK status \in {"attempted", "not_sent"}:
                effort' = [effort EXCEPT !.calls = Append(@, status)]
        BY <3>2
      <4>2. effort' \in Effort /\ Len(effort'.calls) = Call + 1 /\ effort'.reads = effort.reads
        BY <1>a, <4>1, Appended
      <4> QED
        BY <1>a, <3>2, <4>2
    <3> QED
      BY <1>3, <3>1, <3>2, Opened
  <2>2. files' \subseteq Files
    <3>1. files' = files \/ (Call < MaxCalls /\ files' = files \union {<<"request", Call + 1>>})
      BY <1>3, Opened
    <3> QED
      BY <1>a, <3>1 DEF Files
  <2>3. allowance' \in Nat /\ offered' \in BOOLEAN
    <3>1. allowance' = allowance \/ (now < Timeout /\ allowance' = Timeout - now)
      BY <1>3 DEF Open
    <3>2. offered' = offered \/ offered' = ToolsAvailable
      BY <1>3 DEF Open
    <3>3. ToolsAvailable \in BOOLEAN
      BY DEF ToolsAvailable
    <3>4. allowance' \in Nat
      BY <1>a, <3>1
    <3> QED
      BY <3>2, <3>3, <3>4
  <2>4. pc' \in {"closing", "exited", "note"} /\ exit' \in {-1, 0, 1, 2}
    BY <1>3 DEF Open
  <2>5. UNCHANGED <<reading, now, evidence, answer, content, socket, saved, verdict>>
    BY <1>3 DEF Open
  <2> QED
    BY <2>1, <2>2, <2>3, <2>4, <2>5 DEF socket
<1>4. CASE Note
  BY <1>4 DEF Note, memory, socket
<1>5. CASE Send
  <2>1. Returned(effort.reads) \in Nat
    BY <1>a, ReturnedBounds DEF Effort
  <2> QED
    BY <1>5, <1>a, <2>1 DEF Send, memory, disk
<1>6. CASE Trickle \/ RequestFails \/ TimesOut
  BY <1>6 DEF Trickle, RequestFails, TimesOut, CallFails, memory, socket, disk
<1>7. CASE Receive
  <2>1. CASE reading
    <3>1. Call > 0
      BY <1>7, <2>1 DEF Receive, Dialogue, Loop, Underway
    <3>2. effort' = [effort EXCEPT !.calls[Call] = "received"]
      BY <1>7, <2>1 DEF Receive
    <3>3. effort' \in Effort /\ Len(effort'.calls) <= MaxCalls /\ Len(effort'.reads) <= MaxReads
      BY <1>a, <3>1, <3>2, Arrived DEF Call
    <3> QED
      BY <1>7, <2>1, <3>3 DEF Receive, socket, disk
  <2>2. CASE ~reading
    BY <1>7, <2>2 DEF Receive, socket, disk
  <2> QED
    BY <2>1, <2>2
<1>8. CASE File
  <2>1. reading
    BY <1>8 DEF File, Single
  <2>2. Call \in 1..MaxCalls
    BY <1>8, <1>a, <2>1 DEF File, Dialogue, Underway, Loop, Call
  <2>3. files' \subseteq Files
    BY <1>8, <2>2 DEF File, Files
  <2> QED
    BY <1>8, <2>3 DEF File, memory, socket
<1>9. CASE Judge
  <2>1. answer.kind # "malformed"
    BY <1>9 DEF Judge, Dialogue, Single
  <2>2. effort' \in Effort /\ effort'.calls = effort.calls /\ Len(effort'.reads) <= MaxReads
        /\ pc' \in {"open", "closing"}
    BY <1>9, <2>1, Judged
  <2>3. UNCHANGED <<reading, now, evidence, offered, allowance, answer, content, socket, exit, disk>>
    BY <1>9 DEF Judge
  <2> QED
    BY <2>2, <2>3 DEF socket, disk
<1>10. CASE Close
  BY <1>10 DEF Close, memory, socket
<1>11. CASE Extract
  BY <1>11 DEF Extract, socket, Files, Once
<1>12. CASE Validate
  BY <1>12 DEF Validate, memory, socket
<1>13. CASE Return
  BY <1>13 DEF Return, memory, socket, disk
<1>14. CASE Tick
  BY <1>14, <1>a DEF Tick, memory, disk
<1>15. CASE Die
  BY <1>15 DEF Die, memory, socket, disk
<1>16. CASE Rerun
  <2>1. NewEffort \in Effort /\ Len(NewEffort.calls) <= MaxCalls /\ Len(NewEffort.reads) <= MaxReads
    BY LimitsAssumption DEF NewEffort, Effort
  <2>2. NoAnswer \in Answers /\ NoContent \in Contents
    BY DEF NoAnswer, Answers, NoContent, Contents
  <2>3. effort' = NewEffort /\ answer' = NoAnswer /\ content' = NoContent
        /\ now' = 0 /\ allowance' = 0 /\ sentAt' = 0 /\ quiet' = 0
        /\ evidence' = FALSE /\ offered' = FALSE /\ pc' = "idle" /\ exit' = -1
        /\ UNCHANGED <<reading, sent, shown, files, saved, verdict>>
    BY <1>16 DEF Rerun, disk
  <2>4. effort' \in Effort /\ Len(effort'.calls) <= MaxCalls /\ Len(effort'.reads) <= MaxReads
    BY <2>1, <2>3
  <2>5. {now', allowance', sentAt', quiet', sent', shown'} \subseteq Nat
    BY <2>3
  <2>6. evidence' \in BOOLEAN /\ offered' \in BOOLEAN /\ reading' \in BOOLEAN
    BY <2>3
  <2>7. answer' \in Answers /\ content' \in Contents /\ verdict' \in Contents
        /\ (saved' = NoEffort \/ saved' \in Effort) /\ files' \subseteq Files
    BY <2>2, <2>3
  <2>8. pc' = "idle" /\ exit' = -1
    BY <2>3
  <2> QED
    BY <2>4, <2>5, <2>6, <2>7, <2>8
<1>17. CASE UNCHANGED vars
  BY <1>17 DEF vars, memory, socket, disk
<1> QED
  BY <1>1, <1>2, <1>3, <1>4, <1>5, <1>6, <1>7, <1>8, <1>9, <1>10, <1>11, <1>12, <1>13,
     <1>14, <1>15, <1>16, <1>17 DEF Next, Step

-----------------------------------------------------------------------------
(* What is in memory, on disk and with the provider.                       *)

\* The directory fills and the record grows.
LEMMA DirectoryStep == TypeOK /\ Directory /\ Single /\ Dialogue /\ [Next]_vars => Directory'
<1> SUFFICES ASSUME TypeOK, Directory, Single, Dialogue, [Next]_vars PROVE Directory'
  OBVIOUS
<1>a. effort \in Effort /\ Call \in Nat /\ Len(effort.reads) \in Nat
  BY DEF TypeOK, Effort, Call
<1> USE DEF Directory, Live, Exit, Raise
<1>1. CASE Start
  <2>1. NewEffort.calls = <<>> /\ NewEffort.reads = <<>> /\ NoEffort.calls = <<>> /\ NoEffort.reads = <<>>
    BY DEF NewEffort, NoEffort
  <2>2. files = {} => Len(saved.calls) = 0 /\ Len(saved.reads) = 0
    BY <2>1
  <2>3. \/ pc' = "exited" /\ UNCHANGED <<files, saved, sent, shown, verdict>>
        \/ /\ files = {} /\ files' # {} /\ UNCHANGED <<saved, sent, shown, verdict>>
           /\ pc' \in {"prepare", "send"} /\ effort' = effort
    BY <1>1 DEF Start, Refused, socket
  <2> QED
    BY <1>a, <2>2, <2>3 DEF Call
<1>2. CASE Prepare
  BY <1>2 DEF Prepare, socket, Call
<1>3. CASE Open
  <2>1. CASE UNCHANGED <<effort, files>>
    BY <1>3, <2>1 DEF Open, socket, Call
  <2>2. CASE \E status \in {"attempted", "not_sent"}:
                    effort' = [effort EXCEPT !.calls = Append(@, status)]
    <3>1. Len(effort'.calls) = Call + 1 /\ effort'.reads = effort.reads
      BY <1>a, <2>2, Appended
    <3>2. Len(saved.calls) \in Nat
      BY SavedTypes
    <3>3. Call' = Call + 1
      BY <3>1 DEF Call
    <3>4. files # {} /\ files \subseteq files'
      BY <1>3 DEF Open
    <3>5. pc = "open" /\ pc' \in {"note", "closing", "exited"} /\ UNCHANGED <<saved, verdict>>
      BY <1>3 DEF Open
    <3> QED
      BY <1>a, <3>1, <3>2, <3>3, <3>4, <3>5
  <2> QED
    BY <1>3, <2>1, <2>2, Opened
<1>4. CASE Note
  BY <1>4, <1>a DEF Note, memory, socket, Call, TypeOK
<1>5. CASE Send
  BY <1>5 DEF Send, memory, disk, Call
<1>6. CASE Trickle \/ RequestFails \/ TimesOut
  BY <1>6 DEF Trickle, RequestFails, TimesOut, CallFails, memory, socket, disk, Call
<1>7. CASE Receive
  <2>1. CASE reading
    <3>1. Call > 0
      BY <1>7, <2>1 DEF Receive, Dialogue, Loop, Underway
    <3>2. effort' = [effort EXCEPT !.calls[Call] = "received"]
      BY <1>7, <2>1 DEF Receive
    <3>3. Len(effort'.calls) = Call /\ effort'.reads = effort.reads
      BY <1>a, <3>1, <3>2, Arrived
    <3>4. Call' = Call
      BY <3>3 DEF Call
    <3> QED
      BY <1>7, <2>1, <3>3, <3>4 DEF Receive, socket, disk
  <2>2. CASE ~reading
    BY <1>7, <2>2 DEF Receive, socket, disk, Call
  <2> QED
    BY <2>1, <2>2
<1>8. CASE File
  BY <1>8 DEF File, memory, socket, Call
<1>9. CASE Judge
  <2>1. answer.kind # "malformed"
    BY <1>9 DEF Judge, Dialogue, Single
  <2>2. effort'.calls = effort.calls /\ Len(effort.reads) <= Len(effort'.reads)
        /\ pc' \in {"open", "closing"} /\ Len(effort'.reads) \in Nat
    BY <1>9, <2>1, Judged DEF Effort
  <2>3. UNCHANGED <<socket, disk>> /\ pc = "judge" /\ Call' = Call
    BY <1>9, <2>2 DEF Judge, Call
  <2>4. Len(saved.reads) \in Nat
    BY SavedTypes
  <2> QED
    BY <1>a, <2>2, <2>3, <2>4 DEF socket, disk
<1>10. CASE Close
  BY <1>10, <1>a DEF Close, memory, socket, Call, TypeOK
<1>11. CASE Extract
  BY <1>11 DEF Extract, socket, Call
<1>12. CASE Validate
  BY <1>12 DEF Validate, memory, socket, Call
<1>13. CASE Return
  BY <1>13 DEF Return, memory, socket, disk
<1>14. CASE Tick
  BY <1>14 DEF Tick, memory, disk, Call
<1>15. CASE Die
  BY <1>15 DEF Die, memory, socket, disk
<1>16. CASE Rerun
  BY <1>16 DEF Rerun, disk
<1>17. CASE UNCHANGED vars
  BY <1>17 DEF vars, memory, socket, disk, Call
<1> QED
  BY <1>1, <1>2, <1>3, <1>4, <1>5, <1>6, <1>7, <1>8, <1>9, <1>10, <1>11, <1>12, <1>13,
     <1>14, <1>15, <1>16, <1>17 DEF Next, Step

\* Without --evidence-reads there is one request and no record of a dialogue.
LEMMA SingleStep == TypeOK /\ Directory /\ Single /\ [Next]_vars => Single'
<1> SUFFICES ASSUME TypeOK, Directory, Single, [Next]_vars PROVE Single'
  OBVIOUS
<1>b. UNCHANGED reading
  BY Constant
<1> SUFFICES ASSUME ~reading PROVE Single'
  BY <1>b DEF Single
<1>a. effort = NewEffort /\ saved = NoEffort /\ sent \in Nat /\ Returned(effort.reads) = 0
  <2>1. effort = NewEffort /\ saved = NoEffort /\ sent \in Nat
    BY DEF Single, TypeOK
  <2>2. Returned(effort.reads) \in Nat /\ Returned(effort.reads) <= Len(effort.reads)
    BY ReturnedBounds DEF TypeOK, Effort
  <2> QED
    BY <2>1, <2>2 DEF NewEffort
<1> USE DEF Single, Exit, Raise
<1>1. CASE Start
  BY <1>1 DEF Start, Directory, Refused, socket
<1>2. CASE Send
  BY <1>2, <1>a DEF Send, memory, disk
<1>3. CASE Receive
  BY <1>3 DEF Receive, socket, disk
<1>4. CASE Trickle \/ RequestFails \/ TimesOut
  BY <1>4 DEF Trickle, RequestFails, TimesOut, CallFails, memory, socket, disk
<1>5. CASE Extract \/ Validate \/ Return
  BY <1>5 DEF Extract, Validate, Return, memory, socket, disk
<1>6. CASE Tick \/ Die \/ Rerun \/ UNCHANGED vars
  BY <1>6 DEF Tick, Die, Rerun, vars, memory, socket, disk
<1>7. CASE Prepare \/ Open \/ Note \/ File \/ Judge \/ Close
  BY <1>7 DEF Prepare, Open, Note, File, Judge, Close
<1> QED
  BY <1>1, <1>2, <1>3, <1>4, <1>5, <1>6, <1>7 DEF Next, Step

\* The loop sends, notes, receives and files in turn.
LEMMA DialogueStep == TypeOK /\ Directory /\ Single /\ Dialogue /\ [Next]_vars => Dialogue'
<1> SUFFICES ASSUME TypeOK, Directory, Single, Dialogue, [Next]_vars PROVE Dialogue'
  OBVIOUS
<1>b. UNCHANGED reading
  BY Constant
<1> SUFFICES ASSUME reading PROVE Dialogue'
  BY <1>b DEF Dialogue
<1>a. effort \in Effort /\ Call \in Nat /\ sent \in Nat /\ Len(effort.reads) \in Nat
      /\ Returned(effort.reads) \in Nat /\ Len(NewEffort.reads) = 0 /\ Len(NewEffort.calls) = 0
      /\ NewEffort.status = "incomplete" /\ NewEffort.requested = 0
  BY ReturnedBounds DEF TypeOK, Effort, Call, NewEffort
<1> USE DEF Dialogue, Underway, Answered, Loop, Final, Live, Exit, Raise
<1>1. CASE Start
  <2>1. Returned(saved.reads) <= Returned(NewEffort.reads) \/ files # {}
    BY <1>a, SavedTypes DEF Directory
  <2> QED
    BY <1>1, <1>a, <2>1 DEF Start, Directory, Refused, socket
<1>2. CASE Prepare
  <2>1. saved.status # "received"
    BY <1>2, SavedTypes DEF Prepare
  <2> QED
    BY <1>2, <1>a, <2>1 DEF Prepare, socket, Call
<1>3. CASE Open
  <2>1. pc = "open" /\ UNCHANGED <<answer, content, sent, shown, saved, verdict>>
    BY <1>3 DEF Open, socket
  <2>2. CASE UNCHANGED <<effort, files>> /\ pc' = "closing"
    BY <1>a, <2>1, <2>2
  <2>3. ASSUME NEW status \in {"attempted", "not_sent"},
               effort' = [effort EXCEPT !.calls = Append(@, status)],
               \/ pc' = "closing" /\ UNCHANGED files
               \/ pc' = "note" /\ files' = files \union {<<"request", Call + 1>>}
        PROVE  Dialogue'
    <3>1. /\ effort' \in Effort /\ Call' = Call + 1
          /\ \A i \in 1..Call: effort'.calls[i] = effort.calls[i]
          /\ effort'.status = effort.status /\ effort'.reads = effort.reads
          /\ effort'.requested = effort.requested
      BY <1>a, <2>3, Appended DEF Call
    <3>2. reading' /\ sent' = sent /\ sent = Call /\ saved' = saved /\ Answered(Call)
      BY <1>b, <2>1
    <3>3. \A i \in 1..Call: effort'.calls[i] = "received" /\ <<"response", i>> \in files'
      BY <2>3, <3>1, <3>2
    <3>4. CASE pc' = "closing" /\ UNCHANGED files
      BY <1>a, <2>1, <3>1, <3>2, <3>4
    <3>5. CASE pc' = "note" /\ files' = files \union {<<"request", Call + 1>>}
      <4>1. \A i \in 1..(Call + 1): <<"request", i>> \in files'
        <5>1. \A i \in 1..Call: <<"request", i>> \in files
          BY <2>1
        <5>2. \A i \in 1..(Call + 1): i \in 1..Call \/ i = Call + 1
          BY <1>a
        <5>3. files \subseteq files' /\ <<"request", Call + 1>> \in files'
          BY <3>5
        <5> QED
          BY <5>1, <5>2, <5>3
      <4> QED
        BY <1>a, <2>1, <3>1, <3>2, <3>3, <3>5, <4>1
    <3> QED
      BY <2>3, <3>4, <3>5
  <2> QED
    BY <1>3, <2>2, <2>3, Opened
<1>4. CASE Note
  BY <1>4, <1>a DEF Note, memory, socket, Call
<1>5. CASE Send
  BY <1>5, <1>a DEF Send, memory, disk, Call
<1>6. CASE Trickle \/ RequestFails \/ TimesOut
  BY <1>6, <1>a DEF Trickle, RequestFails, TimesOut, CallFails, memory, socket, disk, Call
<1>7. CASE Receive
  <2>1. /\ effort' \in Effort /\ Call' = Call /\ effort'.calls[Call] = "received"
        /\ \A i \in 1..(Call - 1): effort'.calls[i] = effort.calls[i]
        /\ effort'.status = effort.status /\ effort'.reads = effort.reads
        /\ effort'.requested = effort.requested
    BY <1>7, <1>a, Arrived DEF Receive, Call
  <2>2. pc = "waiting" /\ pc' = "answered" /\ UNCHANGED <<sent, disk>>
    BY <1>7 DEF Receive, socket
  <2> QED
    BY <1>a, <2>1, <2>2 DEF disk
<1>8. CASE File
  BY <1>8, <1>a DEF File, memory, socket, Call
<1>9. CASE Judge
  <2>1. answer.kind # "malformed" /\ pc = "judge"
    BY <1>9 DEF Judge
  <2>2. /\ effort'.calls = effort.calls
        /\ Len(effort.reads) <= effort.requested => Len(effort'.reads) <= effort'.requested
        /\ Returned(effort.reads) <= Returned(effort'.reads)
        /\ effort'.status = "received" /\ effort.status # "received" => pc' = "closing"
        /\ pc' \in {"open", "closing"} /\ effort' \in Effort
    BY <1>9, <2>1, Judged
  <2>3. UNCHANGED <<sent, disk>> /\ Call' = Call
    BY <1>9, <2>2 DEF Judge, socket, Call
  <2>4. Returned(saved.reads) \in Nat /\ Returned(effort'.reads) \in Nat
    BY <2>2, SavedTypes, ReturnedBounds DEF Effort
  <2>5. effort'.status \in {"incomplete", "received"}
    BY <2>2 DEF Effort
  <2> QED
    BY <1>a, <2>1, <2>2, <2>3, <2>4, <2>5 DEF disk
<1>10. CASE Close
  BY <1>10, <1>a DEF Close, memory, socket, Call
<1>11. CASE Extract
  BY <1>11, <1>a DEF Extract, socket, Call
<1>12. CASE Validate
  BY <1>12, <1>a DEF Validate, memory, socket, Call
<1>13. CASE Return
  BY <1>13, <1>a DEF Return, memory, socket, disk
<1>14. CASE Tick
  BY <1>14, <1>a DEF Tick, memory, disk, Call
<1>15. CASE Die
  BY <1>15 DEF Die, memory, socket, disk
<1>16. CASE Rerun
  BY <1>16 DEF Rerun, disk
<1>17. CASE UNCHANGED vars
  BY <1>17, <1>a DEF vars, memory, socket, disk, Call
<1> QED
  BY <1>1, <1>2, <1>3, <1>4, <1>5, <1>6, <1>7, <1>8, <1>9, <1>10, <1>11, <1>12, <1>13,
     <1>14, <1>15, <1>16, <1>17 DEF Next, Step

\* The content is filed before it is validated.
LEMMA ContentStep == TypeOK /\ Content /\ [Next]_vars => Content'
<1> SUFFICES ASSUME TypeOK, Content, [Next]_vars PROVE Content'
  OBVIOUS
<1> USE DEF Content, Acceptable, Exit, Raise
<1>1. CASE Extract
  BY <1>1 DEF Extract
<1>2. CASE Validate
  BY <1>2 DEF Validate, memory
<1>3. CASE Tick
  BY <1>3 DEF Tick, memory, disk
<1>4. CASE UNCHANGED vars
  BY <1>4 DEF vars, memory, disk
<1>5. CASE pc' \notin {"validate", "return"}
  BY <1>5
<1> QED
  BY <1>1, <1>2, <1>3, <1>4, <1>5 DEF Next, Step, Start, Prepare, Open, Note, Send, RequestFails,
     TimesOut, CallFails, Receive, File, Judge, JudgeFinal, JudgeAsking, Close, Return, Trickle, Die, Rerun

-----------------------------------------------------------------------------
(* The safety properties.                                                  *)

\* What the provider sees is noted before it is sent.
LEMMA CoverStep ==
    TypeOK /\ Directory /\ Dialogue /\ EffortCoversTraffic /\ [Next]_vars => EffortCoversTraffic'
<1> SUFFICES ASSUME TypeOK, Directory, Dialogue, EffortCoversTraffic, [Next]_vars, reading
             PROVE  EffortCoversTraffic'
  BY Constant DEF EffortCoversTraffic
<1>a. reading' /\ Call \in Nat /\ sent \in Nat /\ shown \in Nat /\ Returned(saved.reads) \in Nat
      /\ Returned(effort.reads) \in Nat
  <2>1. reading' /\ Call \in Nat /\ sent \in Nat /\ shown \in Nat
    <3>1. reading'
      BY Constant
    <3>2. Call \in Nat
      BY DEF TypeOK, Effort, Call
    <3>3. sent \in Nat /\ shown \in Nat
      BY DEF TypeOK
    <3> QED
      BY <3>1, <3>2, <3>3
  <2>2. Returned(effort.reads) \in Nat
    BY ReturnedBounds DEF TypeOK, Effort
  <2> QED
    BY <2>1, <2>2, SavedTypes
<1>1. files \subseteq files'
  BY DEF Next, Step, vars, Start, Prepare, Open, Note, Send, RequestFails, TimesOut, Receive,
     File, Judge, Close, Extract, Validate, Return, Trickle, Tick, Die, Rerun, disk
<1>2. CASE UNCHANGED <<sent, shown, saved>>
  BY <1>a, <1>1, <1>2 DEF EffortCoversTraffic
<1>3. CASE Note \/ Close
  <2>1. UNCHANGED <<sent, shown>> /\ (saved' = saved \/ saved' = effort) /\ pc \in {"note", "closing"}
    BY <1>3 DEF Note, Close, socket
  <2>2. Len(saved.calls) <= Call /\ Returned(saved.reads) <= Returned(effort.reads)
    BY <2>1 DEF Directory, Dialogue, Live
  <2>3. Len(saved.calls) \in Nat
    BY SavedTypes
  <2> QED
    BY <1>a, <1>1, <2>1, <2>2, <2>3 DEF EffortCoversTraffic, Call
<1>4. CASE Send
  <2>1. sent' = sent + 1 /\ shown' = Returned(saved.reads) /\ sent = Call - 1 /\ saved = effort
        /\ \A i \in 1..Call: <<"request", i>> \in files
    BY <1>4 DEF Send, Dialogue, Underway, Loop
  <2> QED
    BY <1>4, <1>a, <2>1 DEF Send, EffortCoversTraffic, Call, disk
<1> QED
  BY <1>2, <1>3, <1>4 DEF Next, Step, vars, socket, disk, Start, Prepare, Open, RequestFails, TimesOut,
     Receive, File, Judge, Extract, Validate, Return, Trickle, Tick, Die, Rerun

\* The limits of the loop are the limits of the traffic.
LEMMA BoundStep ==
    ASSUME TypeOK, Single, Dialogue, DialogueIsBounded, [Next]_vars,
           TypeOK', Directory', Single', EffortCoversTraffic'
    PROVE  DialogueIsBounded'
<1>b. UNCHANGED reading
  BY Constant
<1>0. Len(saved'.calls) \in Nat /\ Len(saved'.reads) \in Nat
      /\ Returned(saved'.reads) \in Nat /\ Returned(saved'.reads) <= Len(saved'.reads)
  <2>1. saved' = NoEffort \/ saved' \in Effort
    BY DEF TypeOK
  <2> QED
    BY <2>1, RecordTypes
<1>1. CASE ~reading
  <2>1. saved' = NoEffort /\ shown' = 0 /\ sent' <= 1 /\ ~reading'
    BY <1>1, <1>b DEF Single
  <2> QED
    BY <2>1, SavedTypes, LimitsAssumption DEF DialogueIsBounded
<1>2. CASE reading
  <2>1. saved' = saved \/ (saved' = effort /\ Live)
    BY DEF Next, Step, vars, Start, Prepare, Open, Note, Send, RequestFails, TimesOut, Receive,
       File, Judge, Close, Extract, Validate, Return, Trickle, Tick, Die, Rerun, disk, Live
  <2>2. Len(saved'.reads) <= MaxReads /\ Len(saved'.reads) <= saved'.requested
    BY <1>2, <2>1 DEF TypeOK, Dialogue, DialogueIsBounded
  <2>3. sent' <= Len(saved'.calls) /\ shown' <= Returned(saved'.reads)
    BY <1>2, <1>b DEF EffortCoversTraffic
  <2>4. Len(saved'.calls) <= MaxCalls /\ sent' \in Nat /\ shown' \in Nat /\ saved'.requested \in Nat
    <3>1. saved' \in Effort \/ saved' = NoEffort
      BY DEF TypeOK
    <3> QED
      BY <3>1, RecordTypes DEF TypeOK, Directory
  <2> QED
    BY <1>0, <1>2, <1>b, <2>2, <2>3, <2>4, LimitsAssumption DEF DialogueIsBounded
<1> QED
  BY <1>1, <1>2

\* The record is complete when the verdict is written, and nothing is written
\* after it.
LEMMA EarnedStep ==
    ASSUME TypeOK, Directory, Single, Dialogue, Content, VerdictIsEarned, [Next]_vars
    PROVE  VerdictIsEarned'
<1>b. UNCHANGED reading
  BY Constant
<1>0. files \subseteq files'
  BY DEF Next, Step, vars, Start, Prepare, Open, Note, Send, RequestFails, TimesOut, Receive,
     File, Judge, Close, Extract, Validate, Return, Trickle, Tick, Die, Rerun, disk
<1>1. CASE Validate
  <2>1. pc = "validate" /\ UNCHANGED <<files, saved, sent>>
    BY <1>1 DEF Validate, socket
  <2>2. CASE UNCHANGED verdict /\ exit' = 2
    BY <1>b, <2>1, <2>2 DEF VerdictIsEarned
  <2>3. CASE Acceptable /\ verdict' = content /\ UNCHANGED exit
    <3>1. verdict' # NoContent /\ verdict'.bound /\ ~(verdict'.pass /\ verdict'.blocking)
      BY <2>3 DEF Acceptable, NoContent
    <3>2. <<"provider-response", 0>> \in files'
      BY <2>1 DEF Content
    <3>3. reading => /\ saved'.status = "received" /\ sent' = Len(saved'.calls)
                     /\ \A i \in 1..sent': saved'.calls[i] = "received" /\ <<"response", i>> \in files'
      BY <2>1 DEF Dialogue, Final, Answered, Call
    <3> QED
      BY <1>b, <3>1, <3>2, <3>3 DEF VerdictIsEarned
  <2> QED
    BY <1>1, <2>2, <2>3 DEF Validate, Exit
<1>2. CASE verdict' = verdict /\ (exit' = exit \/ exit' # 0 \/ verdict # NoContent)
           /\ (verdict = NoContent \/ UNCHANGED <<saved, sent>>)
  BY <1>b, <1>0, <1>2 DEF VerdictIsEarned
<1>3. CASE Return
  <2>1. verdict # NoContent /\ UNCHANGED <<files, saved, sent, verdict>>
    BY <1>3 DEF Return, Content, Acceptable, NoContent, disk, socket
  <2> QED
    BY <1>b, <2>1 DEF VerdictIsEarned
<1>4. CASE Start
  BY <1>4, <1>2 DEF Start, Directory, Refused, socket, Exit
<1>5. CASE Send \/ Note \/ Close
  BY <1>5, <1>2 DEF Send, Note, Close, Directory, Live, disk, Exit, Raise
<1> QED
  BY <1>1, <1>2, <1>3, <1>4, <1>5 DEF Next, Step, vars, socket, disk, Prepare, Open, RequestFails, TimesOut,
     CallFails, Receive, File, Judge, Extract, Trickle, Tick, Die, Rerun, Exit, Raise

\* IInv holds at the start and every step keeps it.
LEMMA Inductive == (Init => IInv) /\ (IInv /\ [Next]_vars => IInv')
<1>1. Init => IInv
  <2> SUFFICES ASSUME Init PROVE IInv
    OBVIOUS
  <2>1. NewEffort \in Effort /\ Len(NewEffort.calls) = 0 /\ Len(NewEffort.reads) = 0
    BY DEF NewEffort, Effort
  <2>2. NoAnswer \in Answers /\ NoContent \in Contents
    BY DEF NoAnswer, Answers, NoContent, Contents
  <2>3. effort = NewEffort /\ saved = NoEffort /\ pc = "idle" /\ sent = 0 /\ shown = 0 /\ exit = -1
        /\ verdict = NoContent
    BY DEF Init
  <2>4. TypeOK
    <3>1. {now, allowance, sentAt, quiet, sent, shown} \subseteq Nat
      BY DEF Init
    <3>2. Len(effort.calls) <= MaxCalls /\ Len(effort.reads) <= MaxReads
      BY <2>1, <2>3, LimitsAssumption
    <3>3. files \subseteq Files
      BY DEF Init, Files, Once
    <3>4. evidence \in BOOLEAN /\ offered \in BOOLEAN /\ reading \in BOOLEAN
      BY DEF Init
    <3> QED
      BY <2>1, <2>2, <2>3, <3>1, <3>2, <3>3, <3>4 DEF Init, TypeOK
  <2>5. Directory
    BY <2>3, <2>4, SavedTypes, LimitsAssumption DEF Directory, Live
  <2>6. Single /\ Dialogue /\ Content
    BY <2>3, <2>4 DEF Single, Dialogue, Content, Live, Loop, Final
  <2>7. EffortCoversTraffic /\ DialogueIsBounded /\ VerdictIsEarned
    BY <2>3, <2>4, SavedTypes, LimitsAssumption DEF EffortCoversTraffic, DialogueIsBounded, VerdictIsEarned
  <2> QED
    BY <2>4, <2>5, <2>6, <2>7 DEF IInv
<1>2. IInv /\ [Next]_vars => IInv'
  <2> SUFFICES ASSUME IInv, [Next]_vars PROVE IInv'
    OBVIOUS
  <2> USE DEF IInv
  <2>1. TypeOK' /\ Directory' /\ Single' /\ Dialogue' /\ Content'
    BY TypeStep, DirectoryStep, SingleStep, DialogueStep, ContentStep
  <2>2. EffortCoversTraffic'
    BY CoverStep
  <2>3. DialogueIsBounded'
    BY <2>1, <2>2, BoundStep
  <2>4. VerdictIsEarned'
    BY EarnedStep
  <2> QED
    BY <2>1, <2>2, <2>3, <2>4
<1> QED
  BY <1>1, <1>2

\* The inductive invariant holds throughout every behaviour of the reviews on one
\* evidence directory.
THEOREM Invariant == Spec => []IInv
BY Inductive, PTL DEF Spec

\* Every variable keeps its type, and the record its limits.
THEOREM TypeCorrect == Spec => []TypeOK
<1>1. IInv => TypeOK
  BY DEF IInv
<1> QED
  BY <1>1, Invariant, PTL

\* Whatever a review dies of, effort.json and the request files cover all that
\* the provider has seen.
THEOREM TrafficIsCovered == Spec => []EffortCoversTraffic
<1>1. IInv => EffortCoversTraffic
  BY DEF IInv
<1> QED
  BY <1>1, Invariant, PTL

\* The provider never gets more calls or reads than the limits allow, over all
\* runs on one directory.
THEOREM TrafficIsBounded == Spec => []DialogueIsBounded
<1>1. IInv => DialogueIsBounded
  BY DEF IInv
<1> QED
  BY <1>1, Invariant, PTL

\* verdict.json exists only with the complete record of a finished dialogue and
\* never passes what it blocks.
THEOREM VerdictsAreEarned == Spec => []VerdictIsEarned
<1>1. IInv => VerdictIsEarned
  BY DEF IInv
<1> QED
  BY <1>1, Invariant, PTL

\* The dialogue ends with a complete answer within the deadline, and nothing is
\* sent after it.
THEOREM EndsTimely == Spec => EndsInTime
<1>1. IInv /\ [Next]_vars =>
        /\ effort.status # "received" /\ effort'.status = "received" => now <= Timeout /\ answer.stop
        /\ sent' # sent => effort.status = "incomplete" /\ saved.status # "received"
  <2> SUFFICES ASSUME IInv, [Next]_vars
               PROVE  /\ effort.status # "received" /\ effort'.status = "received" =>
                            now <= Timeout /\ answer.stop
                      /\ sent' # sent => effort.status = "incomplete" /\ saved.status # "received"
    OBVIOUS
  <2>1. sent' # sent => effort.status = "incomplete" /\ saved.status # "received"
    <3>1. sent' = sent \/ pc = "send"
      BY DEF Next, Step, vars, socket, Start, Prepare, Open, Note, Send, RequestFails, TimesOut,
         Receive, File, Judge, Close, Extract, Validate, Return, Trickle, Tick, Die, Rerun
    <3>2. ~reading => effort.status = "incomplete" /\ saved.status # "received"
      BY SavedTypes DEF IInv, Single, NewEffort
    <3> QED
      BY <3>1, <3>2 DEF IInv, Dialogue, Loop
  <2>2. effort.status # "received" /\ effort'.status = "received" => now <= Timeout /\ answer.stop
    <3>0. effort \in Effort
      BY DEF IInv, TypeOK
    <3>1. CASE effort' = effort \/ effort' = NewEffort
      BY <3>1 DEF NewEffort
    <3>2. CASE Judge
      BY <3>2, Judged DEF IInv, Dialogue, Single, Judge
    <3>3. CASE Open
      <4>1. ASSUME NEW status \in {"attempted", "not_sent"},
                   effort' = [effort EXCEPT !.calls = Append(@, status)]
            PROVE  effort'.status = effort.status
        BY <3>0, <4>1, Appended
      <4> QED
        BY <3>3, <4>1, Opened DEF IInv
    <3>4. CASE Receive
      BY <3>0, <3>4 DEF Receive, Effort
    <3> QED
      BY <3>1, <3>2, <3>3, <3>4 DEF Next, Step, vars, memory, Start, Prepare, Note, Send, RequestFails,
         TimesOut, File, Close, Extract, Validate, Return, Trickle, Tick, Die, Rerun
  <2> QED
    BY <2>1, <2>2
<1>2. IInv /\ [Next]_vars =>
        [/\ effort.status # "received" /\ effort'.status = "received" => now <= Timeout /\ answer.stop
         /\ sent' # sent => effort.status = "incomplete" /\ saved.status # "received"]_vars
  BY <1>1
<1> QED
  BY <1>2, Invariant, PTL DEF Spec, EndsInTime

\* Files are only added, effort.json only learns more, and a directory in use is
\* left as it is.
THEOREM EvidenceStays == Spec => EvidenceIsFinal
<1>1. IInv /\ [Next]_vars =>
        /\ files \subseteq files'
        /\ Len(saved.calls) <= Len(saved'.calls) /\ Len(saved.reads) <= Len(saved'.reads)
        /\ verdict # NoContent \/ pc = "exited" => UNCHANGED <<disk, sent, shown>>
  <2> SUFFICES ASSUME IInv, [Next]_vars
               PROVE  /\ files \subseteq files'
                      /\ Len(saved.calls) <= Len(saved'.calls) /\ Len(saved.reads) <= Len(saved'.reads)
                      /\ verdict # NoContent \/ pc = "exited" => UNCHANGED <<disk, sent, shown>>
    OBVIOUS
  <2>1. files \subseteq files'
    BY DEF Next, Step, vars, Start, Prepare, Open, Note, Send, RequestFails, TimesOut, Receive,
       File, Judge, Close, Extract, Validate, Return, Trickle, Tick, Die, Rerun, disk
  <2>2. saved' = saved \/ (saved' = effort /\ Live)
    BY DEF Next, Step, vars, Start, Prepare, Open, Note, Send, RequestFails, TimesOut, Receive,
       File, Judge, Close, Extract, Validate, Return, Trickle, Tick, Die, Rerun, disk, Live
  <2>3. Len(saved.calls) <= Len(saved'.calls) /\ Len(saved.reads) <= Len(saved'.reads)
    BY <2>2, SavedTypes DEF IInv, Directory, Call
  <2>4. verdict # NoContent \/ pc = "exited" => UNCHANGED <<disk, sent, shown>>
    <3>1. verdict # NoContent => files # {} /\ pc \in {"idle", "exited", "return"}
      BY DEF IInv, Directory, Live
    <3>2. pc \in {"idle", "exited", "return"} =>
            UNCHANGED <<disk, sent, shown>> \/ (Start /\ ~Refused)
      BY DEF Next, Step, vars, Start, Prepare, Open, Note, Send, RequestFails, TimesOut, Receive,
         File, Judge, Close, Extract, Validate, Return, Trickle, Tick, Die, Rerun, disk, socket
    <3> QED
      BY <3>1, <3>2 DEF Refused, Start
  <2> QED
    BY <2>1, <2>3, <2>4
<1>2. IInv /\ [Next]_vars =>
        [/\ files \subseteq files'
         /\ Len(saved.calls) <= Len(saved'.calls) /\ Len(saved.reads) <= Len(saved'.reads)
         /\ verdict # NoContent \/ pc = "exited" => UNCHANGED <<disk, sent, shown>>]_vars
  BY <1>1
<1> QED
  BY <1>2, Invariant, PTL DEF Spec, EvidenceIsFinal

-----------------------------------------------------------------------------
(* The deadline.                                                           *)

\* A request is given up when the socket has been silent for its allowance, and
\* while nothing arrives the silence is as old as the request.
Silent ==
    pc = "waiting" => quiet <= allowance /\ now - sentAt = quiet

\* Only a provider that sends a little at a time makes a call outlast what was
\* left of the deadline.
LEMMA StaysSilent ==
    ASSUME TypeOK, Silent, [Next]_vars, [~Trickle]_vars
    PROVE  Silent'
<1>0. now \in Nat /\ allowance \in Nat /\ sentAt \in Nat /\ quiet \in Nat
  BY DEF TypeOK
<1>1. CASE Send
  BY <1>0, <1>1 DEF Silent, Send, memory
<1>2. CASE Tick
  BY <1>0, <1>2 DEF Silent, Tick, memory
<1>3. CASE Trickle
  <2>1. quiet' # quiet
    BY <1>0, <1>3 DEF Trickle
  <2> QED
    BY <1>3, <2>1 DEF vars, socket
<1>4. CASE RequestFails \/ TimesOut \/ Die
  BY <1>4 DEF Silent, RequestFails, TimesOut, Die, CallFails, Raise, Exit
<1>5. CASE Start \/ Prepare \/ Open \/ Note \/ Close
  BY <1>5 DEF Silent, Start, Prepare, Open, Note, Close, Raise, Exit
<1>6. CASE Receive \/ File \/ Judge
  BY <1>6 DEF Silent, Receive, File, Judge, JudgeFinal, JudgeAsking, Raise, Exit
<1>7. CASE Extract \/ Validate \/ Return \/ Rerun
  BY <1>7 DEF Silent, Extract, Validate, Return, Rerun, Exit
<1>8. CASE UNCHANGED vars
  BY <1>8 DEF Silent, vars, memory, socket
<1> QED
  BY <1>1, <1>2, <1>3, <1>4, <1>5, <1>6, <1>7, <1>8 DEF Next, Step

\* What DeadlineBoundsCalls takes: with a provider that answers at once or not at
\* all, no request is waited for longer than what was left of the deadline.
THEOREM OnlyTricklesOutlast == Spec /\ [][~Trickle]_vars => []DeadlineBoundsCalls
<1>1. Init => Silent
  BY DEF Init, Silent
<1>2. IInv /\ Silent /\ [Next]_vars /\ [~Trickle]_vars => Silent'
  BY StaysSilent DEF IInv
<1>3. IInv /\ Silent => DeadlineBoundsCalls
  BY DEF IInv, TypeOK, Silent, DeadlineBoundsCalls
<1> QED
  BY <1>1, <1>2, <1>3, Invariant, PTL DEF Spec

-----------------------------------------------------------------------------
(* The way to the end.                                                     *)

\* How far each statement is from the end, within one turn of the loop.
Index ==
    [idle |-> 12, prepare |-> 6, open |-> 5, note |-> 12, send |-> 11, waiting |-> 10,
     answered |-> 9, judge |-> 8, closing |-> 4, extract |-> 3, validate |-> 2,
     return |-> 1, exited |-> 0]

\* At most so many statements are left: what is left of this turn, and whole turns
\* for the calls that have not been made.
Left ==
    Index[pc] + (IF pc \in Loop \cup {"idle", "prepare"} THEN 8 * (MaxCalls - Call) ELSE 0)

\* Every statement brings the review closer to its end, whatever the provider
\* answers, and only a new run is farther away.
Approaches ==
    /\ Left \in 0..(8 * MaxCalls + 12)
    /\ Step => Left' < Left
    /\ Left' > Left => Rerun

\* The numbers are at most 12, and the sum keeps its bound.
LEMMA Indices == Index \in [DOMAIN Index -> 0..12]
BY DEF Index

LEMMA Ranges ==
    ASSUME NEW i \in 0..12, NEW k \in 0..MaxCalls
    PROVE  i + 8 * (MaxCalls - k) \in 0..(8 * MaxCalls + 12) /\ i + 0 \in 0..(8 * MaxCalls + 12)
BY LimitsAssumption

LEMMA CallRange == ASSUME NEW e \in Effort, Len(e.calls) <= MaxCalls PROVE Len(e.calls) \in 0..MaxCalls
BY LimitsAssumption DEF Effort

\* Only opening a call costs a turn, and only a granted batch of reads turns back.
LEMMA ApproachStep ==
    ASSUME IInv, IInv', Step
    PROVE  Left' < Left
<1>a. /\ TypeOK /\ TypeOK' /\ effort \in Effort /\ effort' \in Effort /\ MaxCalls \in Nat
      /\ Len(effort.calls) <= MaxCalls /\ Len(effort'.calls) <= MaxCalls
  BY LimitsAssumption DEF IInv, TypeOK
<1>b. Len(effort.calls) \in 0..MaxCalls /\ Len(effort'.calls) \in 0..MaxCalls
  BY <1>a, CallRange
<1>0. /\ TypeOK /\ TypeOK' /\ effort \in Effort /\ MaxCalls \in Nat
      /\ Call \in 0..MaxCalls /\ Call' \in 0..MaxCalls
  BY <1>a, <1>b DEF Call
<1>1. CASE Open
  <2>1. CASE pc' # "note"
    <3>1. pc = "open" /\ pc' \in {"closing", "exited"}
      BY <1>1, <2>1, Opened, <1>0 DEF Open
    <3> HIDE DEF Call
    <3> QED
      BY <1>0, <3>1 DEF Left, Index, Loop
  <2>2. CASE pc' = "note"
    <3>1. pc = "open"
      BY <1>1 DEF Open
    <3>2. \E status \in {"attempted", "not_sent"}:
             effort' = [effort EXCEPT !.calls = Append(@, status)]
      BY <1>0, <1>1, <2>2, Opened
    <3>3. Call' = Call + 1
      BY <1>0, <3>2, Appended DEF Call
    <3> HIDE DEF Call
    <3> QED
      BY <1>0, <2>2, <3>1, <3>3 DEF Left, Index, Loop
  <2> QED
    BY <2>1, <2>2
<1>2. ASSUME Call' = Call, Index[pc'] < Index[pc],
             pc' \in Loop \cup {"idle", "prepare"} => pc \in Loop \cup {"idle", "prepare"}
      PROVE  Left' < Left
  <2>1. Index[pc] \in 0..12 /\ Index[pc'] \in 0..12
    <3>1. pc \in DOMAIN Index
      BY <1>0 DEF TypeOK, Index
    <3>2. pc' \in DOMAIN Index
      BY <1>0 DEF TypeOK, Index
    <3> QED
      BY <3>1, <3>2, Indices
  <2> DEFINE i == Index[pc]
             j == Index[pc']
             turns == 8 * (MaxCalls - Call)
  <2>2. turns \in Nat /\ 8 * (MaxCalls - Call') = turns
    BY <1>0, <1>2
  <2>3. i \in Nat /\ j \in Nat /\ j < i
    BY <1>2, <2>1
  <2>4. Left = i + (IF pc \in Loop \cup {"idle", "prepare"} THEN turns ELSE 0)
    BY DEF Left
  <2>5. Left' = j + (IF pc' \in Loop \cup {"idle", "prepare"} THEN turns ELSE 0)
    <3>1. Left' = Index[pc'] + (IF pc' \in Loop \cup {"idle", "prepare"} THEN 8 * (MaxCalls - Call') ELSE 0)
      BY DEF Left, Index, Loop
    <3> QED
      BY <2>2, <3>1
  <2> HIDE DEF i, j, turns
  <2> QED
    BY <1>2, <2>2, <2>3, <2>4, <2>5
<1>3. CASE Start \/ Prepare \/ Note \/ Send \/ RequestFails \/ TimesOut \/ File
  <2>1. Call' = Call
    BY <1>3 DEF Call, Start, Prepare, Note, Send, RequestFails, TimesOut, File, memory
  <2> QED
    BY <1>2, <1>3, <2>1 DEF Index, Loop, Start, Prepare, Note, Send, RequestFails, TimesOut, File, CallFails, Raise, Exit
<1>4. CASE Receive
  <2>1. CASE reading
    <3>1. Call > 0
      BY <1>4, <2>1 DEF IInv, Dialogue, Underway, Loop, Receive
    <3>2. effort' = [effort EXCEPT !.calls[Call] = "received"] /\ pc = "waiting" /\ pc' = "answered"
      BY <1>4, <2>1 DEF Receive
    <3>3. Call' = Call
      BY <1>0, <3>1, <3>2, Arrived DEF Call
    <3> QED
      BY <1>2, <3>2, <3>3 DEF Index, Loop
  <2>2. CASE ~reading
    BY <1>2, <1>4, <2>2 DEF Receive, Index, Loop, Call
  <2> QED
    BY <2>1, <2>2
<1>5. CASE Judge
  <2>1. pc = "judge" /\ answer.kind # "malformed"
    BY <1>5 DEF IInv, Dialogue, Single, Judge
  <2>2. effort'.calls = effort.calls /\ pc' \in {"open", "closing"}
    BY <1>0, <1>5, <2>1, Judged
  <2> QED
    BY <1>2, <2>1, <2>2 DEF Index, Loop, Call
<1>6. CASE Close \/ Extract \/ Validate \/ Return
  <2>1. Call' = Call
    BY <1>6 DEF Call, Close, Extract, Validate, Return, memory
  <2> QED
    BY <1>2, <1>6, <2>1 DEF Index, Loop, Close, Extract, Validate, Return, Exit
<1> QED
  BY <1>1, <1>3, <1>4, <1>5, <1>6 DEF Step

\* No dialogue goes on for ever: whatever is asked and answered, a review takes a
\* number of statements that the limit on calls bounds.
THEOREM RunsAdvance == Spec => [][Approaches]_vars
<1>1. IInv /\ IInv' /\ [Next]_vars => [Approaches]_vars
  <2> SUFFICES ASSUME IInv, IInv', [Next]_vars PROVE [Approaches]_vars
    OBVIOUS
  <2>1. Left \in 0..(8 * MaxCalls + 12) /\ Left' \in 0..(8 * MaxCalls + 12)
    <3>1. Index[pc] \in 0..12 /\ Index[pc'] \in 0..12
      <4>1. pc \in DOMAIN Index
        BY DEF IInv, TypeOK, Index
      <4>2. pc' \in DOMAIN Index
        BY DEF IInv, TypeOK, Index
      <4> QED
        BY <4>1, <4>2, Indices
    <3>2. Call \in 0..MaxCalls /\ Call' \in 0..MaxCalls
      <4>1. /\ effort \in Effort /\ effort' \in Effort
            /\ Len(effort.calls) <= MaxCalls /\ Len(effort'.calls) <= MaxCalls
        BY DEF IInv, TypeOK
      <4> QED
        BY <4>1, CallRange DEF Call
    <3>3. Left' = Index[pc'] + (IF pc' \in Loop \cup {"idle", "prepare"} THEN 8 * (MaxCalls - Call') ELSE 0)
      BY DEF Left, Index, Loop
    <3> HIDE DEF Call, Index
    <3>4. Left \in 0..(8 * MaxCalls + 12)
      BY <3>1, <3>2, Ranges DEF Left
    <3>5. Left' \in 0..(8 * MaxCalls + 12)
      BY <3>1, <3>2, <3>3, Ranges
    <3> QED
      BY <3>4, <3>5
  <2>2. MaxCalls \in Nat
    BY LimitsAssumption
  <2>3. CASE Step
    <3>1. Left' < Left
      BY <2>3, ApproachStep
    <3> HIDE DEF Left
    <3> QED
      BY <2>1, <2>2, <3>1 DEF Approaches
  <2>4. CASE Die /\ ~Step
    <3>1. Left' = 0
      BY <2>4 DEF Die, Exit, Left, Index, Loop
    <3> HIDE DEF Left
    <3> QED
      BY <2>1, <2>2, <2>4, <3>1 DEF Approaches
  <2>5. CASE (Tick \/ Trickle) /\ ~Step
    <3>1. Left' = Left
      BY <2>5 DEF Tick, Trickle, memory, Left, Call
    <3> HIDE DEF Left
    <3> QED
      BY <2>1, <2>2, <2>5, <3>1 DEF Approaches
  <2>6. CASE Rerun /\ ~Step
    BY <2>1, <2>6 DEF Approaches
  <2> QED
    BY <2>3, <2>4, <2>5, <2>6 DEF Next
<1> QED
  BY <1>1, Invariant, PTL DEF Spec
=============================================================================
