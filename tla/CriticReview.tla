---------------------------- MODULE CriticReview ----------------------------
(***************************************************************************)
(* examples/openai-compatible-critic: critic.py sends one sealed packet to *)
(* a provider and checks the verdict it gets back; with --evidence-reads,  *)
(* run_review() of evidence_review.py holds a bounded dialogue instead, in *)
(* which the provider may read excerpts moved out of the packet.           *)
(*                                                                         *)
(* A step is what happens between two points at which the process can die, *)
(* time can pass or the provider can act: the writes of evidence files and *)
(* the two ends of a request.  What packets, prompts and excerpts say is   *)
(* left out; so is what an excerpt's hash and slice are, beyond whether    *)
(* the read they describe is granted.                                      *)
(***************************************************************************)
EXTENDS Integers, Sequences, FiniteSets

CONSTANTS
    Timeout,  \* --timeout-seconds
    MaxCalls, \* range(3): calls in one dialogue
    MaxReads, \* 8: reads in one dialogue
    MaxTime   \* bound: the clock stops here

ASSUME LimitsAssumption == Timeout \in Nat \ {0} /\ MaxCalls \in Nat \ {0} /\ MaxReads \in Nat
ASSUME BoundsAssumption == MaxTime \in Nat

VARIABLES
    pc,        \* where the process stands
    reading,   \* --evidence-reads
    now,       \* seconds since the review started
    effort,    \* the dictionary run_review() fills in
    evidence,  \* some excerpt was moved out of the packet
    offered,   \* the request under way offers read_evidence
    allowance, \* the timeout given to urlopen()
    sentAt,    \* when the request under way was sent
    quiet,     \* how long the socket has been silent
    answer,    \* the provider's message
    content,   \* the final assistant content
    exit,      \* the exit code, or -1
    files,     \* the evidence files, effort.json and verdict.json apart
    saved,     \* effort.json
    verdict,   \* verdict.json
    sent,      \* requests that have left for the provider
    shown      \* read results that have left for the provider

memory == <<effort, evidence, offered, allowance, answer, content>>
socket == <<sentAt, quiet, sent, shown>>
disk == <<files, saved, verdict>>
vars == <<pc, reading, now, memory, socket, exit, disk>>

Once == {"leftover", "packet", "prepared", "provider-response"}
Files == (Once \X {0}) \union ({"request", "response"} \X (1..MaxCalls))

Effort ==
    [status: {"incomplete", "received"}, calls: Seq({"attempted", "not_sent", "received"}),
     reads: Seq({"rejected", "returned"}), requested: Nat]
NewEffort == [status |-> "incomplete", calls |-> <<>>, reads |-> <<>>, requested |-> 0]
NoEffort == [NewEffort EXCEPT !.status = "none"]

\* A message that is none, one that asks for reads, or a final one.
Answers ==
    [kind: {"malformed", "final"}, reads: {0}, stop: BOOLEAN]
    \union [kind: {"asking"}, reads: 1..(MaxReads + 1), stop: {FALSE}]
NoAnswer == [kind |-> "malformed", reads |-> 0, stop |-> FALSE]

\* Whether there is any text, whether it is JSON that fits the schema, whether
\* it names the revision, family and model of this review, and what it says.
Contents == [text: BOOLEAN, schema: BOOLEAN, bound: BOOLEAN, pass: BOOLEAN, blocking: BOOLEAN]
NoContent == [text |-> FALSE, schema |-> FALSE, bound |-> FALSE, pass |-> FALSE, blocking |-> FALSE]

Init ==
    /\ pc = "idle"
    /\ reading \in BOOLEAN
    /\ now = 0 /\ effort = NewEffort /\ evidence = FALSE /\ offered = FALSE
    /\ allowance = 0 /\ sentAt = 0 /\ quiet = 0 /\ answer = NoAnswer /\ content = NoContent
    /\ exit = -1
    /\ files \in {{}, {<<"leftover", 0>>}}
    /\ saved = NoEffort /\ verdict = NoContent
    /\ sent = 0 /\ shown = 0

-----------------------------------------------------------------------------

Call == Len(effort.calls)
Returned(reads) == Cardinality({i \in 1..Len(reads): reads[i] = "returned"})

\* main() prints a HarnessError and returns 2; what it does not catch ends in 1.
Exit(code) == pc' = "exited" /\ exit' = code

\* The finally clause of run_review() stands between an error and the exit.
Raise == IF reading THEN pc' = "closing" /\ UNCHANGED exit ELSE Exit(2)

Refused == files # {}

\* run() up to the first use of the provider.  Packets, environment and families
\* that are refused leave nothing behind.
Start ==
    /\ pc = "idle"
    /\ \/ Exit(2) /\ UNCHANGED <<files, allowance>>
       \/ /\ ~Refused
          /\ files' = files \union {<<"packet", 0>>}
          /\ allowance' = Timeout
          /\ pc' = IF reading THEN "prepare" ELSE "send"
          /\ UNCHANGED exit
    /\ UNCHANGED <<reading, now, effort, evidence, offered, answer, content, socket, saved, verdict>>

\* compact_generated_context() and the prepared packet, or what it refuses.
Prepare ==
    /\ pc = "prepare"
    /\ \/ Raise /\ UNCHANGED <<files, evidence>>
       \/ /\ evidence' \in BOOLEAN
          /\ files' = files \union {<<"prepared", 0>>}
          /\ pc' = "open"
          /\ UNCHANGED exit
    /\ UNCHANGED <<reading, now, effort, offered, allowance, answer, content, socket, saved, verdict>>

ToolsAvailable == evidence /\ Call < MaxCalls - 1 /\ Len(effort.reads) < MaxReads

\* The head of the loop and the first half of on_request(): the request file.
Open ==
    /\ pc = "open"
    /\ \/ /\ now >= Timeout \/ Call = MaxCalls
          /\ Raise
          /\ UNCHANGED <<effort, offered, allowance, files>>
       \/ /\ now < Timeout /\ Call < MaxCalls
          /\ allowance' = Timeout - now
          /\ offered' = ToolsAvailable
          /\ \/ \E status \in {"not_sent", "attempted"}: \* too large; cannot be written
                    /\ effort' = [effort EXCEPT !.calls = Append(@, status)]
                    /\ Raise
                    /\ UNCHANGED files
             \/ /\ effort' = [effort EXCEPT !.calls = Append(@, "attempted")]
                /\ files' = files \union {<<"request", Call + 1>>}
                /\ pc' = "note"
                /\ UNCHANGED exit
    /\ UNCHANGED <<reading, now, evidence, answer, content, socket, saved, verdict>>

\* Slip: effort.json is left to the finally clause.
NoteLater ==
    /\ pc = "note"
    /\ pc' = "send"
    /\ UNCHANGED <<reading, now, memory, socket, exit, disk>>

\* The second half of on_request(): effort.json.
Note ==
    /\ pc = "note"
    /\ \/ Raise /\ UNCHANGED saved
       \/ saved' = effort /\ pc' = "send" /\ UNCHANGED exit
    /\ UNCHANGED <<reading, now, memory, socket, files, verdict>>

-----------------------------------------------------------------------------
(* urlopen() and the provider.                                             *)

Send ==
    /\ pc = "send"
    /\ sent' = sent + 1
    /\ shown' = Returned(effort.reads)
    /\ sentAt' = now /\ quiet' = 0
    /\ pc' = "waiting"
    /\ UNCHANGED <<reading, now, memory, exit, disk>>

\* Part of a response arrives.
Trickle ==
    /\ pc = "waiting" /\ quiet > 0
    /\ quiet' = 0
    /\ UNCHANGED <<pc, reading, now, memory, sentAt, sent, shown, exit, disk>>

\* What urlopen() raises before the headers becomes a HarnessError, what it raises
\* in the body is caught by nobody but the finally clause.
CallFails == Raise \/ (~reading /\ Exit(1))

\* An HTTP error, a lost connection, or a body that is no JSON object.
RequestFails ==
    /\ pc = "waiting"
    /\ CallFails
    /\ UNCHANGED <<reading, now, memory, socket, disk>>

\* The socket has been silent for the whole allowance.
TimesOut ==
    /\ pc = "waiting" /\ quiet >= allowance
    /\ CallFails
    /\ UNCHANGED <<reading, now, memory, socket, disk>>

\* A response that is a JSON object; run_review() notes its arrival.
Receive ==
    /\ pc = "waiting"
    /\ answer' \in Answers
    /\ IF reading
       THEN /\ effort' = [effort EXCEPT !.calls[Call] = "received"]
            /\ pc' = "answered"
       ELSE /\ pc' = "extract"
            /\ UNCHANGED effort
    /\ UNCHANGED <<reading, now, evidence, offered, allowance, content, socket, exit, disk>>

-----------------------------------------------------------------------------
(* run_review() on a response.                                             *)

\* A response that is a message is filed before anything is made of it.
File ==
    /\ pc = "answered"
    /\ \/ Raise /\ UNCHANGED files
       \/ /\ answer.kind # "malformed"
          /\ files' = files \union {<<"response", Call>>}
          /\ pc' = "judge"
          /\ UNCHANGED exit
    /\ UNCHANGED <<reading, now, memory, socket, saved, verdict>>

\* The reads of one message, in order, up to the first that is refused: it is on
\* record unless its arguments are not even JSON.
Outcomes(n) ==
    {[i \in 1..n |-> "returned"]}
    \union {[i \in 1..k |-> "returned"] : k \in 0..(n - 1)}
    \union {[i \in 1..k |-> IF i = k THEN "rejected" ELSE "returned"] : k \in 1..n}

\* Slip: the batch is granted whatever was read before.
OverBudgetAlone == ~offered \/ answer.reads > MaxReads

OverBudget == ~offered \/ answer.reads + Len(effort.reads) > MaxReads

\* A final message, complete and in time, leaves the loop.
JudgeFinal ==
    /\ answer.kind = "final"
    /\ IF answer.stop THEN effort' = [effort EXCEPT !.status = "received"] ELSE UNCHANGED effort
    /\ pc' = "closing"

JudgeAsking ==
    /\ answer.kind = "asking"
    /\ LET asked == [effort EXCEPT !.requested = @ + answer.reads]
       IN  \/ OverBudget /\ effort' = asked /\ pc' = "closing"
           \/ /\ ~OverBudget
              /\ \E outcome \in Outcomes(answer.reads):
                    /\ effort' = [asked EXCEPT !.reads = @ \o outcome]
                    /\ pc' = IF Returned(outcome) = answer.reads THEN "open" ELSE "closing"

\* Slip: a batch over the budget is neither read nor refused.
JudgeWithinBudget ==
    /\ pc = "judge"
    /\ answer.kind = "asking" => ~OverBudget
    /\ \/ now > Timeout /\ pc' = "closing" /\ UNCHANGED effort
       \/ now <= Timeout /\ (JudgeFinal \/ JudgeAsking)
    /\ UNCHANGED <<reading, now, evidence, offered, allowance, answer, content, socket, exit, disk>>

\* Slip: a late response is judged like any other.
JudgeLate ==
    /\ pc = "judge"
    /\ JudgeFinal \/ JudgeAsking
    /\ UNCHANGED <<reading, now, evidence, offered, allowance, answer, content, socket, exit, disk>>

Judge ==
    /\ pc = "judge"
    /\ \/ now > Timeout /\ pc' = "closing" /\ UNCHANGED effort
       \/ now <= Timeout /\ (JudgeFinal \/ JudgeAsking)
    /\ UNCHANGED <<reading, now, evidence, offered, allowance, answer, content, socket, exit, disk>>

\* Slip: the verdict is extracted whatever became of the dialogue.
CloseAnyway ==
    /\ pc = "closing"
    /\ saved' = effort
    /\ pc' = "extract"
    /\ UNCHANGED <<reading, now, memory, socket, exit, files, verdict>>

\* The finally clause: effort.json once more, then the response or the error.
\* Only an error of the call itself, which leaves its record as attempted, can be
\* one that main() does not catch.
Close ==
    /\ pc = "closing"
    /\ \/ Exit(2) /\ UNCHANGED saved \* effort.json cannot be written
       \/ /\ saved' = effort
          /\ IF effort.status = "received" THEN pc' = "extract" /\ UNCHANGED exit
             ELSE \E code \in {1, 2}:
                    /\ code = 1 => Call > 0 /\ effort.calls[Call] = "attempted"
                    /\ Exit(code)
    /\ UNCHANGED <<reading, now, memory, socket, files, verdict>>

-----------------------------------------------------------------------------
(* run() on the payload.                                                   *)

\* extract_content() and the provider's record.
Extract ==
    /\ pc = "extract"
    /\ \/ Exit(2) /\ UNCHANGED <<content, files>>
       \/ /\ answer.kind # "malformed"
          /\ content' \in {c \in Contents: c.text}
          /\ files' = files \union {<<"provider-response", 0>>}
          /\ pc' = "validate"
          /\ UNCHANGED exit
    /\ UNCHANGED <<reading, now, effort, evidence, offered, allowance, answer, socket, saved, verdict>>

Acceptable == content.schema /\ content.bound /\ ~(content.pass /\ content.blocking)

Validate ==
    /\ pc = "validate"
    /\ \/ Exit(2) /\ UNCHANGED verdict
       \/ /\ Acceptable
          /\ verdict' = content
          /\ pc' = "return"
          /\ UNCHANGED exit
    /\ UNCHANGED <<reading, now, memory, socket, files, saved>>

Return ==
    /\ pc = "return"
    /\ Exit(0)
    /\ UNCHANGED <<reading, now, memory, socket, disk>>

-----------------------------------------------------------------------------
(* Time, the end of the process, and a second run.                         *)

\* urlopen() times out on time.
Tick ==
    /\ pc \notin {"idle", "exited"}
    /\ now < MaxTime
    /\ pc = "waiting" => quiet < allowance
    /\ now' = now + 1
    /\ quiet' = IF pc = "waiting" THEN quiet + 1 ELSE quiet
    /\ UNCHANGED <<pc, reading, memory, sentAt, sent, shown, exit, disk>>

Die ==
    /\ pc \notin {"idle", "exited"}
    /\ Exit(1)
    /\ UNCHANGED <<reading, now, memory, socket, disk>>

Rerun ==
    /\ pc = "exited"
    /\ pc' = "idle" /\ exit' = -1
    /\ now' = 0 /\ effort' = NewEffort /\ evidence' = FALSE /\ offered' = FALSE
    /\ allowance' = 0 /\ sentAt' = 0 /\ quiet' = 0 /\ answer' = NoAnswer /\ content' = NoContent
    /\ UNCHANGED <<reading, sent, shown, disk>>

Step ==
    \/ Start \/ Prepare \/ Open \/ Note \/ Send
    \/ RequestFails \/ TimesOut \/ Receive
    \/ File \/ Judge \/ Close
    \/ Extract \/ Validate \/ Return

Next == Step \/ Trickle \/ Tick \/ Die \/ Rerun

Spec == Init /\ [][Next]_vars
LiveSpec == Spec /\ WF_vars(Step)

-----------------------------------------------------------------------------
(* Properties.                                                             *)

\* Every variable holds what the code can put there, within the loop's limits.
TypeOK ==
    /\ pc \in {"idle", "prepare", "open", "note", "send", "waiting", "answered", "judge",
               "closing", "extract", "validate", "return", "exited"}
    /\ reading \in BOOLEAN /\ evidence \in BOOLEAN /\ offered \in BOOLEAN
    /\ {now, allowance, sentAt, quiet, sent, shown} \subseteq Nat
    /\ effort \in Effort /\ Len(effort.calls) <= MaxCalls /\ Len(effort.reads) <= MaxReads
    /\ (saved = NoEffort \/ saved \in Effort)
    /\ answer \in Answers /\ content \in Contents /\ verdict \in Contents
    /\ exit \in {-1, 0, 1, 2}
    /\ files \subseteq Files

\* README.md of the critic: effort.json retains every attempted call, failures
\* included.  Whatever the process dies of, each request the provider has seen is
\* on disk, as an attempt in effort.json and as a request file, and so are all the
\* reads it has been shown.
EffortCoversTraffic ==
    reading =>
        /\ sent <= Len(saved.calls)
        /\ \A i \in 1..sent: <<"request", i>> \in files
        /\ shown <= Returned(saved.reads)

\* The dialogue keeps its limits over all runs on one directory: no more calls and
\* reads than allowed, and the provider is shown no more reads than it asked for.
DialogueIsBounded ==
    /\ sent <= IF reading THEN MaxCalls ELSE 1
    /\ shown <= saved.requested
    /\ Len(saved.reads) <= MaxReads /\ Len(saved.reads) <= saved.requested

\* A verdict rests on a complete record: the dialogue ended with a final response,
\* effort.json and the response files tell all of it, and the verdict is bound to
\* this review and passes nothing that it blocks.
VerdictIsEarned ==
    /\ verdict # NoContent =>
        /\ <<"provider-response", 0>> \in files
        /\ verdict.bound /\ ~(verdict.pass /\ verdict.blocking)
        /\ reading => /\ saved.status = "received"
                      /\ sent = Len(saved.calls)
                      /\ \A i \in 1..sent: saved.calls[i] = "received" /\ <<"response", i>> \in files
    /\ exit = 0 => verdict # NoContent

\* What ends the dialogue well is a complete, timely response to the last request;
\* nothing is sent after it.
EndsInTime ==
    [][/\ effort.status # "received" /\ effort'.status = "received" =>
            now <= Timeout /\ answer.stop
       /\ sent' # sent => effort.status = "incomplete" /\ saved.status # "received"]_vars

\* The evidence directory serves one run: files are only added, effort.json only
\* learns more, and a run that finds the directory in use leaves it as it is.
EvidenceIsFinal ==
    [][/\ files \subseteq files'
       /\ Len(saved.calls) <= Len(saved'.calls) /\ Len(saved.reads) <= Len(saved'.reads)
       /\ verdict # NoContent \/ pc = "exited" => UNCHANGED <<disk, sent, shown>>]_vars

\* Every run ends, provided that urlopen() returns: no dialogue goes past its
\* last call without a way out.
RunEnds == pc # "exited" ~> pc = "exited"

\* README.md: the dialogue takes place within the single --timeout-seconds
\* deadline, so no request is waited for longer than what was left of it.
DeadlineBoundsCalls == reading /\ pc = "waiting" => now - sentAt <= allowance
=============================================================================
