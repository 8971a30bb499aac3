--------------------------- MODULE MCMissionChain ---------------------------
(***************************************************************************)
(* Instances of MissionChain for TLC.  The bodies differ in a scalar, in a *)
(* list of scalars, in the number of capabilities, in null and a string,   *)
(* in one of two positions with one name, and in numbers: 0.0 and -0.0,    *)
(* 1 and 1.0, 1 and true, and two NaNs.  One names a capability twice.     *)
(***************************************************************************)
EXTENDS MissionChain

Dict == [type |-> "dict", text |-> "", value |-> ""]
List == [type |-> "list", text |-> "", value |-> ""]
Null == [type |-> "null", text |-> "null", value |-> "null"]
Str(string) == [type |-> "str", text |-> string, value |-> string]
Float(text, value) == [type |-> "float", text |-> text, value |-> value]
One == [int |-> [type |-> "int", text |-> "1", value |-> "1"],
        bool |-> [type |-> "bool", text |-> "true", value |-> "1"],
        float |-> Float("1.0", "1")]
Zero == Float("0.0", "0")
MinusZero == Float("-0.0", "0")
NaN(object) == Float("NaN", object)

Capability(index, id, rules, type) ==
    LET at(field) == <<".critical_capabilities", index, field>>
    IN  <<".critical_capabilities", index>> :> Dict
        @@ at(".capability_id") :> Str(id)
        @@ at(".accepted_baseline_ref") :> Str("baseline " \o id)
        @@ at(".threshold") :> One[type]
        @@ at(".trigger_rules") :> List
        @@ [p \in {Append(at(".trigger_rules"), i): i \in DOMAIN rules} |-> Str(rules[Last(p)])]

\* The fields the code does not ask for: low stands in an object, and in a key.
Further(note, scale, low) ==
    <<".note">> :> note @@ <<".scale">> :> scale @@ <<".limits">> :> Dict
    @@ <<".limits", ".low">> :> Str("a") @@ <<".limits.low">> :> Str(low)

Body(reason, capabilities, further) ==
    <<>> :> Dict @@ <<".revision_reason">> :> Str(reason)
    @@ <<".critical_capabilities">> :> List @@ capabilities @@ further

Only(rules, type) == Capability("[0]", "c1", "[0]" :> rules, type)
OneAnd(id, rules) == Only("path", "int") @@ Capability("[1]", id, rules, "int")

Documents ==
    [first |-> Body("r1", Only("path", "int"), Further(Null, Zero, "a")),
     wider |-> Body("r2", Only("*", "int"), Further(Str("null"), NaN("x"), "a")),
     two |-> Body("r3", OneAnd("c2", "[0]" :> "path" @@ "[1]" :> "api"), Further(Null, NaN("y"), "b")),
     again |-> Body("r4", OneAnd("c1", "[0]" :> "path"), Further(Null, Zero, "a")),
     point |-> Body("r5", Only("path", "float"), Further(Null, MinusZero, "b")),
     truth |-> Body("r6", Only("path", "bool"), Further(Null, Zero, "a"))]

Moves == {p \in Pairs: p[1] # p[2]}

\* A request that names exactly what changed.
Exact(p) ==
    [complete |-> TRUE, mission |-> "mission", current |-> p[1], proposed |-> p[2],
     reason |-> Reason(p[2]), declared |-> Changed[p[1], p[2]],
     repeated |-> FALSE]

\* ... and the requests that are wrong in one thing.
Wrong(p) ==
    LET q == Exact(p)
    IN  { [q EXCEPT !.complete = FALSE], [q EXCEPT !.mission = "other"],
          [q EXCEPT !.reason = Reason(p[1])], [q EXCEPT !.repeated = TRUE],
          [q EXCEPT !.declared = @ \cup {"mission"}] }
        \cup {[q EXCEPT !.declared = @ \ {d}]: d \in q.declared}

MCBodies == {"first", "wider", "two", "again", "point"}
Asked ==
    {Exact(p): p \in Moves} \cup Wrong(<<"first", "two">>) \cup Wrong(<<"first", "wider">>)
MCNumbers == {"first", "truth"}
AskedExactly == {Exact(p): p \in Moves}

Task(revision, hash, affected) ==
    [complete |-> TRUE, sealed |-> TRUE, mission |-> "mission", revision |-> revision,
     hash |-> hash, affected |-> affected,
     refs |-> [i \in 1..Len(affected) |-> "baseline " \o affected[i]]]

Contracts ==
    LET plain == Task(1, "first", <<"c1">>)
    IN  { plain, Task(1, "first", <<>>), Task(2, "wider", <<"c1">>), Task(3, "first", <<"c1">>),
          Task(2, "two", <<"c1">>), Task(2, "two", <<"c2", "c1">>), Task(2, "again", <<"c1">>),
          Task(1, "first", <<"c3">>), [plain EXCEPT !.refs = <<"baseline c2">>],
          [plain EXCEPT !.complete = FALSE], [plain EXCEPT !.sealed = FALSE],
          [plain EXCEPT !.mission = "other"] }
NoTasks == {}

\* TLC evaluates a definition without parameters once, and what a constant is
\* replaced by again and again.
MCText == Documents
MCRequests == Asked
MCExact == AskedExactly
MCTasks == Contracts
MCChanges == {{}, {"api", "path"}}
==============================================================================
