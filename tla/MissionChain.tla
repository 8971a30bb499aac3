---------------------------- MODULE MissionChain ----------------------------
(***************************************************************************)
(* examples/capability-regression/klp_v03.py: Mission Contract snapshots,  *)
(* the amendments that revise them and the tasks bound to them.            *)
(*                                                                         *)
(* The module keeps no store: callers hold the snapshots it built and hand *)
(* any of them back, an old one or one edited on the way, with any request *)
(* and any task.  A call that raises ContractError changes nothing.        *)
(*                                                                         *)
(* A mission body is named by its digest; Text gives the JSON document, a  *)
(* function from the positions in it to what stands there.  A position is  *)
(* the sequence of the pieces the code adds to a path, like .rules or [0]. *)
(* What the validators ask field by field is one flag of a request or a    *)
(* task.                                                                   *)
(***************************************************************************)
EXTENDS Integers, SequencesExt

CONSTANTS
    Bodies,         \* the mission bodies callers use
    Text,           \* their documents
    First,          \* the body of the first revision
    NoParent,
    Requests,       \* the amendment requests: see RequestType
    Tasks,          \* the task snapshots: see TaskType
    Changes,        \* the sets of changed surfaces tasks are bound for
    MaxAmendments,  \* bound on the revisions built
    MaxAltered,     \* bound on the snapshots edited
    MaxBound        \* bound on the bindings

Container(node) == node.type \in {"dict", "list"}

\* A value json.loads returns: its type, what json.dumps prints for it and what ==
\* compares.  0.0 and -0.0 have one value, 1, 1.0 and true have one, and the value
\* of a NaN is the object that holds it.
Nodes ==
    {n \in [type: {"dict", "list", "str", "int", "float", "bool", "null"}, text: STRING, value: STRING]:
        /\ Container(n) => n.text = "" /\ n.value = ""
        /\ n.type \in {"str", "int", "null"} => n.text = n.value}
Position == Seq(STRING)
RequestType ==
    [complete: BOOLEAN, mission: STRING, current: Bodies, proposed: Bodies,
     reason: STRING, declared: SUBSET STRING, repeated: BOOLEAN]
TaskType ==
    [complete: BOOLEAN, sealed: BOOLEAN, mission: STRING, revision: Nat, hash: Bodies,
     affected: Seq(STRING), refs: Seq(STRING)]
Missions == {"mission"} \cup {q.mission: q \in Requests}
SnapshotType ==
    [mission: Missions, revision: Nat, hash: Bodies, parent: Bodies \cup {NoParent}, body: Bodies]

\* Printed the same, so that a digest cannot tell them apart.
Alike(node, other) == node.type = other.type /\ node.text = other.text

\* A JSON object of finitely many fields: what is above a position is a container.
IsDocument(d) ==
    /\ IsFiniteSet(DOMAIN d) /\ DOMAIN d \subseteq Position /\ <<>> \in DOMAIN d
    /\ \A p \in DOMAIN d:
        /\ d[p] \in Nodes
        /\ \A n \in 0..(Len(p) - 1):
              SubSeq(p, 1, n) \in DOMAIN d /\ Container(d[SubSeq(p, 1, n)])

ASSUME BodiesAssumption == First \in Bodies /\ NoParent \notin Bodies
ASSUME DocumentsAssumption == \A b \in Bodies: IsDocument(Text[b])
ASSUME DigestAssumption ==
    \A b, c \in Bodies:
        DOMAIN Text[b] = DOMAIN Text[c] /\ (\A p \in DOMAIN Text[b]: Alike(Text[b][p], Text[c][p])) => b = c
ASSUME InputsAssumption == Requests \subseteq RequestType /\ Tasks \subseteq TaskType
ASSUME BoundsAssumption == MaxAmendments \in Nat /\ MaxAltered \in Nat /\ MaxBound \in Nat

VARIABLES
    altered,    \* the snapshots somebody edited
    amendments, \* the calls that built a revision: from what, by which request
    bound       \* the calls that accepted a task: for which snapshot and changes

vars == <<altered, amendments, bound>>

FirstSnapshot ==
    [mission |-> "mission", revision |-> 1, hash |-> First, parent |-> NoParent, body |-> First]
Genuine == {FirstSnapshot} \cup {a.to: a \in amendments}
Init == altered = {} /\ amendments = {} /\ bound = {}

-----------------------------------------------------------------------------
(* Documents.                                                              *)

Below(document, position) == {p \in DOMAIN document: IsStrictPrefix(position, p)}
Children(document, position) ==
    {p \in Below(document, position): Len(p) = Len(position) + 1}
\* Python's == on two scalars or two empty containers: numbers of different types
\* can be equal, and a NaN equals nothing.
Equal(before, after) ==
    /\ before.value = after.value
    /\ before.type = after.type \/ {before.type, after.type} \subseteq {"int", "float", "bool"}
    /\ ~(before.type = "float" /\ before.text = "NaN")

\* ... and on two lists, where an object also equals itself.
PyEqual(before, after, position) ==
    /\ Below(before, position) = Below(after, position)
    /\ \A p \in Below(before, position): before[p] = after[p] \/ Equal(before[p], after[p])

\* Slip: items are compared one by one as far as both lists go.
ItemwiseAnyLength(before, after, position) ==
    \A p \in Children(before, position) \cap Children(after, position):
        Container(before[p]) /\ Container(after[p])

\* Whether two lists are compared item by item, or are one field.
Itemwise(before, after, position) ==
    /\ Children(before, position) = Children(after, position)
    /\ \A p \in Children(before, position): Container(before[p]) /\ Container(after[p])

\* The fields that differ at one position, given those inside it.
FieldsAt(before, after, p, inside) ==
    LET old == Children(before, p)
        new == Children(after, p)
    IN  CASE before[p].type # after[p].type -> {p}
          [] before[p].type = after[p].type /\ before[p].type = "dict" ->
                inside \cup (old \ new) \cup (new \ old)
          [] before[p].type = after[p].type /\ before[p].type = "list" ->
                IF PyEqual(before, after, p) THEN {}
                ELSE IF Itemwise(before, after, p) THEN inside ELSE {p}
          [] OTHER -> IF Equal(before[p], after[p]) THEN {} ELSE {p}

\* The positions that differ, as the code walks two bodies ...
changed_positions(before, after) ==
    LET changed[p \in DOMAIN before \cap DOMAIN after] ==
            LET both == Children(before, p) \cap Children(after, p)
            IN  FieldsAt(before, after, p, UNION {changed[c]: c \in both})
    IN  changed[<<>>]

\* ... and the names it gives them, which a key that holds a dot or a bracket can
\* share with another position.
Path(position) == FoldLeft(LAMBDA path, step: path \o step, "mission", position)
changed_paths(before, after) == {Path(p): p \in changed_positions(before, after)}

Value(document, position) == document[position].value
Reason(body) == Value(Text[body], <<".revision_reason">>)

\* critical_capabilities, in the form the code reads them.
Capabilities ==
    [body \in Bodies |->
        { LET at(field) == Append(p, field)
              rules == Children(Text[body], at(".trigger_rules"))
          IN  [key |-> Last(p), id |-> Value(Text[body], at(".capability_id")),
               baseline |-> Value(Text[body], at(".accepted_baseline_ref")),
               rules |-> {Value(Text[body], r): r \in rules}]
          : p \in Children(Text[body], <<".critical_capabilities">>) }]
Ids(body) == {c.id: c \in Capabilities[body]}
Baseline(body, id) == (CHOOSE c \in Capabilities[body]: c.id = id).baseline

-----------------------------------------------------------------------------
(* Snapshots and amendments.                                               *)

\* At least one capability, and no identifier twice.
validate_mission_body(body) ==
    /\ Capabilities[body] # {}
    /\ \A c, d \in Capabilities[body]: c.id = d.id => c = d

\* Both are functions of the bodies alone.
Valid == {body \in Bodies: validate_mission_body(body)}
Changed == [p \in Bodies \X Bodies |-> changed_paths(Text[p[1]], Text[p[2]])]

\* Slip: the digest is not computed again.
ValidateShape(s) ==
    /\ s.body \in Valid /\ s.revision > 0
    /\ (s.revision = 1) = (s.parent = NoParent)

validate_mission_snapshot(s) ==
    /\ s.body \in Valid /\ s.revision > 0
    /\ s.body = s.hash
    /\ (s.revision = 1) = (s.parent = NoParent)

\* What an approved request says of the snapshot it amends and of the new body.
Approves(q, s, body) ==
    /\ q.complete
    /\ q.mission = s.mission /\ q.current = s.hash
    /\ body \in Valid /\ body = q.proposed
    /\ q.reason # Reason(s.body) /\ Reason(body) = q.reason
    /\ ~q.repeated /\ q.declared = Changed[<<s.body, body>>]

Revised(s, body) ==
    [mission |-> s.mission, revision |-> s.revision + 1, hash |-> body, parent |-> s.hash, body |-> body]

build_authorized_mission_revision(s, q, body, authority) ==
    /\ authority # ""
    /\ validate_mission_snapshot(s) /\ Approves(q, s, body)
    /\ amendments' = amendments \cup {[from |-> s, request |-> q, to |-> Revised(s, body)]}
    /\ UNCHANGED <<altered, bound>>

-----------------------------------------------------------------------------
(* Tasks.                                                                  *)

\* fnmatch: a rule is a literal or matches everything.
matching_capability_ids(body, surfaces) ==
    { c.id: c \in {d \in Capabilities[body]:
        \E surface \in surfaces: d.rules \cap {surface, "*"} # {}} }

\* Slip: the digest alone decides.
BoundByDigest(t, s) == t.mission = s.mission /\ t.hash = s.hash

BoundTo(t, s) == t.mission = s.mission /\ t.revision = s.revision /\ t.hash = s.hash

Declares(triggered, declared) == triggered \subseteq declared

validate_task_binding(s, t, surfaces) ==
    LET declared == ToSet(t.affected)
    IN  /\ validate_mission_snapshot(s)
        /\ BoundTo(t, s) /\ t.complete
        /\ declared \subseteq Ids(s.body)
        /\ Declares(matching_capability_ids(s.body, surfaces), declared)
        /\ t.refs = [i \in 1..Len(t.affected) |-> Baseline(s.body, t.affected[i])]
        /\ t.sealed
        /\ bound' = bound \cup {[snapshot |-> s, task |-> t, surfaces |-> surfaces]}
        /\ UNCHANGED <<altered, amendments>>

-----------------------------------------------------------------------------
(* The callers.                                                            *)

\* One field of a stored snapshot is edited, or the body together with its digest.
Edits(s) ==
    {[s EXCEPT !.body = b]: b \in Bodies} \cup {[s EXCEPT !.body = b, !.hash = b]: b \in Bodies}
    \cup {[s EXCEPT !.parent = p]: p \in Bodies \cup {NoParent}}
    \cup {[s EXCEPT !.revision = n]: n \in 0..(MaxAmendments + 2)}
    \cup {[s EXCEPT !.mission = m]: m \in Missions}

Alter(s) ==
    /\ Cardinality(altered) < MaxAltered
    /\ \E e \in Edits(s) \ {s}: altered' = altered \cup {e}
    /\ UNCHANGED <<amendments, bound>>

Next ==
    \E s \in Genuine \cup altered:
        \/ /\ Cardinality(amendments) < MaxAmendments
           /\ \E q \in Requests, b \in Bodies, authority \in {"", "operator"}:
                 build_authorized_mission_revision(s, q, b, authority)
        \/ /\ Cardinality(bound) < MaxBound
           /\ \E t \in Tasks, surfaces \in Changes: validate_task_binding(s, t, surfaces)
        \/ Alter(s)

Spec == Init /\ [][Next]_vars

-----------------------------------------------------------------------------
(* Properties.                                                             *)

\* Every snapshot has the shape of one, and what the module builds is a revision
\* of something.
TypeOK ==
    /\ altered \subseteq SnapshotType
    /\ amendments \subseteq [from: SnapshotType, request: Requests, to: SnapshotType]
    /\ \A a \in amendments: a.to.revision > 1 /\ a.to.parent # NoParent
    /\ bound \subseteq [snapshot: SnapshotType, task: Tasks, surfaces: Changes]

\* Whatever snapshots are handed back, and in whatever order requests are used: the
\* text a new body is compared with is the one the request was approved for and the
\* parent digest names.  The revision continues the first snapshot or one that was
\* built; an edited one it continues only if the edit does not show: the digest
\* covers the body alone, so another number, parent or mission passes, and so does
\* another body with its own digest.
LineageIsWhole ==
    \A a \in amendments:
        /\ a.from.body = a.request.current /\ a.to.parent = a.request.current
        /\ a.to.body = a.request.proposed /\ a.to.hash = a.request.proposed
        /\ a.to.mission = a.request.mission /\ a.to.revision = a.from.revision + 1
        /\ Reason(a.to.body) # Reason(a.from.body)
        /\ \/ a.from \in Genuine
           \/ /\ a.from \in altered
              /\ a.from.body = a.from.hash
              /\ a.from.revision = 1 <=> a.from.parent = NoParent

Pairs == Bodies \X Bodies
Places(pair) == DOMAIN Text[pair[1]] \cup DOMAIN Text[pair[2]]

\* The positions where two texts are printed differently.
Differing ==
    [pair \in Pairs |->
        LET old == Text[pair[1]]
            new == Text[pair[2]]
        IN  {p \in Places(pair): p \in DOMAIN old \cap DOMAIN new => ~Alike(old[p], new[p])}]

\* The names of a position and of those above it.
Names == [p \in UNION {DOMAIN Text[b]: b \in Bodies} |-> {Path(SubSeq(p, 1, n)): n \in 0..Len(p)}]

\* "technical_explanation.fields_changed must exactly match": between a revision
\* and its parent nothing differs outside the fields the approved request declares,
\* and what has a declared name is a place of the two that holds a difference.
ChangesAreDeclared ==
    \A a \in amendments:
        LET pair == <<a.from.hash, a.to.hash>>
        IN  /\ \A p \in Differing[pair]: Names[p] \cap a.request.declared # {}
            /\ \A name \in a.request.declared: \E d \in Places(pair): Path(d) = name
            /\ \A d \in Places(pair):
                  Path(d) \in a.request.declared => \E p \in Differing[pair]: IsPrefix(d, p)

\* What == may pass over: a value of the same type that is printed differently, like
\* -0.0 for 0.0, and inside an equal list also a number of another type.
Slips ==
    [pair \in Pairs |->
        LET old == Text[pair[1]]
            new == Text[pair[2]]
        IN  {p \in DOMAIN old \cap DOMAIN new:
                /\ Equal(old[p], new[p])
                /\ \/ old[p].type = new[p].type
                   \/ \E l \in DOMAIN old \cap DOMAIN new:
                        IsStrictPrefix(l, p) /\ old[l].type = "list" /\ PyEqual(old, new, l)}]

\* What == finds different although it is printed the same: a NaN.
Unequal ==
    [pair \in Pairs |->
        LET old == Text[pair[1]]
            new == Text[pair[2]]
        IN  {p \in DOMAIN old \cap DOMAIN new: ~Equal(old[p], new[p])}]

\* Between a revision and its parent nothing differs outside the fields declared but
\* what Python takes for equal, and each name declared is the name of a place that
\* holds a difference, or a value that equals nothing.
OnlyEqualsSlip ==
    \A a \in amendments:
        LET pair == <<a.from.hash, a.to.hash>>
        IN  /\ \A p \in Differing[pair]: p \in Slips[pair] \/ Names[p] \cap a.request.declared # {}
            /\ \A name \in a.request.declared:
                  \E p \in Differing[pair] \cup Unequal[pair]: name \in Names[p]

\* A task stands and falls with one revision of one body: it is never accepted
\* again once the mission moved on, not even when its text comes back.
TasksStayBound ==
    \A b, c \in bound:
        b.task = c.task =>
            /\ b.snapshot.revision = c.snapshot.revision
            /\ Text[b.snapshot.body] = Text[c.snapshot.body]

\* An accepted task declares every capability its changes touch, each with the
\* baseline the genuine mission has for it.
CapabilitiesAreCovered ==
    \A b \in bound: \A c \in Capabilities[b.snapshot.hash]:
        (c.rules \cap b.surfaces # {} \/ ("*" \in c.rules /\ b.surfaces # {})) =>
            \E i \in 1..Len(b.task.affected):
                b.task.affected[i] = c.id /\ b.task.refs[i] = c.baseline
=============================================================================
