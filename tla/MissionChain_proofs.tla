------------------------- MODULE MissionChain_proofs -------------------------
(***************************************************************************)
(* Theorems about MissionChain for any documents, requests, tasks and      *)
(* bounds.  What changed between two bodies is computed by recursion over  *)
(* documents of any depth; finitely many positions have a longest one, and *)
(* that gives every induction over documents needed here.                  *)
(***************************************************************************)
EXTENDS MissionChain, FiniteSetTheorems, WellFoundedInduction, SequenceTheorems, TLAPS

-----------------------------------------------------------------------------
(* Positions.                                                              *)

\* s begins t where all of its items do.
LEMMA PrefixItems ==
    ASSUME NEW s \in Position, NEW t \in Position
    PROVE  IsPrefix(s, t) <=> Len(s) <= Len(t) /\ \A i \in 1..Len(s): s[i] = t[i]
<1>1. Len(s) \in Nat /\ Len(t) \in Nat
  BY DEF Position
<1>2. SubSeq(s, 1, Len(s)) = s
  BY DEF Position
<1>3. CASE Len(s) <= Len(t)
  <2>1. /\ Len(SubSeq(t, 1, Len(s))) = Len(s) /\ SubSeq(t, 1, Len(s)) \in Position
        /\ \A i \in 1..Len(s): SubSeq(t, 1, Len(s))[i] = t[i]
    BY <1>1, <1>3 DEF Position
  <2>2. SubSeq(t, 1, Len(s)) = s <=> \A i \in 1..Len(s): s[i] = t[i]
    BY <2>1, SeqEqual DEF Position
  <2> QED
    BY <1>2, <1>3, <2>2 DEF IsPrefix
<1>4. CASE ~(Len(s) <= Len(t))
  BY <1>4 DEF IsPrefix
<1> QED
  BY <1>3, <1>4

\* Every position begins with itself, and what begins a beginning begins the whole.
LEMMA PrefixOrder ==
    ASSUME NEW s \in Position, NEW t \in Position, NEW u \in Position
    PROVE  /\ IsPrefix(s, s)
           /\ IsPrefix(s, t) /\ IsPrefix(t, u) => IsPrefix(s, u)
           /\ IsPrefix(<<>>, s)
<1>1. Len(s) \in Nat /\ Len(t) \in Nat /\ Len(u) \in Nat
  BY DEF Position
<1>2. <<>> \in Position /\ Len(<<>>) = 0
  BY DEF Position
<1> QED
  BY <1>1, <1>2, PrefixItems

\* One step from p towards x.
Towards(p, x) == SubSeq(x, 1, Len(p) + 1)

\* Below p, the step towards x is a child of p where it is in the document.
LEMMA OneStep ==
    ASSUME NEW p \in Position, NEW x \in Position, IsStrictPrefix(p, x)
    PROVE  /\ Len(p) < Len(x) /\ p = SubSeq(x, 1, Len(p))
           /\ Towards(p, x) \in Position /\ Len(Towards(p, x)) = Len(p) + 1
           /\ IsStrictPrefix(p, Towards(p, x)) /\ IsPrefix(Towards(p, x), x)
<1>1. Len(p) \in Nat /\ Len(x) \in Nat
  BY DEF Position
<1>2. IsPrefix(p, x) /\ p # x
  BY DEF IsStrictPrefix
<1>3. Len(p) <= Len(x) /\ \A i \in 1..Len(p): p[i] = x[i]
  BY <1>2, PrefixItems
<1>4. Len(p) # Len(x)
  <2> SUFFICES ASSUME Len(p) = Len(x)
               PROVE  FALSE
    OBVIOUS
  <2>1. p = x
    BY <1>3, SeqEqual DEF Position
  <2> QED
    BY <1>2, <2>1
<1>5. p = SubSeq(x, 1, Len(p))
  <2>1. SubSeq(p, 1, Len(p)) = p
    BY DEF Position
  <2> QED
    BY <1>2, <2>1 DEF IsPrefix
<1> DEFINE y == SubSeq(x, 1, Len(p) + 1)
<1>6. y \in Position /\ Len(y) = Len(p) + 1 /\ \A i \in 1..(Len(p) + 1): y[i] = x[i]
  BY <1>1, <1>3, <1>4 DEF Position
<1> HIDE DEF y
<1>7. IsPrefix(p, y) /\ IsPrefix(y, x)
  BY <1>1, <1>3, <1>4, <1>6, PrefixItems
<1>8. IsStrictPrefix(p, y) /\ Len(p) < Len(x)
  BY <1>1, <1>3, <1>4, <1>6, <1>7 DEF IsStrictPrefix
<1>9. Towards(p, x) = y
  BY DEF y, Towards
<1> QED
  BY <1>5, <1>6, <1>7, <1>8, <1>9, Zenon

\* Finitely many positions have a longest one.
LEMMA Longest ==
    ASSUME NEW D, IsFiniteSet(D), D \subseteq Position, NEW T \in SUBSET D, T # {}
    PROVE  \E x \in T: \A y \in T: Len(y) <= Len(x)
<1> DEFINE longer(x) == {y \in T: Len(y) > Len(x)}
           F == {longer(x): x \in T}
<1>0. \A x \in T: Len(x) \in Nat
  BY DEF Position
<1>1. F \subseteq FiniteSubsetsOf(D) /\ F # {}
  <2>1. FiniteSubsetsOf(D) = SUBSET D
    BY FS_FiniteSubsetsOfFinite
  <2>2. \A x \in T: longer(x) \in SUBSET D
    OBVIOUS
  <2>3. PICK t \in T: TRUE
    OBVIOUS
  <2>4. longer(t) \in F
    OBVIOUS
  <2>5. F \subseteq SUBSET D
    BY <2>2
  <2> HIDE DEF F
  <2> QED
    BY <2>1, <2>4, <2>5
<1>2. IsWellFoundedOn(StrictSubsetOrdering(D), FiniteSubsetsOf(D))
  BY FS_StrictSubsetOrderingWellFounded
<1> HIDE DEF F
<1>3. PICK f \in F: \A g \in F: ~(<<g, f>> \in StrictSubsetOrdering(D))
  BY <1>1, <1>2, WFMin
<1>4. PICK x \in T: f = longer(x)
  BY DEF F
<1>5. ASSUME NEW y \in T, Len(y) > Len(x)
      PROVE  FALSE
  <2>1. longer(y) \subseteq longer(x) /\ y \in longer(x) /\ y \notin longer(y)
    BY <1>0, <1>5
  <2>2. longer(y) \in F /\ longer(x) \subseteq D /\ longer(y) \subseteq D
    BY DEF F
  <2>3. <<longer(y), longer(x)>> \in StrictSubsetOrdering(D)
    BY <2>1, <2>2 DEF StrictSubsetOrdering
  <2> QED
    BY <1>3, <1>4, <2>2, <2>3
<1> QED
  BY <1>0, <1>5
-----------------------------------------------------------------------------
(* The walk over two documents.                                            *)

Common(before, after) == DOMAIN before \cap DOMAIN after
Both(before, after, p) == Children(before, p) \cap Children(after, p)

\* What the walk returns at the positions U, from what it returns inside them.
Solves(before, after, g, U) ==
    g = [p \in U |-> FieldsAt(before, after, p, UNION {g[c]: c \in Both(before, after, p)})]

\* Children are in both documents, and one longer.
LEMMA BothTypes ==
    ASSUME NEW before, NEW after, IsDocument(before), IsDocument(after),
           NEW p \in Common(before, after), NEW c \in Both(before, after, p)
    PROVE  /\ c \in Common(before, after) /\ c \in Position /\ p \in Position
           /\ Len(p) \in Nat /\ Len(c) = Len(p) + 1 /\ IsStrictPrefix(p, c)
<1>1. c \in Common(before, after) /\ Len(c) = Len(p) + 1 /\ IsStrictPrefix(p, c)
  BY DEF Both, Children, Below, Common
<1>2. Common(before, after) \subseteq Position
  BY DEF IsDocument, Common
<1> QED
  BY <1>1, <1>2 DEF Position

\* The walk comes to an end: there is a function that is what it says at every
\* position both documents have.
LEMMA WalkExists ==
    ASSUME NEW before, NEW after, IsDocument(before), IsDocument(after)
    PROVE  \E g: Solves(before, after, g, Common(before, after))
<1> DEFINE D == Common(before, after)
           both(p) == Both(before, after, p)
           at(p, g) == FieldsAt(before, after, p, UNION {g[c]: c \in both(p)})
           closed(U) == \A p \in U: both(p) \subseteq U
           F == {W \in SUBSET D: closed(D \ W) /\ \E g: Solves(before, after, g, D \ W)}
<1>1. IsFiniteSet(D) /\ D \subseteq Position
  <2>1. IsFiniteSet(DOMAIN before) /\ D \in SUBSET (DOMAIN before) /\ D \subseteq Position
    BY DEF IsDocument, Common
  <2> QED
    BY <2>1, FS_Subset
<1>2. \A p \in D: \A c \in both(p): c \in D /\ Len(p) \in Nat /\ Len(c) = Len(p) + 1
  BY BothTypes
<1> HIDE DEF D, both, at
<1>3. D \in F
  <2>1. D \ D = {}
    OBVIOUS
  <2> DEFINE g == [p \in {} |-> 0]
  <2>2. g = [p \in {} |-> FieldsAt(before, after, p, UNION {g[c]: c \in Both(before, after, p)})]
    OBVIOUS
  <2>3. Solves(before, after, g, {})
    BY <2>2 DEF Solves
  <2> QED
    BY <2>1, <2>3
<1>4. PICK W \in F: \A V \in F: ~(<<V, W>> \in StrictSubsetOrdering(D))
  <2>1. F \subseteq FiniteSubsetsOf(D)
    BY <1>1, FS_FiniteSubsetsOfFinite
  <2>2. IsWellFoundedOn(StrictSubsetOrdering(D), FiniteSubsetsOf(D))
    BY FS_StrictSubsetOrderingWellFounded
  <2> HIDE DEF F
  <2> QED
    BY <1>3, <2>1, <2>2, WFMin
<1>5. ASSUME W # {}
      PROVE  FALSE
  <2>1. PICK x \in W: \A y \in W: Len(y) <= Len(x)
    BY <1>1, <1>5, Longest
  <2>2. x \in D /\ W \subseteq D
    BY <2>1
  <2> DEFINE U == D \ W
  <2>3. closed(U)
    OBVIOUS
  <2>4. PICK g: Solves(before, after, g, U)
    OBVIOUS
  <2>5. both(x) \subseteq U /\ x \notin U
    BY <1>2, <2>1, <2>2
  <2>6. /\ D \ (W \ {x}) = U \cup {x} /\ W \ {x} \in SUBSET D
        /\ W \ {x} \subseteq W /\ W \ {x} # W
    BY <2>1, <2>2
  <2> DEFINE h == [p \in U \cup {x} |-> IF p \in U THEN g[p] ELSE at(x, g)]
  <2>7. \A p \in U \cup {x}: both(p) \subseteq U /\ \A c \in both(p): h[c] = g[c]
    BY <2>3, <2>5
  <2>8. \A p \in U \cup {x}: {h[c]: c \in both(p)} = {g[c]: c \in both(p)}
    BY <2>7
  <2>9. \A p \in U \cup {x}: at(p, h) = at(p, g)
    BY <2>8 DEF at
  <2>10. \A p \in U: g[p] = at(p, g)
    BY <2>4 DEF Solves, at, both
  <2>11. h = [p \in U \cup {x} |-> at(p, h)]
    <3>1. \A p \in U \cup {x}: h[p] = at(p, h)
      BY <2>9, <2>10, <2>5
    <3> HIDE DEF at
    <3> QED
      BY <3>1
  <2>12. Solves(before, after, h, U \cup {x})
    BY <2>11 DEF Solves, at, both
  <2>13. closed(U \cup {x})
    BY <2>7
  <2>14. W \ {x} \in F
    BY <2>6, <2>12, <2>13
  <2>15. <<W \ {x}, W>> \in StrictSubsetOrdering(D)
    BY <2>2, <2>6 DEF StrictSubsetOrdering
  <2> QED
    BY <1>4, <2>14, <2>15
<1>6. D \ {} = D
  OBVIOUS
<1> QED
  BY <1>4, <1>5, <1>6 DEF D

\* What the walk returns is what such a function has at the root.
LEMMA WalkReturns ==
    ASSUME NEW before, NEW after, IsDocument(before), IsDocument(after)
    PROVE  \E g: /\ Solves(before, after, g, Common(before, after))
                 /\ changed_positions(before, after) = g[<<>>]
<1> DEFINE g == CHOOSE changed: Solves(before, after, changed, Common(before, after))
<1>1. Solves(before, after, g, Common(before, after))
  BY WalkExists
<1>2. changed_positions(before, after) = g[<<>>]
  BY DEF changed_positions, Solves, Common, Both
<1> QED
  BY <1>1, <1>2

-----------------------------------------------------------------------------
(* What the walk finds.                                                    *)

\* Where two documents differ: a position one of them lacks, or a node printed differently.
DifferAt(before, after, x) ==
    /\ x \in DOMAIN before \cup DOMAIN after
    /\ ~(x \in Common(before, after) /\ Alike(before[x], after[x]))

\* Where == does not hold: this includes a NaN both have.
UnequalAt(before, after, x) == x \in Common(before, after) /\ ~Equal(before[x], after[x])

\* What == may pass over.
SlipsAt(before, after, x) ==
    /\ x \in Common(before, after) /\ Equal(before[x], after[x])
    /\ \/ before[x].type = after[x].type
       \/ \E l \in Common(before, after):
             IsStrictPrefix(l, x) /\ before[l].type = "list" /\ PyEqual(before, after, l)

\* A field holds a difference, or a value that equals nothing.
Holds(before, after, d) ==
    /\ d \in Position
    /\ \E x: (DifferAt(before, after, x) \/ UnequalAt(before, after, x)) /\ IsPrefix(d, x)

\* So do all the fields returned at a position.
LEMMA FieldsDiffer ==
    ASSUME NEW before, NEW after, IsDocument(before), IsDocument(after),
           NEW g, Solves(before, after, g, Common(before, after)), NEW p \in Common(before, after)
    PROVE  \A d \in g[p]: Holds(before, after, d)
<1> DEFINE D == Common(before, after)
           found(d) == Holds(before, after, d)
           bad == {q \in D: ~\A d \in g[q]: found(d)}
<1>1. IsFiniteSet(D) /\ D \subseteq Position
  <2>1. IsFiniteSet(DOMAIN before) /\ D \in SUBSET (DOMAIN before) /\ D \subseteq Position
    BY DEF IsDocument, Common
  <2> QED
    BY <2>1, FS_Subset
<1>2. ASSUME bad # {}
      PROVE  FALSE
  <2>1. PICK q \in bad: \A r \in bad: Len(r) <= Len(q)
    <3>1. bad \in SUBSET D
      OBVIOUS
    <3> QED
      BY <1>1, <1>2, <3>1, Longest
  <2>2. q \in D /\ q \in Position
    BY <1>1, <2>1
  <2> DEFINE inside == UNION {g[c]: c \in Both(before, after, q)}
             old == Children(before, q)
             new == Children(after, q)
  <2>3. g[q] = FieldsAt(before, after, q, inside)
    BY <2>2 DEF Solves
  <2>4. \A d \in inside: found(d)
    <3>1. \A c \in Both(before, after, q): c \in D /\ Len(c) = Len(q) + 1 /\ Len(q) \in Nat
      BY <2>2, BothTypes
    <3>2. \A c \in Both(before, after, q): c \notin bad
      BY <2>1, <3>1
    <3> HIDE DEF found
    <3> QED
      BY <3>1, <3>2
  <2>5. \A x \in Position: DifferAt(before, after, x) \/ UnequalAt(before, after, x) => found(x)
    BY PrefixOrder DEF Holds
  <2>6. \A d \in (old \ new) \cup (new \ old): found(d)
    <3>1. ASSUME NEW d \in (old \ new) \cup (new \ old)
          PROVE  d \in Position /\ DifferAt(before, after, d)
      BY DEF Children, Below, DifferAt, Common, IsDocument
    <3> QED
      BY <2>5, <3>1
  <2>7. before[q].type # after[q].type \/ ~Equal(before[q], after[q]) => found(q)
    BY <2>2, <2>5 DEF DifferAt, UnequalAt, Common, Alike
  <2>8. ~PyEqual(before, after, q) => found(q)
    <3>1. ASSUME ~PyEqual(before, after, q)
          PROVE  \E x: /\ x \in Below(before, q) \cup Below(after, q)
                       /\ DifferAt(before, after, x) \/ UnequalAt(before, after, x)
      <4>1. CASE Below(before, q) # Below(after, q)
        BY <4>1 DEF Below, DifferAt, Common
      <4>2. CASE Below(before, q) = Below(after, q)
        <5>1. PICK x \in Below(before, q): ~Equal(before[x], after[x])
          BY <3>1, <4>2 DEF PyEqual
        <5>2. x \in Common(before, after)
          BY <4>2 DEF Below, Common
        <5> QED
          BY <5>1, <5>2 DEF UnequalAt
      <4> QED
        BY <4>1, <4>2
    <3>2. \A x \in Below(before, q) \cup Below(after, q): IsPrefix(q, x)
      BY DEF Below, IsStrictPrefix
    <3> QED
      BY <2>2, <3>1, <3>2 DEF Holds
  <2> HIDE DEF found, inside, old, new
  <2>9. \A d \in FieldsAt(before, after, q, inside): found(d)
    BY <2>4, <2>6, <2>7, <2>8 DEF FieldsAt, old, new
  <2> QED
    BY <2>1, <2>3, <2>9
<1> QED
  BY <1>2

\* What a position has of a document's positions above it.
LEMMA Above ==
    ASSUME NEW d, IsDocument(d), NEW p \in Position, NEW x \in DOMAIN d, IsStrictPrefix(p, x)
    PROVE  /\ x \in Position /\ p \in DOMAIN d /\ Container(d[p])
           /\ Towards(p, x) \in Children(d, p)
<1>1. x \in Position /\ Len(x) \in Nat /\ Len(p) \in Nat
  BY DEF IsDocument, Position
<1>2. /\ Len(p) < Len(x) /\ p = SubSeq(x, 1, Len(p)) /\ Len(Towards(p, x)) = Len(p) + 1
      /\ IsStrictPrefix(p, Towards(p, x))
  BY <1>1, OneStep
<1>3. \A n \in 0..(Len(x) - 1): SubSeq(x, 1, n) \in DOMAIN d /\ Container(d[SubSeq(x, 1, n)])
  BY DEF IsDocument
<1>4. p \in DOMAIN d /\ Container(d[p])
  <2>1. Len(p) \in 0..(Len(x) - 1)
    BY <1>1, <1>2
  <2>2. SubSeq(x, 1, Len(p)) \in DOMAIN d /\ Container(d[SubSeq(x, 1, Len(p))])
    BY <1>3, <2>1
  <2> QED
    BY <1>2, <2>2, Zenon
<1>5. Towards(p, x) \in DOMAIN d
  <2>1. CASE Len(p) + 1 = Len(x)
    <3>1. SubSeq(x, 1, Len(x)) = x
      BY <1>1 DEF Position
    <3> QED
      BY <2>1, <3>1 DEF Towards
  <2>2. CASE Len(p) + 1 < Len(x)
    BY <1>1, <1>3, <2>2 DEF Towards
  <2> QED
    BY <1>1, <1>2, <2>1, <2>2
<1> QED
  BY <1>1, <1>2, <1>4, <1>5 DEF Children, Below

\* Every difference at or below a position is in a field returned there, but for
\* what == may pass over.
LEMMA DifferencesFound ==
    ASSUME NEW before, NEW after, IsDocument(before), IsDocument(after),
           NEW g, Solves(before, after, g, Common(before, after)), NEW p \in Common(before, after),
           NEW x, DifferAt(before, after, x), IsPrefix(p, x)
    PROVE  SlipsAt(before, after, x) \/ \E d \in g[p]: IsPrefix(d, x)
<1> DEFINE D == Common(before, after)
           found(q) == SlipsAt(before, after, x) \/ \E d \in g[q]: IsPrefix(d, x)
           bad == {q \in D: IsPrefix(q, x) /\ ~found(q)}
<1>1. IsFiniteSet(D) /\ D \subseteq Position
  <2>1. IsFiniteSet(DOMAIN before) /\ D \in SUBSET (DOMAIN before) /\ D \subseteq Position
    BY DEF IsDocument, Common
  <2> QED
    BY <2>1, FS_Subset
<1>2. ASSUME bad # {}
      PROVE  FALSE
  <2>1. PICK q \in bad: \A r \in bad: Len(r) <= Len(q)
    <3>1. bad \in SUBSET D
      OBVIOUS
    <3> QED
      BY <1>1, <1>2, <3>1, Longest
  <2>2. q \in D /\ q \in Position /\ IsPrefix(q, x) /\ ~found(q)
    BY <1>1, <2>1
  <2>3. x \in Position
    BY DEF DifferAt, IsDocument
  <2> DEFINE inside == UNION {g[c]: c \in Both(before, after, q)}
             old == Children(before, q)
             new == Children(after, q)
             y == Towards(q, x)
  <2>4. g[q] = FieldsAt(before, after, q, inside)
    BY <2>2 DEF Solves
  <2>5. q \notin g[q]
    BY <2>2
  <2>6. before[q].type = after[q].type /\ IsStrictPrefix(q, x) /\ Container(before[q])
    <3>1. before[q].type = after[q].type
      BY <2>4, <2>5 DEF FieldsAt
    <3>2. ASSUME q = x
          PROVE  FALSE
      <4>1. before[q].text # after[q].text
        BY <2>2, <3>1, <3>2 DEF DifferAt, Alike
      <4>2. before[q] \in Nodes /\ after[q] \in Nodes
        BY <2>2 DEF IsDocument, Common
      <4>3. ~Container(before[q])
        BY <3>1, <4>1, <4>2 DEF Nodes, Container
      <4>4. g[q] = IF Equal(before[q], after[q]) THEN {} ELSE {q}
        BY <2>4, <3>1, <4>3 DEF FieldsAt, Container
      <4>5. Equal(before[q], after[q])
        BY <2>5, <4>4
      <4> QED
        BY <2>2, <3>1, <3>2, <4>5 DEF SlipsAt
    <3>3. IsStrictPrefix(q, x)
      BY <2>2, <3>2 DEF IsStrictPrefix
    <3>4. x \in DOMAIN before \/ x \in DOMAIN after
      BY DEF DifferAt
    <3>5. Container(before[q]) \/ Container(after[q])
      BY <2>2, <3>3, <3>4, Above
    <3> QED
      BY <3>1, <3>3, <3>5 DEF Container
  <2>7. before[q].type \in {"dict", "list"}
    BY <2>6 DEF Container
  <2>8. y \in old \cup new /\ IsPrefix(y, x)
    <3>1. x \in DOMAIN before \/ x \in DOMAIN after
      BY DEF DifferAt
    <3>2. y \in old \cup new
      BY <2>2, <2>6, <3>1, Above
    <3> QED
      BY <2>2, <2>3, <2>6, <3>2, OneStep
  <2>9. y \in Both(before, after, q) => \E d \in inside: IsPrefix(d, x)
    <3> SUFFICES ASSUME y \in Both(before, after, q)
                 PROVE  \E d \in inside: IsPrefix(d, x)
      OBVIOUS
    <3>1. y \in D /\ Len(y) = Len(q) + 1 /\ Len(q) \in Nat
      BY <2>2, BothTypes
    <3>2. y \notin bad
      BY <2>1, <3>1
    <3> QED
      BY <2>2, <2>8, <3>1, <3>2
  <2>10. CASE before[q].type = "dict"
    <3>1. g[q] = inside \cup (old \ new) \cup (new \ old)
      BY <2>4, <2>6, <2>10 DEF FieldsAt
    <3>2. y \in (old \ new) \cup (new \ old) \/ y \in Both(before, after, q)
      BY <2>8 DEF Both
    <3> QED
      BY <2>2, <2>8, <2>9, <3>1, <3>2
  <2>11. CASE before[q].type = "list"
    <3>1. g[q] = IF PyEqual(before, after, q) THEN {}
                 ELSE IF Itemwise(before, after, q) THEN inside ELSE {q}
      BY <2>4, <2>6, <2>11 DEF FieldsAt
    <3>2. CASE PyEqual(before, after, q)
      <4>1. x \in Below(before, q) /\ x \in Below(after, q)
        BY <2>6, <3>2 DEF PyEqual, Below, DifferAt
      <4>2. x \in Common(before, after) /\ Equal(before[x], after[x])
        BY <3>2, <4>1 DEF PyEqual, Below, DifferAt, Common, Alike
      <4>3. SlipsAt(before, after, x)
        BY <2>2, <2>6, <2>11, <3>2, <4>2 DEF SlipsAt
      <4> QED
        BY <2>2, <4>3
    <3>3. CASE ~PyEqual(before, after, q) /\ Itemwise(before, after, q)
      <4>1. y \in Both(before, after, q)
        BY <2>8, <3>3 DEF Itemwise, Both
      <4> QED
        BY <2>2, <2>9, <3>1, <3>3, <4>1
    <3> QED
      BY <2>5, <3>1, <3>2, <3>3
  <2> QED
    BY <2>7, <2>10, <2>11
<1>3. p \notin bad
  BY <1>2
<1> QED
  BY <1>3

-----------------------------------------------------------------------------
(* The inductive invariant.                                                *)

\* A bound task and its snapshot fit.
Fits ==
    \A b \in bound:
        /\ b.snapshot.body \in Valid /\ b.snapshot.body = b.snapshot.hash
        /\ b.task.revision = b.snapshot.revision /\ b.task.hash = b.snapshot.hash
        /\ matching_capability_ids(b.snapshot.body, b.surfaces) \subseteq ToSet(b.task.affected)
        /\ b.task.refs = [i \in 1..Len(b.task.affected) |-> Baseline(b.snapshot.body, b.task.affected[i])]

\* A revision was approved for exactly the fields the walk found.
Matches == \A a \in amendments: a.request.declared = Changed[<<a.from.hash, a.to.hash>>]

IInv == TypeOK /\ LineageIsWhole /\ Fits /\ Matches

\* What LineageIsWhole says of one revision.
LineageOf(a) ==
    /\ a.from.body = a.request.current /\ a.to.parent = a.request.current
    /\ a.to.body = a.request.proposed /\ a.to.hash = a.request.proposed
    /\ a.to.mission = a.request.mission /\ a.to.revision = a.from.revision + 1
    /\ Reason(a.to.body) # Reason(a.from.body)
    /\ \/ a.from \in Genuine
       \/ /\ a.from \in altered
          /\ a.from.body = a.from.hash
          /\ a.from.revision = 1 <=> a.from.parent = NoParent

\* The snapshots callers hold are snapshots.
LEMMA HeldTypes == TypeOK => Genuine \subseteq SnapshotType /\ altered \subseteq SnapshotType
<1>1. FirstSnapshot \in SnapshotType
  BY BodiesAssumption DEF FirstSnapshot, SnapshotType, Missions
<1> QED
  BY <1>1 DEF TypeOK, Genuine

\* A revision is one more, continues its parent and has one.
LEMMA RevisedTypes ==
    ASSUME NEW s \in SnapshotType, NEW body \in Bodies
    PROVE  /\ Revised(s, body) \in SnapshotType
           /\ Revised(s, body).mission = s.mission
           /\ Revised(s, body).revision = s.revision + 1
           /\ Revised(s, body).parent = s.hash
           /\ Revised(s, body).hash = body /\ Revised(s, body).body = body
<1>1. s.mission \in Missions /\ s.revision + 1 \in Nat /\ s.hash \in Bodies
  BY DEF SnapshotType
<1> QED
  BY <1>1 DEF Revised, SnapshotType

\* A revision built follows what it amends by one number and one approved change.
LEMMA AmendStep ==
    ASSUME IInv, NEW s \in Genuine \cup altered, NEW q \in Requests, NEW body \in Bodies, NEW authority,
           build_authorized_mission_revision(s, q, body, authority)
    PROVE  IInv'
<1> DEFINE to == Revised(s, body)
           a == [from |-> s, request |-> q, to |-> to]
<1>1. /\ validate_mission_snapshot(s) /\ Approves(q, s, body)
      /\ amendments' = amendments \cup {a}
      /\ altered' = altered /\ bound' = bound
  BY DEF build_authorized_mission_revision
<1>2. /\ s \in SnapshotType /\ s.body = s.hash /\ s.revision > 0
      /\ s.revision = 1 <=> s.parent = NoParent
  BY <1>1, HeldTypes DEF IInv, validate_mission_snapshot
<1>3. /\ q.mission = s.mission /\ q.current = s.hash /\ body = q.proposed
      /\ Reason(body) # Reason(s.body) /\ q.declared = Changed[<<s.hash, body>>]
  BY <1>1, <1>2 DEF Approves
<1>4. /\ to \in SnapshotType /\ to.mission = s.mission /\ to.revision = s.revision + 1
      /\ to.parent = s.hash /\ to.hash = body /\ to.body = body
  BY <1>2, RevisedTypes
<1>5. to.revision > 1 /\ to.parent # NoParent
  <2>1. s.revision \in Nat /\ s.hash \in Bodies
    BY <1>2 DEF SnapshotType
  <2> QED
    BY <1>2, <1>4, <2>1, BodiesAssumption
<1>6. a.from = s /\ a.request = q /\ a.to = to
  OBVIOUS
<1>7. a \in [from: SnapshotType, request: Requests, to: SnapshotType]
  BY <1>2, <1>4
<1> HIDE DEF to, a
<1>8. TypeOK'
  BY <1>1, <1>5, <1>6, <1>7 DEF IInv, TypeOK
<1>9. Genuine' = Genuine \cup {to}
  BY <1>1, <1>6 DEF Genuine
<1>10. LineageIsWhole'
  <2>1. \A c \in amendments: LineageOf(c)'
    BY <1>1, <1>9 DEF IInv, LineageIsWhole, LineageOf
  <2>2. LineageOf(a)'
    BY <1>1, <1>2, <1>3, <1>4, <1>6, <1>9 DEF LineageOf
  <2> QED
    BY <1>1, <2>1, <2>2 DEF LineageIsWhole, LineageOf
<1>11. Matches' /\ Fits'
  BY <1>1, <1>3, <1>4, <1>6 DEF IInv, Matches, Fits
<1> QED
  BY <1>8, <1>10, <1>11 DEF IInv

\* A binding accepted is one of a genuine revision.
LEMMA BindStep ==
    ASSUME IInv, NEW s \in Genuine \cup altered, NEW t \in Tasks, NEW surfaces \in Changes,
           validate_task_binding(s, t, surfaces)
    PROVE  IInv'
<1>1. /\ altered' = altered /\ amendments' = amendments
      /\ bound' = bound \cup {[snapshot |-> s, task |-> t, surfaces |-> surfaces]}
  BY DEF validate_task_binding
<1>2. s \in SnapshotType
  BY HeldTypes DEF IInv
<1>3. TypeOK'
  BY <1>1, <1>2 DEF IInv, TypeOK
<1>4. Genuine' = Genuine
  BY <1>1 DEF Genuine
<1>5. LineageIsWhole' /\ Matches'
  BY <1>1, <1>4 DEF IInv, LineageIsWhole, Matches
<1>6. Fits'
  <2>1. /\ s.body \in Valid /\ s.body = s.hash /\ t.revision = s.revision /\ t.hash = s.hash
        /\ matching_capability_ids(s.body, surfaces) \subseteq ToSet(t.affected)
        /\ t.refs = [i \in 1..Len(t.affected) |-> Baseline(s.body, t.affected[i])]
    BY DEF validate_task_binding, validate_mission_snapshot, BoundTo, Declares
  <2> DEFINE b == [snapshot |-> s, task |-> t, surfaces |-> surfaces]
  <2>2. b.snapshot = s /\ b.task = t /\ b.surfaces = surfaces /\ bound' = bound \cup {b}
    BY <1>1
  <2> HIDE DEF b
  <2> QED
    BY <2>1, <2>2 DEF IInv, Fits
<1> QED
  BY <1>3, <1>5, <1>6 DEF IInv

\* An edited snapshot is a snapshot.
LEMMA EditTypes ==
    ASSUME NEW s \in SnapshotType, NEW e \in Edits(s)
    PROVE  e \in SnapshotType
<1>1. /\ s.mission \in Missions /\ s.revision \in Nat /\ s.hash \in Bodies
      /\ s.parent \in Bodies \cup {NoParent} /\ s.body \in Bodies
      /\ s = [mission |-> s.mission, revision |-> s.revision, hash |-> s.hash, parent |-> s.parent, body |-> s.body]
  BY ZenonT(40) DEF SnapshotType
<1>2. \A m \in Missions, n \in Nat, h \in Bodies, p \in Bodies \cup {NoParent}, b \in Bodies:
          [mission |-> m, revision |-> n, hash |-> h, parent |-> p, body |-> b] \in SnapshotType
  BY DEF SnapshotType
<1>3. CASE \E b \in Bodies: e = [s EXCEPT !.body = b]
  <2>1. PICK b \in Bodies: e = [s EXCEPT !.body = b]
    BY <1>3
  <2>2. e = [mission |-> s.mission, revision |-> s.revision, hash |-> s.hash, parent |-> s.parent, body |-> b]
    BY <1>1, <2>1
  <2> QED
    BY <1>1, <1>2, <2>2
<1>4. CASE \E b \in Bodies: e = [s EXCEPT !.body = b, !.hash = b]
  <2>1. PICK b \in Bodies: e = [s EXCEPT !.body = b, !.hash = b]
    BY <1>4
  <2>2. e = [mission |-> s.mission, revision |-> s.revision, hash |-> b, parent |-> s.parent, body |-> b]
    BY <1>1, <2>1
  <2> QED
    BY <1>1, <1>2, <2>2
<1>5. CASE \E p \in Bodies \cup {NoParent}: e = [s EXCEPT !.parent = p]
  <2>1. PICK p \in Bodies \cup {NoParent}: e = [s EXCEPT !.parent = p]
    BY <1>5
  <2>2. e = [mission |-> s.mission, revision |-> s.revision, hash |-> s.hash, parent |-> p, body |-> s.body]
    BY <1>1, <2>1
  <2> QED
    BY <1>1, <1>2, <2>2
<1>6. CASE \E n \in 0..(MaxAmendments + 2): e = [s EXCEPT !.revision = n]
  <2>1. PICK n \in Nat: e = [s EXCEPT !.revision = n]
    BY <1>6, BoundsAssumption
  <2>2. e = [mission |-> s.mission, revision |-> n, hash |-> s.hash, parent |-> s.parent, body |-> s.body]
    BY <1>1, <2>1
  <2> QED
    BY <1>1, <1>2, <2>2
<1>7. CASE \E m \in Missions: e = [s EXCEPT !.mission = m]
  <2>1. PICK m \in Missions: e = [s EXCEPT !.mission = m]
    BY <1>7
  <2>2. e = [mission |-> m, revision |-> s.revision, hash |-> s.hash, parent |-> s.parent, body |-> s.body]
    BY <1>1, <2>1
  <2> QED
    BY <1>1, <1>2, <2>2
<1> QED
  BY <1>3, <1>4, <1>5, <1>6, <1>7 DEF Edits

\* Editing a snapshot makes no revision.
LEMMA AlterStep ==
    ASSUME IInv, NEW s \in Genuine \cup altered, Alter(s)
    PROVE  IInv'
<1>1. amendments' = amendments /\ bound' = bound
  BY DEF Alter
<1>2. PICK e \in SnapshotType: altered' = altered \cup {e}
  BY HeldTypes, EditTypes DEF IInv, Alter
<1>3. Genuine' = Genuine
  BY <1>1 DEF Genuine
<1>4. TypeOK'
  BY <1>1, <1>2 DEF IInv, TypeOK
<1>5. LineageIsWhole' /\ Fits' /\ Matches'
  BY <1>1, <1>2, <1>3 DEF IInv, LineageIsWhole, Fits, Matches
<1> QED
  BY <1>4, <1>5 DEF IInv

\* The inductive invariant holds whatever callers hand back.
THEOREM Invariant == Spec => []IInv
<1>1. Init => IInv
  <2> SUFFICES ASSUME Init
               PROVE  IInv
    OBVIOUS
  <2> QED
    BY DEF Init, IInv, TypeOK, LineageIsWhole, Fits, Matches
<1>2. IInv /\ [Next]_vars => IInv'
  <2> SUFFICES ASSUME IInv, [Next]_vars
               PROVE  IInv'
    OBVIOUS
  <2>1. CASE UNCHANGED vars
    BY <2>1 DEF vars, IInv, TypeOK, LineageIsWhole, Fits, Matches, Genuine
  <2> QED
    BY <2>1, AmendStep, BindStep, AlterStep DEF Next
<1> QED
  BY <1>1, <1>2, PTL DEF Spec

\* Type correctness.
THEOREM TypeCorrect == Spec => []TypeOK
  BY Invariant, PTL DEF IInv

\* Whatever is handed back, a revision continues the text its request was approved
\* for, and an edited snapshot only where the edit does not show.
THEOREM OneLineage == Spec => []LineageIsWhole
  BY Invariant, PTL DEF IInv

\* A task stands with one revision of one body.
THEOREM TasksStand == Spec => []TasksStayBound
<1>1. IInv => TasksStayBound
  BY ZenonT(40) DEF IInv, Fits, TasksStayBound
<1> QED
  BY <1>1, Invariant, PTL

\* An accepted task declares every capability its changes touch, with the
\* baseline the mission has for it.
THEOREM CapabilitiesCovered == Spec => []CapabilitiesAreCovered
<1>1. IInv => CapabilitiesAreCovered
  <2> SUFFICES ASSUME IInv, NEW b \in bound, NEW c \in Capabilities[b.snapshot.hash],
                      c.rules \cap b.surfaces # {} \/ ("*" \in c.rules /\ b.surfaces # {})
               PROVE  \E i \in 1..Len(b.task.affected):
                          b.task.affected[i] = c.id /\ b.task.refs[i] = c.baseline
    BY DEF CapabilitiesAreCovered
  <2> DEFINE body == b.snapshot.body
             affected == b.task.affected
  <2>1. /\ body \in Valid /\ c \in Capabilities[body]
        /\ matching_capability_ids(body, b.surfaces) \subseteq ToSet(affected)
        /\ b.task.refs = [i \in 1..Len(affected) |-> Baseline(body, affected[i])]
    BY DEF IInv, Fits
  <2>2. \E surface \in b.surfaces: c.rules \cap {surface, "*"} # {}
    OBVIOUS
  <2>3. c.id \in matching_capability_ids(body, b.surfaces)
    BY <2>1, <2>2 DEF matching_capability_ids
  <2>4. PICK i \in 1..Len(affected): affected[i] = c.id
    <3>1. b.task \in TaskType
      BY InputsAssumption DEF IInv, TypeOK
    <3>2. affected \in Seq(STRING)
      BY <3>1 DEF TaskType
    <3> QED
      BY <2>1, <2>3, <3>2 DEF ToSet
  <2>5. Baseline(body, c.id) = c.baseline
    <3>1. \A d \in Capabilities[body]: d.id = c.id => d = c
      BY <2>1 DEF Valid, validate_mission_body
    <3> QED
      BY <2>1, <3>1 DEF Baseline
  <2> QED
    BY <2>1, <2>4, <2>5
<1> QED
  BY <1>1, Invariant, PTL

-----------------------------------------------------------------------------
(* Changes.                                                                *)

\* What the walk returns: fields that hold a difference, and every difference but
\* for what == may pass over.
LEMMA ChangedPositionsRight ==
    ASSUME NEW before, NEW after, IsDocument(before), IsDocument(after)
    PROVE  LET changed == changed_positions(before, after)
           IN  /\ \A x: DifferAt(before, after, x) =>
                        SlipsAt(before, after, x) \/ \E d \in changed: IsPrefix(d, x)
               /\ \A d \in changed: Holds(before, after, d)
<1>1. PICK g: /\ Solves(before, after, g, Common(before, after))
              /\ changed_positions(before, after) = g[<<>>]
  BY WalkReturns
<1>2. <<>> \in Common(before, after)
  BY DEF IsDocument, Common
<1>3. \A x: DifferAt(before, after, x) => IsPrefix(<<>>, x)
  BY PrefixOrder DEF DifferAt, IsDocument
<1> QED
  BY <1>1, <1>2, <1>3, FieldsDiffer, DifferencesFound

\* A place above one of a document is a place of it, and its name is among the names there.
LEMMA PlaceAbove ==
    ASSUME NEW b \in Bodies, NEW x \in DOMAIN Text[b], NEW d \in Position, IsPrefix(d, x)
    PROVE  d \in DOMAIN Text[b] /\ Path(d) \in Names[x]
<1>1. IsDocument(Text[b])
  BY DocumentsAssumption
<1>2. d \in DOMAIN Text[b]
  BY <1>1, Above DEF IsStrictPrefix
<1>3. x \in Position /\ Len(x) \in Nat /\ Len(d) \in Nat
  BY <1>1 DEF IsDocument, Position
<1>4. SubSeq(x, 1, Len(d)) = d /\ Len(d) \in 0..Len(x)
  <2>1. SubSeq(d, 1, Len(d)) = d
    BY DEF Position
  <2> QED
    BY <1>3, <2>1 DEF IsPrefix
<1>5. x \in UNION {DOMAIN Text[c]: c \in Bodies}
  OBVIOUS
<1>6. Names[x] = {Path(SubSeq(x, 1, n)): n \in 0..Len(x)}
  BY <1>5 DEF Names
<1> QED
  BY <1>2, <1>4, <1>6, Zenon

\* What was declared for a revision and what the walk returned.
LEMMA DeclaredWalk ==
    ASSUME IInv, NEW a \in amendments
    PROVE  /\ <<a.from.hash, a.to.hash>> \in Pairs
           /\ IsDocument(Text[a.from.hash]) /\ IsDocument(Text[a.to.hash])
           /\ a.request.declared = {Path(p): p \in changed_positions(Text[a.from.hash], Text[a.to.hash])}
<1> DEFINE b == a.from.hash
           c == a.to.hash
<1>1. b \in Bodies /\ c \in Bodies
  BY DEF IInv, TypeOK, SnapshotType
<1>2. a.request.declared = Changed[<<b, c>>] /\ <<b, c>> \in Bodies \X Bodies
  BY <1>1 DEF IInv, Matches
<1> HIDE DEF b, c
<1>3. Changed[<<b, c>>] = {Path(p): p \in changed_positions(Text[b], Text[c])}
  BY <1>1 DEF Changed, changed_paths
<1>4. IsDocument(Text[b]) /\ IsDocument(Text[c])
  BY <1>1, DocumentsAssumption
<1> QED
  BY <1>2, <1>3, <1>4 DEF b, c, Pairs

\* The sets the properties use are what the walk is about.
LEMMA SetsAgree ==
    ASSUME NEW b \in Bodies, NEW c \in Bodies
    PROVE  /\ \A x: x \in Differing[<<b, c>>] <=> DifferAt(Text[b], Text[c], x)
           /\ \A x: x \in Slips[<<b, c>>] <=> SlipsAt(Text[b], Text[c], x)
           /\ \A x: x \in Unequal[<<b, c>>] <=> UnequalAt(Text[b], Text[c], x)
           /\ \A x: DifferAt(Text[b], Text[c], x) \/ UnequalAt(Text[b], Text[c], x) =>
                        x \in DOMAIN Text[b] \/ x \in DOMAIN Text[c]
<1>1. <<b, c>> \in Pairs
  BY DEF Pairs
<1>2. \A x: x \in Differing[<<b, c>>] <=> DifferAt(Text[b], Text[c], x)
  BY <1>1 DEF Differing, Places, DifferAt, Common
<1>3. \A x: x \in Slips[<<b, c>>] <=> SlipsAt(Text[b], Text[c], x)
  BY <1>1 DEF Slips, SlipsAt, Common
<1>4. \A x: x \in Unequal[<<b, c>>] <=> UnequalAt(Text[b], Text[c], x)
  BY <1>1 DEF Unequal, UnequalAt, Common
<1>5. \A x: DifferAt(Text[b], Text[c], x) \/ UnequalAt(Text[b], Text[c], x) =>
                x \in DOMAIN Text[b] \/ x \in DOMAIN Text[c]
  BY DEF DifferAt, UnequalAt, Common
<1> QED
  BY <1>2, <1>3, <1>4, <1>5

\* The invariant leaves nothing else undeclared.
LEMMA OnlyEquals == IInv => OnlyEqualsSlip
<1> SUFFICES ASSUME IInv, NEW a \in amendments
             PROVE  LET pair == <<a.from.hash, a.to.hash>>
                    IN  /\ \A p \in Differing[pair]:
                              p \in Slips[pair] \/ Names[p] \cap a.request.declared # {}
                        /\ \A name \in a.request.declared:
                              \E p \in Differing[pair] \cup Unequal[pair]: name \in Names[p]
  BY DEF OnlyEqualsSlip
<1> DEFINE b == a.from.hash
           c == a.to.hash
           changed == changed_positions(Text[b], Text[c])
<1>1. /\ <<b, c>> \in Pairs /\ IsDocument(Text[b]) /\ IsDocument(Text[c])
      /\ a.request.declared = {Path(p): p \in changed}
  BY DeclaredWalk
<1>2. b \in Bodies /\ c \in Bodies
  BY <1>1 DEF Pairs
<1>3. /\ \A x: DifferAt(Text[b], Text[c], x) =>
                  SlipsAt(Text[b], Text[c], x) \/ \E d \in changed: IsPrefix(d, x)
      /\ \A d \in changed: Holds(Text[b], Text[c], d)
  BY <1>1, ChangedPositionsRight
<1> HIDE DEF b, c, changed
<1>4. \A d \in changed: \A x:
          /\ DifferAt(Text[b], Text[c], x) \/ UnequalAt(Text[b], Text[c], x)
          /\ IsPrefix(d, x)
          => Path(d) \in Names[x]
  <2> SUFFICES ASSUME NEW d \in changed, NEW x, IsPrefix(d, x),
                      DifferAt(Text[b], Text[c], x) \/ UnequalAt(Text[b], Text[c], x)
               PROVE  Path(d) \in Names[x]
    OBVIOUS
  <2>1. d \in Position
    BY <1>3 DEF Holds
  <2>2. x \in DOMAIN Text[b] \/ x \in DOMAIN Text[c]
    BY <1>2, SetsAgree
  <2> QED
    BY <1>2, <2>1, <2>2, PlaceAbove
<1>5. \A p \in Differing[<<b, c>>]: p \in Slips[<<b, c>>] \/ Names[p] \cap a.request.declared # {}
  <2> SUFFICES ASSUME NEW p \in Differing[<<b, c>>], p \notin Slips[<<b, c>>]
               PROVE  Names[p] \cap a.request.declared # {}
    OBVIOUS
  <2>1. DifferAt(Text[b], Text[c], p) /\ ~SlipsAt(Text[b], Text[c], p)
    BY <1>2, SetsAgree
  <2>2. PICK d \in changed: IsPrefix(d, p)
    BY <1>3, <2>1
  <2>3. Path(d) \in Names[p]
    BY <1>4, <2>1, <2>2
  <2> QED
    BY <1>1, <2>3
<1>6. \A name \in a.request.declared:
          \E p \in Differing[<<b, c>>] \cup Unequal[<<b, c>>]: name \in Names[p]
  <2> SUFFICES ASSUME NEW d \in changed
               PROVE  \E p \in Differing[<<b, c>>] \cup Unequal[<<b, c>>]: Path(d) \in Names[p]
    BY <1>1
  <2>1. PICK x: (DifferAt(Text[b], Text[c], x) \/ UnequalAt(Text[b], Text[c], x)) /\ IsPrefix(d, x)
    BY <1>3 DEF Holds
  <2>2. x \in Differing[<<b, c>>] \cup Unequal[<<b, c>>]
    BY <1>2, <2>1, SetsAgree
  <2> QED
    BY <1>4, <2>1, <2>2
<1>7. /\ \A p \in Differing[<<b, c>>]: p \in Slips[<<b, c>>] \/ Names[p] \cap a.request.declared # {}
      /\ \A name \in a.request.declared:
            \E p \in Differing[<<b, c>>] \cup Unequal[<<b, c>>]: name \in Names[p]
  BY <1>5, <1>6
<1> QED
  BY <1>7 DEF b, c

\* Whatever the documents, a revision changes the fields its request declares and
\* no others, but for what Python takes for equal.
THEOREM OnlyPythonEqualsSlip == Spec => []OnlyEqualsSlip
  BY OnlyEquals, Invariant, PTL

\* At the positions two bodies share, == holds exactly where they are printed the
\* same: no 1 against 1.0 or true, no 0.0 against -0.0 and no NaN.
ValuesTellApart ==
    \A b, c \in Bodies: \A p \in Common(Text[b], Text[c]):
        Equal(Text[b][p], Text[c][p]) <=> Alike(Text[b][p], Text[c][p])

\* No key holds the dot or the bracket that gives two positions one name.
PathsTellApart ==
    \A b, c \in Bodies: \A p, r \in DOMAIN Text[b] \cup DOMAIN Text[c]: Path(p) = Path(r) => p = r

\* Among such bodies the fields declared are exactly those that changed.
THEOREM ChangesDeclared == ValuesTellApart /\ PathsTellApart => (Spec => []ChangesAreDeclared)
<1> SUFFICES ASSUME ValuesTellApart, PathsTellApart
             PROVE  Spec => []ChangesAreDeclared
  OBVIOUS
<1>1. IInv => ChangesAreDeclared
  <2> SUFFICES ASSUME IInv, NEW a \in amendments
               PROVE  LET pair == <<a.from.hash, a.to.hash>>
                      IN  /\ \A p \in Differing[pair]: Names[p] \cap a.request.declared # {}
                          /\ \A name \in a.request.declared: \E d \in Places(pair): Path(d) = name
                          /\ \A d \in Places(pair):
                                Path(d) \in a.request.declared => \E p \in Differing[pair]: IsPrefix(d, p)
    BY DEF ChangesAreDeclared
  <2> DEFINE b == a.from.hash
             c == a.to.hash
             changed == changed_positions(Text[b], Text[c])
  <2>1. /\ <<b, c>> \in Pairs /\ IsDocument(Text[b]) /\ IsDocument(Text[c])
        /\ a.request.declared = {Path(p): p \in changed}
    BY DeclaredWalk
  <2>2. b \in Bodies /\ c \in Bodies
    BY <2>1 DEF Pairs
  <2>3. \A d \in changed: Holds(Text[b], Text[c], d)
    BY <2>1, ChangedPositionsRight
  <2>4. /\ \A p \in Differing[<<b, c>>]: p \in Slips[<<b, c>>] \/ Names[p] \cap a.request.declared # {}
        /\ Places(<<b, c>>) = DOMAIN Text[b] \cup DOMAIN Text[c]
    BY OnlyEquals DEF OnlyEqualsSlip, Places
  <2> HIDE DEF b, c, changed
  <2>5. \A p: ~(DifferAt(Text[b], Text[c], p) /\ SlipsAt(Text[b], Text[c], p))
    BY <2>2 DEF ValuesTellApart, DifferAt, SlipsAt
  <2>6. \A p: UnequalAt(Text[b], Text[c], p) => DifferAt(Text[b], Text[c], p)
    BY <2>2 DEF ValuesTellApart, DifferAt, UnequalAt, Common
  <2>7. \A p \in Differing[<<b, c>>]: Names[p] \cap a.request.declared # {}
    BY <2>2, <2>4, <2>5, SetsAgree
  <2>8. \A d \in changed: /\ d \in Places(<<b, c>>)
                          /\ \E p \in Differing[<<b, c>>]: IsPrefix(d, p)
    <3> SUFFICES ASSUME NEW d \in changed
                 PROVE  /\ d \in Places(<<b, c>>)
                        /\ \E p \in Differing[<<b, c>>]: IsPrefix(d, p)
      OBVIOUS
    <3>1. PICK x: DifferAt(Text[b], Text[c], x) /\ IsPrefix(d, x)
      BY <2>3, <2>6 DEF Holds
    <3>2. x \in Differing[<<b, c>>] /\ (x \in DOMAIN Text[b] \/ x \in DOMAIN Text[c]) /\ d \in Position
      BY <2>2, <2>3, <3>1, SetsAgree DEF Holds
    <3>3. d \in Places(<<b, c>>)
      BY <2>2, <2>4, <3>1, <3>2, PlaceAbove
    <3> QED
      BY <3>1, <3>2, <3>3
  <2>9. \A name \in a.request.declared: \E d \in Places(<<b, c>>): Path(d) = name
    BY <2>1, <2>8
  <2>10. \A d \in Places(<<b, c>>):
            Path(d) \in a.request.declared => \E p \in Differing[<<b, c>>]: IsPrefix(d, p)
    <3> SUFFICES ASSUME NEW d \in Places(<<b, c>>), NEW f \in changed, Path(d) = Path(f)
                 PROVE  \E p \in Differing[<<b, c>>]: IsPrefix(d, p)
      BY <2>1
    <3>1. d = f
      BY <2>2, <2>4, <2>8 DEF PathsTellApart
    <3> QED
      BY <2>8, <3>1
  <2>11. /\ \A p \in Differing[<<b, c>>]: Names[p] \cap a.request.declared # {}
         /\ \A name \in a.request.declared: \E d \in Places(<<b, c>>): Path(d) = name
         /\ \A d \in Places(<<b, c>>):
               Path(d) \in a.request.declared => \E p \in Differing[<<b, c>>]: IsPrefix(d, p)
    BY <2>7, <2>9, <2>10
  <2> QED
    BY <2>11 DEF b, c
<1> QED
  BY <1>1, Invariant, PTL
==============================================================================
