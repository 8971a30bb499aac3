-------------------------- MODULE SemioInbox_proofs --------------------------
(***************************************************************************)
(* Theorems about SemioInbox for any entries, bindings and bounds.  The    *)
(* inductive invariant ties the local cursor of a scan to the stored one   *)
(* and says what the second look at the cursor makes of the entries read:  *)
(* they continue the cursor, or nothing was ever scanned before.           *)
(***************************************************************************)
EXTENDS SemioInbox, SequenceTheorems, FiniteSetTheorems, TLAPS

\* The binding of the object is that of the database, and it came first.
Bindings ==
    /\ phase = "closed" <=> config = NoConfig
    /\ config # NoConfig => bound = config
    /\ bound = NoConfig => cursor = 0
    /\ cursor = 0 => rows = <<>>
    /\ origin = 0 <=> cursor = 0
    /\ origin <= cursor

\* The entries of a scan are consecutive, and after the second look at the
\* cursor they continue it, if anything was scanned before.
Scanning ==
    /\ phase \in Polling => scan = cursor /\ outcome = "none"
    /\ \A i, j \in 1..Len(entries): j = i + 1 => entries[j] = entries[i] + 1
    /\ phase = "recheck" /\ entries # <<>> => entries[1] <= scan + 1 \/ entries[1] <= first
    /\ phase = "ingest" /\ entries # <<>> => scan = 0 \/ entries[1] <= scan + 1

\* What is on the stream was appended to it.
Streamed == log \in Seq(Appendable)

IInv ==
    TypeOK /\ Bindings /\ Scanning /\ Streamed /\ NoSilentGap /\ RowsComeFromStream /\ HandedOverInOrder
-----------------------------------------------------------------------------

\* The parts of TypeOK, by who changes them.
StreamTypes == log \in Seq(EntryType) /\ first \in 1 .. Len(log) + 1
StoreTypes ==
    /\ bound \in Configs \union {NoConfig} /\ cursor \in 0 .. Len(log) /\ origin \in 0 .. Len(log)
    /\ rows \in Seq(RowType)
ScanTypes ==
    /\ scan \in 0 .. Len(log) /\ entries \in Seq(1 .. Len(log))
    /\ config \in Configs \union {NoConfig}
    /\ phase \in {"closed", "open"} \union Polling /\ limit \in Nat \ {0} /\ deadline \in Int
    /\ outcome \in Outcomes /\ now \in Nat
PendingTypes == pending \in Seq(EntryType)

\* The type invariant, part by part.
LEMMA TypeParts == TypeOK <=> StreamTypes /\ StoreTypes /\ ScanTypes /\ PendingTypes
  BY DEF TypeOK, StreamTypes, StoreTypes, ScanTypes, PendingTypes

\* What a row is made of.
LEMMA Members ==
    /\ \A e \in EntryType, id \in Nat, d \in BOOLEAN: [envelope |-> e, id |-> id, delivered |-> d] \in RowType
    /\ \A row \in RowType: row.envelope \in EntryType /\ row.id \in Nat /\ row.delivered \in BOOLEAN
  BY DEF RowType

\* Appending to the stream moves nothing that is there.
LEMMA Appended ==
    ASSUME StreamTypes, NEW e \in Appendable, log' = Append(log, e)
    PROVE  /\ log' \in Seq(EntryType) /\ Len(log') = Len(log) + 1 /\ Len(log) \in Nat
           /\ \A i \in 1..Len(log): log'[i] = log[i]
  BY EntriesAssumption, AppendProperties DEF StreamTypes

\* A longer stream makes no position wrong.
LEMMA Longer ==
    ASSUME StreamTypes, StoreTypes, ScanTypes, NEW n \in Nat, n = Len(log) + 1
    PROVE  /\ first \in 1..(n + 1) /\ cursor \in 0..n /\ origin \in 0..n /\ scan \in 0..n
           /\ entries \in Seq(1..n)
<1>1. Len(log) \in Nat
  BY DEF StreamTypes
<1>2. 1..Len(log) \subseteq 1..n
  BY <1>1
<1>3. entries \in Seq(1..n)
  BY <1>2 DEF ScanTypes
<1> QED
  BY <1>1, <1>3 DEF StreamTypes, StoreTypes, ScanTypes
-----------------------------------------------------------------------------
(* What pending() returns.                                                 *)

\* A set of numbers has a least one: the initial segments up to its members
\* are finite sets, and those are well-founded.
LEMMA Least ==
    ASSUME NEW T, T \subseteq Nat, T # {}
    PROVE  \E m \in T: \A n \in T: m <= n
<1>1. PICK k \in T: TRUE
  OBVIOUS
<1> DEFINE F == {0..n: n \in {i \in T: i <= k}}
<1>2. F \subseteq FiniteSubsetsOf(0..k)
  <2>1. ASSUME NEW n \in T, n <= k
        PROVE  IsFiniteSet(0..n) /\ 0..n \subseteq 0..k
    BY <2>1, FS_Interval
  <2> QED
    BY <2>1 DEF FiniteSubsetsOf
<1>3. F # {}
  BY <1>1
<1>4. IsWellFoundedOn(StrictSubsetOrdering(0..k), FiniteSubsetsOf(0..k))
  BY FS_StrictSubsetOrderingWellFounded
<1> HIDE DEF F
<1>5. PICK f \in F: \A g \in F: ~(<<g, f>> \in StrictSubsetOrdering(0..k))
  BY <1>2, <1>3, <1>4, WFMin
<1>6. PICK m \in T: f = 0..m /\ m <= k
  BY DEF F
<1>7. ASSUME NEW n \in T, n < m
      PROVE  FALSE
  <2>1. 0..n \in F
    BY <1>1, <1>6, <1>7 DEF F
  <2>2. 0..n \subseteq 0..m /\ 0..n # 0..m /\ 0..n \subseteq 0..k /\ 0..m \subseteq 0..k
    BY <1>1, <1>6, <1>7
  <2>3. <<0..n, 0..m>> \in StrictSubsetOrdering(0..k)
    BY <2>2 DEF StrictSubsetOrdering
  <2> QED
    BY <1>5, <1>6, <2>1, <2>3
<1> QED
  BY <1>7

\* Among finitely many numbers one is the i-th.
LEMMA Ranked ==
    ASSUME NEW n \in Nat, NEW W \in SUBSET (1..n), NEW i \in 1..Cardinality(W)
    PROVE  \E k \in W: Cardinality({j \in W: j <= k}) = i
<1> DEFINE upto(k) == {j \in W: j <= k}
           T == {k \in 0..n: Cardinality(upto(k)) >= i}
<1>0. \A j \in W: j \in Nat /\ 1 <= j /\ j <= n
  OBVIOUS
<1>1. IsFiniteSet(W) /\ Cardinality(W) \in Nat
  <2>1. IsFiniteSet(1..n)
    BY FS_Interval
  <2>2. IsFiniteSet(W)
    BY <2>1, FS_Subset
  <2> QED
    BY <2>2, FS_CardinalityType
<1>2. i \in Nat /\ i >= 1
  BY <1>1
<1>3. ASSUME NEW k \in 0..n
      PROVE  IsFiniteSet(upto(k)) /\ Cardinality(upto(k)) \in Nat
  <2>1. upto(k) \in SUBSET W
    OBVIOUS
  <2> HIDE DEF upto
  <2>2. IsFiniteSet(upto(k))
    BY <1>1, <2>1, FS_Subset
  <2> QED
    BY <2>2, FS_CardinalityType
<1>4. n \in T
  <2>1. upto(n) = W
    BY <1>0
  <2>2. n \in 0..n /\ Cardinality(W) >= i
    BY <1>1
  <2> HIDE DEF upto
  <2> QED
    BY <2>1, <2>2
<1>5. 0 \notin T
  <2>1. \A j \in W: ~(j <= 0)
    BY <1>0
  <2>2. upto(0) = {}
    BY <2>1
  <2> HIDE DEF upto
  <2> QED
    BY <1>2, <2>2, FS_EmptySet
<1>6. ASSUME NEW k \in 1..n
      PROVE  upto(k) = IF k \in W THEN upto(k - 1) \cup {k} ELSE upto(k - 1)
  <2>1. \A j \in W: (j <= k) <=> (j <= k - 1 \/ j = k)
    BY <1>0
  <2>2. CASE k \in W
    <3>1. upto(k) \subseteq upto(k - 1) \cup {k}
      BY <2>1
    <3>2. upto(k - 1) \cup {k} \subseteq upto(k)
      BY <2>1, <2>2
    <3> QED
      BY <2>2, <3>1, <3>2
  <2>3. CASE k \notin W
    <3>1. upto(k) \subseteq upto(k - 1)
      BY <2>1, <2>3
    <3>2. upto(k - 1) \subseteq upto(k)
      BY <2>1
    <3> QED
      BY <2>3, <3>1, <3>2
  <2> QED
    BY <2>2, <2>3
<1>7. \A k \in 1..n: k - 1 \in 0..n /\ k \notin upto(k - 1)
  OBVIOUS
<1> HIDE DEF upto
<1>8. T \subseteq Nat
  OBVIOUS
<1>9. PICK k \in T: \A m \in T: k <= m
  <2> HIDE DEF T
  <2> QED
    BY <1>4, <1>8, Least
<1>10. k \in 1..n /\ Cardinality(upto(k)) >= i
  BY <1>5, <1>9
<1>11. k - 1 \notin T
  BY <1>9, <1>10
<1>12. Cardinality(upto(k - 1)) < i
  BY <1>2, <1>3, <1>7, <1>10, <1>11
<1>13. k \in W
  BY <1>2, <1>3, <1>6, <1>7, <1>10, <1>12
<1>14. Cardinality(upto(k)) = Cardinality(upto(k - 1)) + 1
  BY <1>3, <1>6, <1>7, <1>10, <1>13, FS_AddElement
<1>15. Cardinality(upto(k)) = i
  BY <1>2, <1>3, <1>7, <1>10, <1>12, <1>14
<1> QED
  BY <1>13, <1>15 DEF upto

\* The i-th undelivered row exists, for every i up to their number.
LEMMA Nth ==
    ASSUME rows \in Seq(RowType), NEW i \in 1..Cardinality(Waiting)
    PROVE  \E k \in Waiting: Cardinality(Earlier(k)) = i
<1>1. Len(rows) \in Nat /\ Waiting \in SUBSET (1..Len(rows))
  BY DEF Waiting
<1>2. \E k \in Waiting: Cardinality({j \in Waiting: j <= k}) = i
  BY <1>1, Ranked
<1> QED
  BY <1>2 DEF Earlier

\* Ranks of undelivered rows rise with the rows.
LEMMA Ranks ==
    ASSUME rows \in Seq(RowType)
    PROVE  /\ Cardinality(Waiting) \in Nat
           /\ \A k \in Waiting: Cardinality(Earlier(k)) \in 1..Cardinality(Waiting)
           /\ \A j, k \in Waiting: j < k => Cardinality(Earlier(j)) < Cardinality(Earlier(k))
<1>1. Waiting \subseteq 1..Len(rows) /\ Len(rows) \in Nat
  BY DEF Waiting
<1>2. \A k \in Waiting: k \in Nat
  BY <1>1
<1>3. IsFiniteSet(Waiting) /\ Cardinality(Waiting) \in Nat
  <2>1. IsFiniteSet(1..Len(rows))
    BY <1>1, FS_Interval
  <2>2. IsFiniteSet(Waiting)
    BY <1>1, <2>1, FS_Subset
  <2> QED
    BY <2>2, FS_CardinalityType
<1>4. ASSUME NEW k \in Waiting
      PROVE  /\ IsFiniteSet(Earlier(k)) /\ Cardinality(Earlier(k)) \in Nat
             /\ Cardinality(Earlier(k)) <= Cardinality(Waiting) /\ Cardinality(Earlier(k)) >= 1
  <2>1. Earlier(k) \in SUBSET Waiting /\ k \in Earlier(k)
    BY <1>2 DEF Earlier
  <2>2. IsFiniteSet(Earlier(k)) /\ Cardinality(Earlier(k)) <= Cardinality(Waiting)
    BY <1>3, <2>1, FS_Subset
  <2>3. Cardinality(Earlier(k)) \in Nat /\ Cardinality(Earlier(k)) # 0
    BY <2>1, <2>2, FS_CardinalityType, FS_EmptySet
  <2> QED
    BY <2>2, <2>3
<1>5. ASSUME NEW j \in Waiting, NEW k \in Waiting, j < k
      PROVE  Cardinality(Earlier(j)) < Cardinality(Earlier(k))
  <2>1. Earlier(j) \in SUBSET Earlier(k) /\ k \in Earlier(k) /\ k \notin Earlier(j)
    BY <1>2, <1>5 DEF Earlier
  <2>2. Earlier(j) # Earlier(k)
    BY <2>1
  <2>3. Cardinality(Earlier(j)) <= Cardinality(Earlier(k)) /\ Cardinality(Earlier(j)) # Cardinality(Earlier(k))
    BY <1>4, <2>1, <2>2, FS_Subset
  <2> QED
    BY <1>4, <2>3
<1>6. ASSUME NEW k \in Waiting
      PROVE  Cardinality(Earlier(k)) \in 1..Cardinality(Waiting)
  BY <1>3, <1>4
<1> QED
  BY <1>3, <1>5, <1>6

\* pending() returns stored envelopes, from the oldest undelivered row on.
LEMMA Handed ==
    ASSUME rows \in Seq(RowType), NEW n \in Nat \ {0}
    PROVE  /\ Undelivered(n) \in Seq(EntryType)
           /\ Len(Undelivered(n)) = Lesser(Cardinality(Waiting), n)
           /\ Len(Undelivered(n)) \in Nat
           /\ \A i \in 1..Len(Undelivered(n)): \E k \in Waiting:
                  Cardinality(Earlier(k)) = i /\ Undelivered(n)[i] = rows[k].envelope
<1> DEFINE m == Lesser(Cardinality(Waiting), n)
           nth(i) == CHOOSE k \in Waiting: Cardinality(Earlier(k)) = i
<1>1. m \in Nat /\ m <= Cardinality(Waiting) /\ Cardinality(Waiting) \in Nat
  BY Ranks DEF Lesser
<1>2. ASSUME NEW i \in 1..m
      PROVE  nth(i) \in Waiting /\ Cardinality(Earlier(nth(i))) = i
  <2>1. i \in 1..Cardinality(Waiting)
    BY <1>1
  <2> QED
    BY <2>1, Nth
<1>3. \A k \in Waiting: rows[k].envelope \in EntryType
  BY Members DEF Waiting
<1>4. Undelivered(n) = [i \in 1..m |-> rows[nth(i)].envelope]
  BY DEF Undelivered
<1> HIDE DEF m, nth
<1>5. Undelivered(n) \in Seq(EntryType) /\ Len(Undelivered(n)) = m
  BY <1>1, <1>2, <1>3, <1>4
<1>6. \A i \in 1..m: Undelivered(n)[i] = rows[nth(i)].envelope
  BY <1>4
<1> QED
  BY <1>1, <1>2, <1>5, <1>6 DEF m

\* p hands over rows of rs in order, and below n all that are undelivered.
InOrderOf(rs, p, n) ==
    /\ \A i \in 1..Len(p): \E k \in 1..Len(rs):
         /\ rs[k].envelope = p[i]
         /\ \A j \in 1..(k - 1): \/ rs[j].delivered
                                 \/ \E h \in 1..(i - 1): p[h] = rs[j].envelope
    /\ Len(p) < n => \A k \in 1..Len(rs): rs[k].delivered \/ \E i \in 1..Len(p): p[i] = rs[k].envelope

\* What is handed over is in order and complete below the limit.
LEMMA HandedInOrder ==
    ASSUME rows \in Seq(RowType), NEW n \in Nat \ {0}
    PROVE  InOrderOf(rows, Undelivered(n), n)
<1> DEFINE p == Undelivered(n)
<1> DEFINE c == Cardinality(Waiting)
           rank(k) == Cardinality(Earlier(k))
<1>1. /\ Len(p) = Lesser(c, n) /\ Len(p) \in Nat
      /\ \A i \in 1..Len(p): \E k \in Waiting: rank(k) = i /\ p[i] = rows[k].envelope
  BY Handed
<1>2. /\ c \in Nat /\ \A k \in Waiting: rank(k) \in 1..c
      /\ \A j, k \in Waiting: j < k => rank(j) < rank(k)
  BY Ranks
<1>3. Len(rows) \in Nat /\ \A k \in 1..Len(rows): k \in Waiting \/ rows[k].delivered
  BY DEF Waiting
<1>4. \A k \in Waiting: k \in 1..Len(rows)
  BY DEF Waiting
<1> HIDE DEF rank, c, p
<1>5. \A j, k \in Waiting: rank(j) = rank(k) => j = k
  BY <1>2, <1>3, <1>4
<1>6. ASSUME NEW k \in Waiting, rank(k) <= Len(p)
      PROVE  rank(k) \in 1..Len(p) /\ p[rank(k)] = rows[k].envelope
  <2>1. rank(k) \in 1..Len(p)
    BY <1>1, <1>2, <1>6
  <2> QED
    BY <1>1, <1>5, <2>1
<1>7. ASSUME NEW i \in 1..Len(p)
      PROVE  \E k \in 1..Len(rows):
                /\ rows[k].envelope = p[i]
                /\ \A j \in 1..(k - 1): \/ rows[j].delivered
                                        \/ \E h \in 1..(i - 1): p[h] = rows[j].envelope
  <2>1. PICK k \in Waiting: rank(k) = i /\ p[i] = rows[k].envelope
    BY <1>1
  <2>2. ASSUME NEW j \in 1..(k - 1), ~rows[j].delivered
        PROVE  \E h \in 1..(i - 1): p[h] = rows[j].envelope
    <3>1. j \in Waiting /\ j < k
      BY <1>3, <1>4, <2>2
    <3>2. rank(j) < i /\ rank(j) \in 1..c
      BY <1>2, <2>1, <3>1
    <3>3. rank(j) \in 1..(i - 1) /\ rank(j) <= Len(p)
      BY <1>1, <1>2, <3>2
    <3> QED
      BY <1>6, <3>1, <3>3
  <2> QED
    BY <1>4, <2>1, <2>2
<1>8. ASSUME Len(p) < n, NEW k \in 1..Len(rows), ~rows[k].delivered
      PROVE  \E i \in 1..Len(p): p[i] = rows[k].envelope
  <2>1. Len(p) = c
    BY <1>1, <1>2, <1>8 DEF Lesser
  <2>2. k \in Waiting /\ rank(k) <= Len(p)
    BY <1>2, <1>3, <1>8, <2>1
  <2> QED
    BY <1>6, <2>2
<1> QED
  BY <1>7, <1>8 DEF InOrderOf, p
-----------------------------------------------------------------------------
(* Types.                                                                  *)

\* What read_since answers: consecutive retained entries, the first of them no
\* later than the one after the position asked for, or the earliest retained.
LEMMA Sliced ==
    ASSUME StreamTypes, NEW since \in Nat, NEW n \in Nat \ {0}
    PROVE  /\ Slice(since, n) \in Seq(1..Len(log))
           /\ \A i, j \in 1..Len(Slice(since, n)): j = i + 1 => Slice(since, n)[j] = Slice(since, n)[i] + 1
           /\ Slice(since, n) # <<>> => Slice(since, n)[1] <= since + 1 \/ Slice(since, n)[1] <= first
<1> DEFINE from == IF since < first THEN first ELSE since + 1
           k == Lesser(Len(log) - from + 1, n)
           m == IF k < 0 THEN 0 ELSE k
<1>1. Len(log) \in Nat /\ first \in Nat /\ first >= 1
  BY DEF StreamTypes
<1>2. from \in Nat /\ from >= 1 /\ (from <= since + 1 \/ from <= first)
  BY <1>1
<1> HIDE DEF from
<1>3. k \in Int /\ k <= Len(log) - from + 1
  BY <1>1, <1>2 DEF Lesser
<1>4. Slice(since, n) = [i \in 1..k |-> from + i - 1]
  BY DEF Slice, from
<1> HIDE DEF k
<1>5. \A i \in 1..m: from + i - 1 \in 1..Len(log)
  BY <1>1, <1>2, <1>3
<1>6. m \in Nat /\ 1..k = 1..m
  BY <1>3
<1> HIDE DEF m
<1>7. Slice(since, n) = [i \in 1..m |-> from + i - 1]
  BY <1>4, <1>6
<1>8. Slice(since, n) \in Seq(1..Len(log)) /\ Len(Slice(since, n)) = m
  BY <1>5, <1>6, <1>7
<1>9. \A i \in 1..m: Slice(since, n)[i] = from + i - 1
  BY <1>7
<1>10. \A i, j \in 1..m: j = i + 1 => Slice(since, n)[j] = Slice(since, n)[i] + 1
  BY <1>2, <1>6, <1>9
<1>11. Slice(since, n) # <<>> => Slice(since, n)[1] = from
  <2>1. Slice(since, n) # <<>> => m # 0
    BY <1>8
  <2> QED
    BY <1>2, <1>6, <1>9, <2>1
<1> QED
  BY <1>2, <1>8, <1>10, <1>11

\* Ending a call keeps the types.
LEMMA ReturnTypes ==
    ASSUME StreamTypes, ScanTypes, NEW result \in Outcomes, Return(result),
           UNCHANGED <<stream, config, limit, now>>
    PROVE  ScanTypes'
  BY DEF StreamTypes, ScanTypes, Return, Forget, stream

\* mark_delivered() changes nothing else in the rows.
LEMMA MarkedRows ==
    ASSUME rows \in Seq(RowType), NEW mid, MarkDelivered(mid)
    PROVE  /\ rows' \in Seq(RowType) /\ Len(rows') = Len(rows) /\ Len(rows) \in Nat
           /\ \A k \in 1..Len(rows): /\ rows'[k].envelope = rows[k].envelope /\ rows'[k].id = rows[k].id
                                     /\ rows'[k].delivered <=> rows[k].delivered \/ rows[k].envelope.mid = mid
<1> DEFINE mark(k) == [rows[k] EXCEPT !.delivered = @ \/ rows[k].envelope.mid = mid]
<1>1. Len(rows) \in Nat /\ rows' = [k \in 1..Len(rows) |-> mark(k)]
  BY DEF MarkDelivered
<1>2. ASSUME NEW k \in 1..Len(rows)
      PROVE  /\ mark(k) \in RowType /\ mark(k).envelope = rows[k].envelope /\ mark(k).id = rows[k].id
             /\ mark(k).delivered <=> rows[k].delivered \/ rows[k].envelope.mid = mid
  <2>1. rows[k] \in RowType /\ rows[k].delivered \in BOOLEAN
    BY Members
  <2>2. rows[k].envelope.mid = mid => mark(k) = [rows[k] EXCEPT !.delivered = TRUE]
    BY <2>1
  <2>3. rows[k].envelope.mid # mid => mark(k) = [rows[k] EXCEPT !.delivered = rows[k].delivered]
    BY <2>1
  <2> QED
    BY <2>1, <2>2, <2>3 DEF RowType
<1> HIDE DEF mark
<1> QED
  BY <1>1, <1>2

\* Receiving an entry keeps the rows or adds one for it.
LEMMA GrownRows ==
    ASSUME log \in Seq(EntryType), rows \in Seq(RowType), NEW id \in 1..Len(log), id = Head(entries), Receive
    PROVE  /\ rows' \in Seq(RowType)
           /\ \/ rows' = rows /\ \E k \in 1..Len(rows): rows[k].envelope = log[id]
              \/ /\ rows' = Append(rows, [envelope |-> log[id], id |-> id, delivered |-> FALSE])
                 /\ \A k \in 1..Len(rows): rows[k].envelope.mid # log[id].mid
<1> DEFINE e == log[id]
           new == [envelope |-> e, id |-> id, delivered |-> FALSE]
<1>1. new \in RowType
  <2>1. e \in EntryType /\ id \in Nat /\ FALSE \in BOOLEAN
    OBVIOUS
  <2> HIDE DEF e
  <2> QED
    BY <2>1, Members
<1>2. CASE RowsOf(e.mid) # {}
  <2>1. PICK k \in 1..Len(rows): rows[k].envelope.mid = e.mid
    BY <1>2 DEF RowsOf
  <2>2. rows[k].envelope = e
    BY <2>1 DEF Receive, Conflicts, RowsOf
  <2> QED
    BY <1>2, <2>2 DEF Receive
<1>3. CASE RowsOf(e.mid) = {}
  <2>1. rows' = Append(rows, new)
    BY <1>3 DEF Receive
  <2> HIDE DEF new
  <2>2. rows' \in Seq(RowType)
    BY <1>1, <2>1, AppendProperties
  <2> QED
    BY <1>3, <2>1, <2>2 DEF RowsOf, new
<1> QED
  BY <1>2, <1>3

\* Every action keeps the types.
LEMMA TypeStep ==
    ASSUME TypeOK, [Next]_vars
    PROVE  TypeOK'
<1> USE DEF stream, store, locals
<1>0. StreamTypes /\ StoreTypes /\ ScanTypes /\ PendingTypes
  BY TypeParts
<1>1. SUFFICES StreamTypes' /\ StoreTypes' /\ ScanTypes' /\ PendingTypes'
  BY DEF TypeOK, StreamTypes, StoreTypes, ScanTypes, PendingTypes
<1>2. Len(log) \in Nat
  BY <1>0 DEF StreamTypes
<1>3. ASSUME UNCHANGED <<log, first>>
      PROVE  StreamTypes'
  BY <1>0, <1>3 DEF StreamTypes
<1>4. ASSUME UNCHANGED <<log, bound, cursor, rows, origin>>
      PROVE  StoreTypes'
  BY <1>0, <1>4 DEF StoreTypes
<1>5. ASSUME UNCHANGED pending
      PROVE  PendingTypes'
  BY <1>0, <1>5 DEF PendingTypes
<1>6. <<>> \in Seq(EntryType) /\ <<>> \in Seq(1..Len(log))
  OBVIOUS
<1>7. ASSUME NEW c \in Configs, Open(c)
      PROVE  StreamTypes' /\ StoreTypes' /\ ScanTypes' /\ PendingTypes'
  BY <1>0, <1>2, <1>3, <1>5, <1>6, <1>7 DEF Open, Return, Forget, StoreTypes, ScanTypes, Outcomes
<1>8. ASSUME NEW n \in Batches, NEW until \in Int, Begin(n, until)
      PROVE  StreamTypes' /\ StoreTypes' /\ ScanTypes' /\ PendingTypes'
  <2>1. n \in Nat \ {0}
    BY BoundsAssumption
  <2> QED
    BY <1>0, <1>2, <1>3, <1>4, <1>6, <1>8, <2>1 DEF Begin, StoreTypes, ScanTypes, PendingTypes, Outcomes, Polling
<1>9. ASSUME NEW n \in Batches, Poll(n)
      PROVE  StreamTypes' /\ StoreTypes' /\ ScanTypes' /\ PendingTypes'
  BY <1>8, <1>9 DEF Poll
<1>10. ASSUME NEW n \in Batches, NEW t \in Timeouts, Wait(n, t)
       PROVE  StreamTypes' /\ StoreTypes' /\ ScanTypes' /\ PendingTypes'
  <2>1. now + t \in Int
    BY <1>0, BoundsAssumption DEF ScanTypes
  <2> QED
    BY <1>8, <1>10, <2>1 DEF Wait
<1>11. ASSUME NEW e \in Appendable, log' = Append(log, e),
              UNCHANGED <<first, store, config, phase, locals, limit, pending, outcome, now>>
       PROVE  StreamTypes' /\ StoreTypes' /\ ScanTypes' /\ PendingTypes'
  <2>1. log' \in Seq(EntryType) /\ Len(log') = Len(log) + 1
    BY <1>0, <1>11, Appended
  <2>2. /\ first \in 1..(Len(log') + 1) /\ cursor \in 0..Len(log') /\ origin \in 0..Len(log')
        /\ scan \in 0..Len(log') /\ entries \in Seq(1..Len(log'))
    BY <1>0, <1>2, <2>1, Longer
  <2> QED
    BY <1>0, <1>5, <1>11, <2>1, <2>2 DEF StreamTypes, StoreTypes, ScanTypes
<1>12. ASSUME NEW e \in Appendable, Publish(e)
       PROVE  StreamTypes' /\ StoreTypes' /\ ScanTypes' /\ PendingTypes'
  BY <1>11, <1>12 DEF Publish
<1>13. ASSUME NEW e \in Appendable, PeerAppend(e)
       PROVE  StreamTypes' /\ StoreTypes' /\ ScanTypes' /\ PendingTypes'
  BY <1>11, <1>13 DEF PeerAppend
<1>14. ASSUME NEW mid \in MessageIds, MarkDelivered(mid)
       PROVE  StreamTypes' /\ StoreTypes' /\ ScanTypes' /\ PendingTypes'
  <2>1. rows' \in Seq(RowType)
    BY <1>0, <1>14, MarkedRows DEF StoreTypes
  <2> QED
    BY <1>0, <1>3, <1>5, <1>14, <2>1 DEF MarkDelivered, StoreTypes, ScanTypes
<1>15. ASSUME CheckCursor \/ Recheck
       PROVE  StreamTypes' /\ StoreTypes' /\ ScanTypes' /\ PendingTypes'
  <2>1. CASE Return("trimmed")
    <3>1. ScanTypes'
      BY <1>0, <1>15, <2>1, ReturnTypes DEF CheckCursor, Recheck, Outcomes
    <3> QED
      BY <1>3, <1>4, <1>5, <1>15, <3>1 DEF CheckCursor, Recheck
  <2>2. CASE GoOn("read") \/ GoOn("ingest")
    BY <1>0, <1>3, <1>4, <1>5, <1>15, <2>2 DEF CheckCursor, Recheck, GoOn, ScanTypes, Polling
  <2> QED
    BY <1>15, <2>1, <2>2 DEF CheckCursor, Recheck
<1>16. ASSUME NEW since \in 0..scan, Read(since)
       PROVE  StreamTypes' /\ StoreTypes' /\ ScanTypes' /\ PendingTypes'
  <2>1. since \in Nat /\ limit \in Nat \ {0}
    BY <1>0, <1>2 DEF ScanTypes
  <2>2. entries' \in Seq(1..Len(log))
    BY <1>0, <1>16, <2>1, Sliced DEF Read
  <2> QED
    BY <1>0, <1>3, <1>4, <1>5, <1>16, <2>2 DEF Read, ScanTypes, Polling
<1>17. ASSUME Skip \/ Receive
       PROVE  StreamTypes' /\ StoreTypes' /\ ScanTypes' /\ PendingTypes'
  <2>1. Head(entries) \in 1..Len(log) /\ Tail(entries) \in Seq(1..Len(log)) /\ Commit(Head(entries))
    BY <1>0, <1>17 DEF Skip, Receive, ScanTypes
  <2>2. rows' \in Seq(RowType)
    BY <1>0, <1>2, <1>17, <2>1, GrownRows DEF Skip, StreamTypes, StoreTypes
  <2> DEFINE id == Head(entries)
  <2> HIDE DEF id
  <2>3. cursor' = id /\ scan' = id /\ origin' \in {id, origin} /\ id \in 0..Len(log)
    BY <1>2, <2>1 DEF Commit, id
  <2>4. StoreTypes'
    BY <1>0, <2>1, <2>2, <2>3 DEF StoreTypes, Commit
  <2>5. ScanTypes'
    BY <1>0, <2>1, <2>3 DEF ScanTypes, Commit
  <2> QED
    BY <1>3, <1>5, <2>1, <2>4, <2>5 DEF Commit
<1>18. ASSUME Reject \/ Raise
       PROVE  StreamTypes' /\ StoreTypes' /\ ScanTypes' /\ PendingTypes'
  <2>1. PICK result \in {"invalid", "conflict", "error"}: Return(result)
    BY <1>18 DEF Reject, Raise
  <2>2. UNCHANGED <<stream, store, config, limit, pending, now>>
    BY <1>18 DEF Reject, Raise
  <2>3. ScanTypes'
    BY <1>0, <2>1, <2>2, ReturnTypes DEF Outcomes
  <2> QED
    BY <1>3, <1>4, <1>5, <2>2, <2>3
<1>19. ASSUME Collect
       PROVE  StreamTypes' /\ StoreTypes' /\ ScanTypes' /\ PendingTypes'
  <2>1. PendingTypes'
    BY <1>0, <1>19, Handed DEF Collect, ScanTypes, StoreTypes, PendingTypes
  <2>2. CASE Return("returned")
    <3>1. ScanTypes'
      BY <1>0, <1>19, <2>2, ReturnTypes DEF Collect, Outcomes
    <3> QED
      BY <1>3, <1>4, <1>19, <2>1, <3>1 DEF Collect
  <2>3. CASE GoOn("sleeping")
    BY <1>0, <1>3, <1>4, <1>19, <2>1, <2>3 DEF Collect, GoOn, ScanTypes, Polling
  <2> QED
    BY <1>19, <2>2, <2>3 DEF Collect
<1>20. ASSUME Wake
       PROVE  StreamTypes' /\ StoreTypes' /\ ScanTypes' /\ PendingTypes'
  BY <1>0, <1>3, <1>4, <1>5, <1>20 DEF Wake, ScanTypes, StoreTypes, Polling
<1>21. ASSUME Trim
       PROVE  StreamTypes' /\ StoreTypes' /\ ScanTypes' /\ PendingTypes'
  BY <1>0, <1>2, <1>4, <1>5, <1>21 DEF Trim, StreamTypes, ScanTypes
<1>22. ASSUME Close
       PROVE  StreamTypes' /\ StoreTypes' /\ ScanTypes' /\ PendingTypes'
  BY <1>0, <1>2, <1>3, <1>4, <1>6, <1>22 DEF Close, Forget, ScanTypes, PendingTypes, Outcomes
<1>23. ASSUME Tick
       PROVE  StreamTypes' /\ StoreTypes' /\ ScanTypes' /\ PendingTypes'
  BY <1>0, <1>3, <1>4, <1>5, <1>23 DEF Tick, ScanTypes
<1>24. CASE UNCHANGED vars
  BY <1>0, <1>3, <1>4, <1>5, <1>24 DEF vars, ScanTypes
<1> QED
  BY <1>1, <1>7, <1>9, <1>10, <1>12, <1>13, <1>14, <1>15, <1>16, <1>17, <1>18, <1>19, <1>20, <1>21,
     <1>22, <1>23, <1>24 DEF Next, Step, HostCall
-----------------------------------------------------------------------------
(* Bindings and scans.                                                     *)

\* Every action keeps the binding and the order of the first two positions.
LEMMA BindingsStep ==
    ASSUME TypeOK, Bindings, Scanning, [Next]_vars
    PROVE  Bindings'
<1> USE DEF stream, store, locals, Bindings
<1>0. StreamTypes /\ StoreTypes /\ ScanTypes /\ Len(log) \in Nat /\ cursor \in Nat /\ origin \in Nat
  BY TypeParts DEF StreamTypes, StoreTypes
<1>1. ASSUME NEW c \in Configs, Open(c)
      PROVE  Bindings'
  BY <1>1, ConfigsAssumption DEF Open, Return
<1>2. ASSUME UNCHANGED <<bound, cursor, rows, origin, config>>, phase # "closed", phase' # "closed"
      PROVE  Bindings'
  BY <1>2
<1>3. ASSUME NEW mid \in MessageIds, MarkDelivered(mid)
      PROVE  Bindings'
  BY <1>3 DEF MarkDelivered
<1>4. ASSUME Skip \/ Receive
      PROVE  Bindings'
  <2>1. Head(entries) \in 1..Len(log) /\ Head(entries) > scan /\ Commit(Head(entries)) /\ phase = "ingest"
    BY <1>0, <1>4 DEF Skip, Receive, ScanTypes
  <2>2. scan = cursor /\ config # NoConfig
    BY <2>1 DEF Scanning, Polling
  <2> DEFINE id == Head(entries)
  <2> HIDE DEF id
  <2>3. id \in Nat /\ id > cursor /\ cursor' = id /\ origin' = IF origin = 0 THEN id ELSE origin
    BY <1>0, <2>1, <2>2 DEF Commit, id
  <2> QED
    BY <1>0, <2>1, <2>2, <2>3 DEF Commit
<1>5. ASSUME Close
      PROVE  Bindings'
  BY <1>5 DEF Close
<1>6. ASSUME CheckCursor \/ (\E since \in 0..scan: Read(since)) \/ Recheck \/ Reject \/ Collect \/ Wake \/ Raise
      PROVE  Bindings'
  BY <1>2, <1>6 DEF CheckCursor, Read, Recheck, Reject, Collect, Wake, Raise, Return, GoOn, Polling
<1>7. ASSUME NEW n \in Batches, NEW until, Begin(n, until)
      PROVE  Bindings'
  BY <1>2, <1>7 DEF Begin
<1>8. ASSUME UNCHANGED <<bound, cursor, rows, origin, config, phase>>
      PROVE  Bindings'
  BY <1>8
<1> QED
  BY <1>1, <1>3, <1>4, <1>5, <1>6, <1>7, <1>8
     DEF Next, Step, HostCall, Poll, Wait, Publish, PeerAppend, Trim, Tick, vars

\* Every action keeps what is known of a scan.
LEMMA ScanningStep ==
    ASSUME TypeOK, Bindings, Scanning, [Next]_vars
    PROVE  Scanning'
<1> USE DEF stream, store, locals, Polling
<1>0. StreamTypes /\ StoreTypes /\ ScanTypes /\ Len(log) \in Nat /\ scan \in Nat /\ limit \in Nat \ {0}
  BY TypeParts DEF StreamTypes, ScanTypes
<1>1. ASSUME entries' = <<>>, phase' \notin Polling
      PROVE  Scanning'
  BY <1>1 DEF Scanning
<1>2. ASSUME NEW c \in Configs, Open(c)
      PROVE  Scanning'
  BY <1>1, <1>2 DEF Open, Return, Forget
<1>3. ASSUME NEW result, Return(result)
      PROVE  Scanning'
  BY <1>1, <1>3 DEF Return, Forget
<1>4. ASSUME Close
      PROVE  Scanning'
  BY <1>1, <1>4 DEF Close, Forget
<1>5. ASSUME UNCHANGED <<cursor, scan, entries, phase, outcome>>, first' >= first
      PROVE  Scanning'
  <2>1. entries # <<>> => entries[1] \in Nat
    BY <1>0 DEF ScanTypes
  <2>2. first \in Nat /\ first' \in Int
    BY <1>0, TypeStep DEF StreamTypes, TypeOK
  <2> QED
    BY <1>0, <1>5, <2>1, <2>2 DEF Scanning
<1>6. ASSUME (\E e \in Appendable: Publish(e) \/ PeerAppend(e))
             \/ Trim \/ Tick \/ (\E mid \in MessageIds: MarkDelivered(mid)) \/ UNCHANGED vars
      PROVE  Scanning'
  <2>1. first \in Nat
    BY <1>0 DEF StreamTypes
  <2> QED
    BY <1>5, <1>6, <2>1 DEF Publish, PeerAppend, Trim, Tick, MarkDelivered, vars
<1>7. ASSUME NEW n \in Batches, NEW until, Begin(n, until)
      PROVE  Scanning'
  BY <1>7 DEF Begin, Scanning
<1>8. ASSUME NEW since \in 0..scan, Read(since)
      PROVE  Scanning'
  <2>1. since \in Nat /\ since <= scan
    BY <1>0
  <2>2. /\ entries' \in Seq(1..Len(log))
        /\ \A i, j \in 1..Len(entries'): j = i + 1 => entries'[j] = entries'[i] + 1
        /\ entries' # <<>> => entries'[1] <= since + 1 \/ entries'[1] <= first
    BY <1>0, <1>8, <2>1, Sliced DEF Read
  <2>3. entries' # <<>> => entries'[1] \in Nat
    BY <2>2
  <2>4. entries' # <<>> => entries'[1] <= scan + 1 \/ entries'[1] <= first
    BY <1>0, <2>1, <2>2, <2>3
  <2> QED
    BY <1>8, <2>2, <2>4 DEF Read, Scanning
<1>9. ASSUME CheckCursor, GoOn("read")
      PROVE  Scanning'
  BY <1>9 DEF CheckCursor, GoOn, Scanning
<1>10. ASSUME Recheck, GoOn("ingest"), Retained(scan)
       PROVE  Scanning'
  <2>1. entries # <<>> => entries[1] \in Nat
    BY <1>0 DEF ScanTypes
  <2>2. first \in Nat
    BY <1>0 DEF StreamTypes
  <2>3. entries # <<>> => scan = 0 \/ entries[1] <= scan + 1
    BY <1>0, <1>10, <2>1, <2>2 DEF Scanning, Recheck, Retained
  <2> QED
    BY <1>10, <2>3 DEF Recheck, GoOn, Scanning
<1>11. ASSUME Skip \/ Receive
       PROVE  Scanning'
  <2>1. /\ phase = "ingest" /\ entries # <<>> /\ cursor' = Head(entries) /\ scan' = Head(entries)
        /\ entries' = Tail(entries) /\ phase' = phase /\ outcome' = outcome
    BY <1>11 DEF Skip, Receive, Commit
  <2>2. entries \in Seq(1..Len(log)) /\ entries # <<>>
    BY <1>0, <2>1 DEF ScanTypes
  <2>3. \A i, j \in 1..Len(entries): j = i + 1 => entries[j] = entries[i] + 1
    BY DEF Scanning
  <2>4. /\ Len(Tail(entries)) = Len(entries) - 1 /\ Len(entries) \in Nat
        /\ \A i \in 1..Len(Tail(entries)): Tail(entries)[i] = entries[i + 1]
    BY <2>2
  <2>5. \A i, j \in 1..Len(Tail(entries)): j = i + 1 => Tail(entries)[j] = Tail(entries)[i] + 1
    <3> DEFINE n == Len(entries)
    <3>1. \A i, j \in 1..(n - 1): j = i + 1 => i + 1 \in 1..n /\ j + 1 \in 1..n /\ j + 1 = (i + 1) + 1
      BY <2>4
    <3> QED
      BY <2>3, <2>4, <3>1
  <2>6. Tail(entries) # <<>> => Tail(entries)[1] <= Head(entries) + 1
    <3>1. Tail(entries) # <<>> => Len(entries) >= 2
      BY <2>2
    <3>2. Len(entries) >= 2 => entries[2] = entries[1] + 1 /\ entries[1] \in Nat
      BY <2>2, <2>3, <2>4
    <3> QED
      BY <2>2, <2>4, <3>1, <3>2
  <2> QED
    BY <2>1, <2>5, <2>6 DEF Scanning
<1>12. ASSUME Collect, GoOn("sleeping")
       PROVE  Scanning'
  BY <1>12 DEF Collect, GoOn, Scanning
<1>13. ASSUME Wake
       PROVE  Scanning'
  BY <1>13 DEF Wake, Scanning
<1>14. ASSUME CheckCursor \/ Recheck \/ Reject \/ Collect \/ Raise
       PROVE  Scanning'
  BY <1>3, <1>9, <1>10, <1>12, <1>14 DEF CheckCursor, Recheck, Reject, Collect, Raise
<1> QED
  BY <1>2, <1>4, <1>6, <1>7, <1>8, <1>11, <1>13, <1>14 DEF Next, Step, HostCall, Poll, Wait
-----------------------------------------------------------------------------
(* The inbox and the stream.                                               *)

\* What Skip and Receive take in is the entry after the cursor, or the first
\* one ever: no entry of the stream lies between.
LEMMA NextEntry ==
    ASSUME TypeOK, Bindings, Scanning, Skip \/ Receive
    PROVE  /\ Head(entries) \in 1..Len(log) /\ Commit(Head(entries)) /\ cursor < Head(entries)
           /\ cursor \in Nat /\ origin \in Nat /\ bound = config
           /\ IF origin = 0 THEN cursor = 0 /\ origin' = Head(entries)
              ELSE Head(entries) = cursor + 1 /\ origin' = origin
<1>1. StreamTypes /\ StoreTypes /\ ScanTypes /\ Len(log) \in Nat /\ cursor \in Nat /\ origin \in Nat
  BY TypeParts DEF StreamTypes, StoreTypes
<1>2. Head(entries) \in 1..Len(log) /\ Head(entries) = entries[1] /\ entries # <<>>
  BY <1>1 DEF Skip, Receive, ScanTypes
<1>3. phase = "ingest" /\ Head(entries) > scan /\ Commit(Head(entries))
  BY DEF Skip, Receive
<1>4. scan = cursor /\ bound = config /\ (scan = 0 \/ Head(entries) <= scan + 1)
  BY <1>2, <1>3 DEF Scanning, Bindings, Polling
<1> DEFINE id == Head(entries)
<1>5. id \in Nat /\ cursor < id
  BY <1>2, <1>3, <1>4
<1> HIDE DEF id
<1>6. origin' = IF origin = 0 THEN id ELSE origin
  BY <1>3 DEF Commit, id
<1>7. cursor # 0 => id = cursor + 1
  <2>1. cursor = 0 \/ id <= cursor + 1
    BY <1>4 DEF id
  <2> QED
    BY <1>1, <1>5, <2>1
<1> QED
  BY <1>1, <1>2, <1>3, <1>4, <1>5, <1>6, <1>7 DEF Bindings, id

\* While cursor, first position and binding stay, the stream only grows and no
\* row loses its envelope, nothing comes to be missing.
LEMMA NoGapAppears ==
    ASSUME TypeOK, Bindings, NoSilentGap, UNCHANGED <<cursor, origin>>,
           bound # NoConfig => bound' = bound,
           \A id \in 1..Len(log): log'[id] = log[id],
           \A k \in DOMAIN rows: k \in DOMAIN rows' /\ rows'[k].envelope = rows[k].envelope
    PROVE  NoSilentGap'
<1>1. cursor \in 0..Len(log) /\ Len(log) \in Nat
  BY DEF TypeOK
<1>2. ASSUME NEW id \in 1..cursor, origin <= id, Addressed(bound', log'[id])
      PROVE  \E k \in DOMAIN rows': rows'[k].envelope = log'[id]
  <2>1. id \in 1..Len(log) /\ log'[id] = log[id]
    BY <1>1, <1>2
  <2>2. bound' = bound
    BY <1>1, <1>2 DEF Bindings
  <2>3. Received(log[id])
    BY <1>2, <2>1, <2>2 DEF NoSilentGap
  <2> QED
    BY <2>1, <2>3 DEF Received
<1> QED
  BY <1>2 DEF NoSilentGap, Received, Addressed

\* Every other action leaves the positions and what the rows say alone, and the
\* stream only grows.
LEMMA QuietStep ==
    ASSUME TypeOK, Bindings, [Next]_vars, ~(Skip \/ Receive)
    PROVE  /\ UNCHANGED <<cursor, origin>>
           /\ bound # NoConfig => bound' = bound
           /\ \A id \in 1..Len(log): log'[id] = log[id]
           /\ DOMAIN rows' = DOMAIN rows
           /\ \A k \in DOMAIN rows: rows'[k].envelope = rows[k].envelope /\ rows'[k].id = rows[k].id
<1> USE DEF stream, store, locals
<1>0. StreamTypes /\ StoreTypes
  BY TypeParts
<1>1. ASSUME NEW c \in Configs, Open(c)
      PROVE  UNCHANGED <<log, cursor, origin, rows>> /\ (bound # NoConfig => bound' = bound)
  BY <1>1 DEF Open
<1>2. ASSUME NEW e \in Appendable, Publish(e) \/ PeerAppend(e)
      PROVE  UNCHANGED <<cursor, origin, bound, rows>> /\ \A id \in 1..Len(log): log'[id] = log[id]
  <2>1. log' = Append(log, e)
    BY <1>2 DEF Publish, PeerAppend
  <2> QED
    BY <1>0, <1>2, <2>1, Appended DEF Publish, PeerAppend
<1>3. ASSUME NEW mid \in MessageIds, MarkDelivered(mid)
      PROVE  /\ UNCHANGED <<log, cursor, origin, bound>>
             /\ DOMAIN rows' = DOMAIN rows
             /\ \A k \in DOMAIN rows: rows'[k].envelope = rows[k].envelope /\ rows'[k].id = rows[k].id
  <2>1. rows' \in Seq(RowType) /\ rows \in Seq(RowType) /\ Len(rows') = Len(rows)
    BY <1>0, <1>3, MarkedRows DEF StoreTypes
  <2>2. DOMAIN rows' = 1..Len(rows) /\ DOMAIN rows = 1..Len(rows)
    BY <2>1
  <2>3. \A k \in 1..Len(rows): rows'[k].envelope = rows[k].envelope /\ rows'[k].id = rows[k].id
    BY <1>3, <2>1, MarkedRows
  <2> QED
    BY <1>3, <2>2, <2>3 DEF MarkDelivered
<1>4. ASSUME CheckCursor \/ (\E since \in 0..scan: Read(since)) \/ Recheck \/ Reject \/ Collect \/ Wake
             \/ (\E n \in Batches: Poll(n) \/ (\E t \in Timeouts: Wait(n, t)))
             \/ Trim \/ Raise \/ Close \/ Tick \/ UNCHANGED vars
      PROVE  UNCHANGED <<log, cursor, origin, bound, rows>>
  BY <1>4 DEF CheckCursor, Read, Recheck, Reject, Collect, Wake, Poll, Wait, Begin, Trim, Raise, Close, Tick, vars
<1> QED
  BY <1>1, <1>2, <1>3, <1>4 DEF Next, Step, HostCall

\* Every action keeps the inbox whole.
LEMMA GapStep ==
    ASSUME TypeOK, Bindings, Scanning, NoSilentGap, [Next]_vars
    PROVE  NoSilentGap'
<1>1. CASE ~(Skip \/ Receive)
  BY <1>1, QuietStep, NoGapAppears
<1>2. CASE Skip \/ Receive
  <2>0. StreamTypes /\ StoreTypes /\ log' = log /\ bound' = bound /\ cursor' = Head(entries) /\ Commit(Head(entries))
    BY <1>2, NextEntry, TypeParts DEF Commit, stream
  <2> DEFINE id == Head(entries)
  <2>1. /\ id \in 1..Len(log) /\ cursor < id /\ cursor \in Nat /\ origin \in Nat /\ bound = config
        /\ IF origin = 0 THEN cursor = 0 /\ origin' = id ELSE id = cursor + 1 /\ origin' = origin
    BY <1>2, NextEntry
  <2>2. ASSUME Addressed(bound, log[id])
        PROVE  \E k \in DOMAIN rows': rows'[k].envelope = log[id]
    <3>1. Receive
      BY <1>2, <2>1, <2>2 DEF Skip
    <3>2. /\ rows' \in Seq(RowType) /\ rows \in Seq(RowType)
          /\ \/ rows' = rows /\ \E k \in 1..Len(rows): rows[k].envelope = log[id]
             \/ rows' = Append(rows, [envelope |-> log[id], id |-> id, delivered |-> FALSE])
      BY <2>0, <2>1, <3>1, GrownRows DEF StreamTypes, StoreTypes
    <3>3. CASE rows' = rows /\ \E k \in 1..Len(rows): rows[k].envelope = log[id]
      BY <3>2, <3>3
    <3>4. CASE rows' = Append(rows, [envelope |-> log[id], id |-> id, delivered |-> FALSE])
      <4> DEFINE new == [envelope |-> log[id], id |-> id, delivered |-> FALSE]
      <4>1. new.envelope = log[id]
        OBVIOUS
      <4> HIDE DEF new
      <4>2. Len(rows) + 1 \in DOMAIN rows' /\ rows'[Len(rows) + 1] = new
        BY <3>2, <3>4, AppendProperties DEF new
      <4> QED
        BY <4>1, <4>2
    <3> QED
      BY <3>2, <3>3, <3>4
  <2>3. \A k \in DOMAIN rows: k \in DOMAIN rows' /\ rows'[k] = rows[k]
    <3>1. CASE Skip
      BY <3>1 DEF Skip
    <3>2. CASE Receive
      <4>1. /\ rows \in Seq(RowType)
            /\ rows' = rows \/ rows' = Append(rows, [envelope |-> log[id], id |-> id, delivered |-> FALSE])
        BY <2>0, <2>1, <3>2, GrownRows DEF StreamTypes, StoreTypes
      <4> QED
        BY <4>1, AppendProperties
    <3> QED
      BY <1>2, <3>1, <3>2
  <2> HIDE DEF id
  <2>4. cursor' = id
    BY <2>0 DEF id
  <2>5. ASSUME NEW i \in 1..cursor', origin' <= i, Addressed(bound, log[i])
        PROVE  \E k \in DOMAIN rows': rows'[k].envelope = log[i]
    <3>1. CASE i = id
      BY <2>2, <2>5, <3>1
    <3>2. CASE i # id
      <4>1. i \in 1..cursor /\ origin <= i
        BY <2>1, <2>4, <2>5, <3>2
      <4>2. PICK k \in DOMAIN rows: rows[k].envelope = log[i]
        BY <2>5, <4>1 DEF NoSilentGap, Received
      <4> QED
        BY <2>3, <4>2
    <3> QED
      BY <3>1, <3>2
  <2> QED
    BY <2>0, <2>5 DEF NoSilentGap, Received, Addressed
<1> QED
  BY <1>1, <1>2

\* A sequence grows by its last element.
LEMMA Extended ==
    ASSUME NEW S, NEW s \in Seq(S), NEW e, NEW t, t = Append(s, e)
    PROVE  /\ DOMAIN t = 1..(Len(s) + 1) /\ t[Len(s) + 1] = e
           /\ \A k \in 1..Len(s): t[k] = s[k]
<1>1. s \in Seq(S \cup {e})
  OBVIOUS
<1> QED
  BY <1>1, AppendProperties

\* What each row must be, for a given stream and binding.
RowSound(k) ==
    /\ rows[k].id \in origin .. cursor /\ log[rows[k].id] = rows[k].envelope
    /\ Addressed(bound, rows[k].envelope)
    /\ rows[k].envelope.sound /\ rows[k].envelope.identity = bound.identity
RowLast(k) ==
    \A j \in 1 .. k - 1: rows[j].id < rows[k].id /\ rows[j].envelope.mid # rows[k].envelope.mid

\* Every action keeps the rows true to the stream.
LEMMA RowsStep ==
    ASSUME TypeOK, Bindings, Scanning, RowsComeFromStream, [Next]_vars
    PROVE  RowsComeFromStream'
<1>0. /\ StreamTypes /\ StoreTypes /\ rows \in Seq(RowType) /\ Len(rows) \in Nat /\ DOMAIN rows = 1..Len(rows)
      /\ Len(log) \in Nat /\ cursor \in 0..Len(log) /\ cursor \in Nat /\ origin \in 0..Len(log) /\ origin \in Nat
  BY TypeParts DEF StreamTypes, StoreTypes
<1>1. \A k \in 1..Len(rows): RowSound(k) /\ RowLast(k)
  BY <1>0 DEF RowsComeFromStream, RowSound, RowLast
<1>2. CASE ~(Skip \/ Receive)
  <2>1. /\ cursor' = cursor /\ origin' = origin /\ (bound # NoConfig => bound' = bound)
        /\ \A id \in 1..Len(log): log'[id] = log[id]
        /\ DOMAIN rows' = DOMAIN rows
        /\ \A k \in DOMAIN rows: rows'[k].envelope = rows[k].envelope /\ rows'[k].id = rows[k].id
    BY <1>2, QuietStep
  <2>2. ASSUME NEW k \in DOMAIN rows
        PROVE  /\ rows'[k].id \in origin'..cursor' /\ log'[rows'[k].id] = rows'[k].envelope
               /\ Addressed(bound', rows'[k].envelope)
               /\ rows'[k].envelope.sound /\ rows'[k].envelope.identity = bound'.identity
               /\ \A j \in 1..(k - 1): rows'[j].id < rows'[k].id /\ rows'[j].envelope.mid # rows'[k].envelope.mid
    <3>1. RowSound(k) /\ RowLast(k)
      BY <1>0, <1>1
    <3>2. bound' = bound
      <4>1. rows # <<>>
        BY <1>0
      <4> QED
        BY <2>1, <4>1 DEF Bindings
    <3>3. rows[k].id \in 1..Len(log)
      <4>1. rows[k].id \in Nat /\ rows[k].id <= Len(log) /\ rows[k].id >= origin
        BY <1>0, <3>1, Members DEF RowSound
      <4>2. origin # 0
        BY <1>0 DEF Bindings
      <4> QED
        BY <1>0, <4>1, <4>2
    <3>4. log'[rows'[k].id] = rows'[k].envelope
      BY <2>1, <3>1, <3>3 DEF RowSound
    <3>5. \A j \in 1..(k - 1): j \in DOMAIN rows
      BY <1>0
    <3> QED
      BY <2>1, <3>1, <3>2, <3>4, <3>5 DEF RowSound, RowLast
  <2> QED
    BY <2>1, <2>2 DEF RowsComeFromStream, Addressed
<1>3. CASE Skip \/ Receive
  <2> DEFINE id == Head(entries)
             new == [envelope |-> log[id], id |-> id, delivered |-> FALSE]
  <2>1. /\ id \in 1..Len(log) /\ cursor < id /\ bound = config /\ cursor' = id
        /\ origin' = origin \/ (origin = 0 /\ cursor = 0 /\ origin' = id)
        /\ log' = log /\ bound' = bound
    BY <1>3, NextEntry DEF Commit, stream
  <2>2. cursor = 0 => rows = <<>>
    BY DEF Bindings
  <2>3. \/ rows' = rows
        \/ /\ rows' = Append(rows, new)
           /\ \A k \in 1..Len(rows): rows[k].envelope.mid # log[id].mid
           /\ Addressed(config, log[id]) /\ Valid(config, log[id])
    <3>1. CASE Skip
      BY <3>1 DEF Skip
    <3>2. CASE Receive
      BY <1>0, <2>1, <3>2, GrownRows DEF StreamTypes, Receive
    <3> QED
      BY <1>3, <3>1, <3>2
  <2>4. new.envelope = log[id] /\ new.id = id
    OBVIOUS
  <2> HIDE DEF id, new
  <2>5. ASSUME NEW k \in 1..Len(rows)
        PROVE  /\ rows[k].id \in origin'..cursor' /\ log[rows[k].id] = rows[k].envelope
               /\ Addressed(bound, rows[k].envelope)
               /\ rows[k].envelope.sound /\ rows[k].envelope.identity = bound.identity
               /\ \A j \in 1..(k - 1): rows[j].id < rows[k].id /\ rows[j].envelope.mid # rows[k].envelope.mid
               /\ rows[k].id < id
    <3>1. RowSound(k) /\ RowLast(k)
      BY <1>1
    <3>2. origin' = origin
      BY <1>0, <2>1, <2>2
    <3>3. rows[k].id \in Nat /\ id \in Nat
      BY <1>0, <2>1, Members
    <3> QED
      BY <1>0, <2>1, <3>1, <3>2, <3>3 DEF RowSound, RowLast
  <2>6. CASE rows' = rows
    BY <1>0, <2>1, <2>5, <2>6 DEF RowsComeFromStream, Addressed
  <2>7. CASE rows' # rows
    <3>1. /\ rows' = Append(rows, new)
          /\ \A k \in 1..Len(rows): rows[k].envelope.mid # log[id].mid
          /\ Addressed(config, log[id]) /\ log[id].sound /\ log[id].identity = config.identity
      BY <2>3, <2>7 DEF Valid
    <3>2. /\ DOMAIN rows' = 1..(Len(rows) + 1) /\ rows'[Len(rows) + 1] = new
          /\ \A k \in 1..Len(rows): rows'[k] = rows[k]
      BY <1>0, <3>1, Extended
    <3>3. id \in origin'..cursor'
      BY <1>0, <2>1 DEF Bindings
    <3>4. ASSUME NEW k \in DOMAIN rows'
          PROVE  /\ rows'[k].id \in origin'..cursor' /\ log[rows'[k].id] = rows'[k].envelope
                 /\ Addressed(bound, rows'[k].envelope)
                 /\ rows'[k].envelope.sound /\ rows'[k].envelope.identity = bound.identity
                 /\ \A j \in 1..(k - 1): rows'[j].id < rows'[k].id /\ rows'[j].envelope.mid # rows'[k].envelope.mid
      <4>1. CASE k = Len(rows) + 1
        <5>1. \A j \in 1..(k - 1): j \in 1..Len(rows)
          BY <1>0, <4>1
        <5> QED
          BY <2>1, <2>4, <2>5, <3>1, <3>2, <3>3, <4>1, <5>1
      <4>2. CASE k # Len(rows) + 1
        <5>1. k \in 1..Len(rows) /\ \A j \in 1..(k - 1): j \in 1..Len(rows)
          BY <1>0, <3>2, <4>2
        <5>2. rows'[k] = rows[k] /\ \A j \in 1..(k - 1): rows'[j] = rows[j]
          BY <3>2, <5>1
        <5> QED
          BY <2>5, <5>1, <5>2
      <4> QED
        BY <4>1, <4>2
    <3> QED
      BY <2>1, <3>4 DEF RowsComeFromStream, Addressed
  <2> QED
    BY <2>6, <2>7
<1> QED
  BY <1>2, <1>3

\* Every action appends entries of the stream only.
LEMMA StreamedStep ==
    ASSUME TypeOK, Streamed, [Next]_vars
    PROVE  Streamed'
<1>1. CASE log' = log
  BY <1>1 DEF Streamed
<1>2. ASSUME NEW e \in Appendable, log' = Append(log, e)
      PROVE  Streamed'
  BY <1>2, AppendProperties DEF Streamed
<1> QED
  BY <1>1, <1>2 DEF Next, Step, HostCall, vars, stream, Open, Poll, Wait, Begin, Publish, MarkDelivered,
     CheckCursor, Read, Recheck, Skip, Receive, Commit, Reject, Collect, Wake, PeerAppend, Trim, Raise, Close, Tick

\* What has been handed over stays in order while the call's result stands.
LEMMA HandedStep ==
    ASSUME TypeOK, Scanning, HandedOverInOrder, [Next]_vars
    PROVE  HandedOverInOrder'
<1> USE DEF stream, store, locals
<1>0. /\ StoreTypes /\ ScanTypes /\ rows \in Seq(RowType) /\ Len(rows) \in Nat /\ DOMAIN rows = 1..Len(rows)
      /\ pending \in Seq(EntryType) /\ limit \in Nat \ {0}
  BY TypeParts DEF StoreTypes, ScanTypes, PendingTypes
<1>1. CASE outcome' # "returned"
  BY <1>1 DEF HandedOverInOrder
<1>2. CASE UNCHANGED <<pending, limit, outcome, rows>>
  BY <1>2 DEF HandedOverInOrder
<1>3. ASSUME NEW mid \in MessageIds, MarkDelivered(mid)
      PROVE  HandedOverInOrder'
  <2>1. /\ rows' \in Seq(RowType) /\ Len(rows') = Len(rows)
        /\ \A k \in 1..Len(rows): rows'[k].envelope = rows[k].envelope /\ (rows[k].delivered => rows'[k].delivered)
    BY <1>0, <1>3, MarkedRows
  <2>2. DOMAIN rows' = DOMAIN rows
    BY <1>0, <2>1
  <2>3. UNCHANGED <<pending, limit, outcome>>
    BY <1>3 DEF MarkDelivered
  <2>4. ASSUME outcome = "returned", NEW i \in DOMAIN pending
        PROVE  \E k \in DOMAIN rows: /\ rows'[k].envelope = pending[i]
                                     /\ \A j \in 1 .. k - 1: \/ rows'[j].delivered
                                                             \/ \E h \in 1 .. i - 1: pending[h] = rows'[j].envelope
    <3>1. PICK k \in DOMAIN rows: /\ rows[k].envelope = pending[i]
                                  /\ \A j \in 1 .. k - 1: \/ rows[j].delivered
                                                          \/ \E h \in 1 .. i - 1: pending[h] = rows[j].envelope
      BY <2>4 DEF HandedOverInOrder
    <3>2. \A j \in 1 .. k - 1: j \in 1..Len(rows)
      BY <1>0
    <3> QED
      BY <1>0, <2>1, <3>1, <3>2
  <2>5. ASSUME outcome = "returned", Len(pending) < limit, NEW k \in DOMAIN rows
        PROVE  rows'[k].delivered \/ \E i \in DOMAIN pending: pending[i] = rows'[k].envelope
    <3>1. rows[k].delivered \/ \E i \in DOMAIN pending: pending[i] = rows[k].envelope
      BY <2>5 DEF HandedOverInOrder
    <3> QED
      BY <1>0, <2>1, <3>1
  <2> QED
    BY <2>2, <2>3, <2>4, <2>5 DEF HandedOverInOrder
<1>4. ASSUME Collect
      PROVE  HandedOverInOrder'
  <2>1. pending' = Undelivered(limit) /\ rows' = rows /\ limit' = limit
    BY <1>4 DEF Collect
  <2>2. Undelivered(limit) \in Seq(EntryType)
    BY <1>0, Handed
  <2>3. InOrderOf(rows, Undelivered(limit), limit)
    BY <1>0, HandedInOrder
  <2>4. InOrderOf(rows', pending', limit')
    BY <2>1, <2>3
  <2>5. DOMAIN rows' = 1..Len(rows') /\ DOMAIN pending' = 1..Len(pending')
    BY <1>0, <2>1, <2>2
  <2>6. \A i \in DOMAIN pending': \E k \in DOMAIN rows':
           /\ rows'[k].envelope = pending'[i]
           /\ \A j \in 1 .. k - 1: \/ rows'[j].delivered
                                   \/ \E h \in 1 .. i - 1: pending'[h] = rows'[j].envelope
    BY <2>4, <2>5, ZenonT(40) DEF InOrderOf
  <2>7. Len(pending') < limit' =>
           \A k \in DOMAIN rows': rows'[k].delivered \/ \E i \in DOMAIN pending': pending'[i] = rows'[k].envelope
    BY <2>4, <2>5, Zenon DEF InOrderOf
  <2> QED
    BY <2>6, <2>7, Zenon DEF HandedOverInOrder
<1>5. ASSUME Skip \/ Receive \/ (\E since \in 0..scan: Read(since)) \/ CheckCursor \/ Recheck \/ Wake
      PROVE  outcome' # "returned"
  <2>1. outcome = "none"
    BY <1>5 DEF Scanning, Polling, Skip, Receive, Read, CheckCursor, Recheck, Wake
  <2> QED
    BY <1>5, <2>1 DEF Skip, Receive, Commit, Read, CheckCursor, Recheck, Wake, GoOn, Return
<1>6. ASSUME Reject \/ Raise \/ Close \/ (\E c \in Configs: Open(c))
             \/ \E n \in Batches: Poll(n) \/ (\E t \in Timeouts: Wait(n, t))
      PROVE  outcome' # "returned"
  BY <1>6 DEF Reject, Raise, Close, Open, Return, Poll, Wait, Begin
<1> QED
  BY <1>1, <1>2, <1>3, <1>4, <1>5, <1>6
     DEF Next, Step, HostCall, Publish, PeerAppend, Trim, Tick, vars
-----------------------------------------------------------------------------
(* Theorems.                                                               *)

\* An empty database, a new stream and no adapter.
LEMMA InitIInv == Init => IInv
<1> SUFFICES ASSUME Init PROVE IInv
  OBVIOUS
<1>0. <<>> \in Seq(EntryType) /\ <<>> \in Seq(RowType) /\ <<>> \in Seq(1..0) /\ <<>> \in Seq(Appendable) /\ Len(<<>>) = 0
      /\ DOMAIN <<>> = {}
  OBVIOUS
<1>1. TypeOK
  BY <1>0 DEF Init, TypeOK, Polling, Outcomes
<1>2. Bindings /\ Scanning /\ Streamed
  BY <1>0 DEF Init, Bindings, Scanning, Streamed, Polling
<1>3. NoSilentGap /\ RowsComeFromStream /\ HandedOverInOrder
  BY <1>0 DEF Init, NoSilentGap, RowsComeFromStream, HandedOverInOrder
<1> QED
  BY <1>1, <1>2, <1>3 DEF IInv

\* Every action keeps the inductive invariant.
LEMMA InboxInductive == IInv /\ [Next]_vars => IInv'
  BY TypeStep, BindingsStep, ScanningStep, StreamedStep, GapStep, RowsStep, HandedStep DEF IInv

\* The inductive invariant holds in every reachable state.
THEOREM Invariant == Spec => []IInv
  BY InitIInv, InboxInductive, PTL DEF Spec

\* The adapter, the stream and the table stay well-typed.
THEOREM TypeCorrect == Spec => []TypeOK
<1>1. IInv => TypeOK
  BY DEF IInv
<1> QED
  BY <1>1, Invariant, PTL

\* Whatever was trimmed, rejected, answered out of order or interrupted,
\* nothing addressed to the inbox is passed over in silence.
THEOREM Complete == Spec => []NoSilentGap
<1>1. IInv => NoSilentGap
  BY DEF IInv
<1> QED
  BY <1>1, Invariant, PTL

\* Every row is an entry of the stream, once, in its order.
THEOREM Genuine == Spec => []RowsComeFromStream
<1>1. IInv => RowsComeFromStream
  BY DEF IInv
<1> QED
  BY <1>1, Invariant, PTL

\* What poll() and wait() return is stored, in order, and complete below the limit.
THEOREM InOrder == Spec => []HandedOverInOrder
<1>1. IInv => HandedOverInOrder
  BY DEF IInv
<1> QED
  BY <1>1, Invariant, PTL
-----------------------------------------------------------------------------
(* The abstract mailbox.                                                   *)

\* The state of the mailbox, named as it is here.
taken == {rows[k].envelope: k \in DOMAIN rows}
settled == {rows[k].envelope.mid: k \in {j \in DOMAIN rows: rows[j].delivered}}

\* Opening an adapter binds the mailbox, or finds it bound to the same.
LEMMA OpenBinds ==
    ASSUME NEW c \in Configs, Open(c)
    PROVE  \/ bound = NoConfig /\ bound' \in Configs /\ UNCHANGED <<taken, settled, cursor>>
           \/ UNCHANGED <<bound, taken, settled, cursor>>
<1>1. rows' = rows /\ cursor' = cursor /\ bound' = c /\ bound \in {NoConfig, c}
  BY DEF Open
<1> QED
  BY <1>1 DEF taken, settled

\* Marking a message delivered confirms one that was received.
LEMMA MarkConfirms ==
    ASSUME rows \in Seq(RowType), NEW mid, MarkDelivered(mid)
    PROVE  /\ UNCHANGED <<bound, taken, cursor>>
           /\ \E m \in taken: settled' = settled \union {m.mid}
<1>1. /\ rows' \in Seq(RowType) /\ Len(rows') = Len(rows)
      /\ \A k \in 1..Len(rows): /\ rows'[k].envelope = rows[k].envelope
                                /\ rows'[k].delivered <=> rows[k].delivered \/ rows[k].envelope.mid = mid
  BY MarkedRows
<1>2. DOMAIN rows = 1..Len(rows) /\ DOMAIN rows' = DOMAIN rows
  BY <1>1
<1>3. PICK k \in DOMAIN rows: rows[k].envelope.mid = mid
  BY DEF MarkDelivered, RowsOf
<1>4. taken' = taken
  BY <1>1, <1>2 DEF taken
<1>5. settled' = settled \union {mid}
  <2>1. settled' \subseteq settled \union {mid}
    BY <1>1, <1>2 DEF settled
  <2>2. settled \subseteq settled'
    BY <1>1, <1>2 DEF settled
  <2>3. mid \in settled'
    BY <1>1, <1>2, <1>3 DEF settled
  <2> QED
    BY <2>1, <2>2, <2>3
<1> QED
  BY <1>3, <1>4, <1>5 DEF MarkDelivered, taken

\* Taking in one entry receives a new message, or nothing, and moves the position.
LEMMA EntryReceives ==
    ASSUME TypeOK, Bindings, Scanning, Streamed, Skip \/ Receive
    PROVE  /\ bound # NoConfig /\ cursor' > cursor /\ UNCHANGED <<bound, settled>>
           /\ \/ taken' = taken
              \/ \E m \in Appendable: /\ \A n \in taken: n.mid # m.mid
                                     /\ taken' = taken \union {m}
<1> DEFINE id == Head(entries)
           new == [envelope |-> log[id], id |-> id, delivered |-> FALSE]
<1>0. rows \in Seq(RowType) /\ log \in Seq(EntryType) /\ DOMAIN rows = 1..Len(rows) /\ Len(rows) \in Nat
  BY DEF TypeOK
<1>1. id \in 1..Len(log) /\ cursor < id /\ cursor' = id /\ bound' = bound /\ bound = config /\ phase = "ingest"
  BY NextEntry DEF Commit, Skip, Receive
<1>2. bound # NoConfig /\ cursor' > cursor
  <2>1. cursor \in Nat /\ Len(log) \in Nat
    BY <1>0 DEF TypeOK
  <2> QED
    BY <1>1, <2>1 DEF Bindings
<1>3. \/ rows' = rows
      \/ /\ rows' = Append(rows, new)
         /\ \A k \in 1..Len(rows): rows[k].envelope.mid # log[id].mid
  <2>1. CASE Skip
    BY <2>1 DEF Skip
  <2>2. CASE Receive
    BY <1>0, <1>1, <2>2, GrownRows
  <2> QED
    BY <2>1, <2>2
<1>4. log[id] \in Appendable
  BY <1>1 DEF Streamed
<1>5. new.envelope = log[id] /\ new.delivered = FALSE
  OBVIOUS
<1>6. CASE rows' = rows
  BY <1>1, <1>2, <1>6 DEF taken, settled
<1>7. CASE rows' # rows
  <2> HIDE DEF new, id
  <2>1. rows' = Append(rows, new)
    BY <1>3, <1>7
  <2>2. /\ DOMAIN rows' = 1..(Len(rows) + 1) /\ rows'[Len(rows) + 1] = new
        /\ \A k \in 1..Len(rows): rows'[k] = rows[k]
    BY <1>0, <2>1, Extended
  <2>3. DOMAIN rows' = DOMAIN rows \union {Len(rows) + 1} /\ Len(rows) + 1 \notin DOMAIN rows
    BY <1>0, <2>2
  <2>4. taken' = taken \union {log[id]}
    BY <1>0, <1>5, <2>2, <2>3 DEF taken
  <2>5. settled' = settled
    BY <1>0, <1>5, <2>2, <2>3 DEF settled
  <2>6. \A n \in taken: n.mid # log[id].mid
    BY <1>0, <1>3, <1>7 DEF taken
  <2> QED
    BY <1>1, <1>2, <1>4, <2>4, <2>5, <2>6
<1> QED
  BY <1>6, <1>7

\* Every behaviour of the adapter is one of the mailbox: it keeps its promise
\* through crashes, reopenings, trimming and repeated or reordered answers.
THEOREM Refinement == Spec => KeepsPromise
<1> USE DEF Promise!vars, MidOf
<1>1. Init => Promise!Init
  <2>1. DOMAIN <<>> = {}
    OBVIOUS
  <2> QED
    BY <2>1 DEF Init, Promise!Init
<1>2. IInv /\ [Next]_vars => [Promise!Next]_(Promise!vars)
  <2> SUFFICES ASSUME IInv, [Next]_vars
               PROVE  [Promise!Next]_(Promise!vars)
    OBVIOUS
  <2>0. TypeOK /\ Bindings /\ Scanning /\ Streamed /\ rows \in Seq(RowType)
    BY DEF IInv, TypeOK
  <2>1. ASSUME NEW c \in Configs, Open(c)
        PROVE  [Promise!Next]_(Promise!vars)
    BY <2>1, OpenBinds DEF taken, settled, Promise!Next, Promise!Bind
  <2>2. ASSUME NEW mid \in MessageIds, MarkDelivered(mid)
        PROVE  [Promise!Next]_(Promise!vars)
    <3>1. Promise!Confirm
      BY <2>0, <2>2, MarkConfirms DEF taken, settled, Promise!Confirm
    <3> QED
      BY <3>1 DEF Promise!Next
  <2>3. ASSUME Skip \/ Receive
        PROVE  [Promise!Next]_(Promise!vars)
    <3>1. Promise!Receive
      BY <2>0, <2>3, EntryReceives DEF taken, settled, Promise!Receive
    <3> QED
      BY <3>1 DEF Promise!Next
  <2>4. ASSUME UNCHANGED <<bound, rows, cursor>>
        PROVE  [Promise!Next]_(Promise!vars)
    BY <2>4
  <2> QED
    BY <2>1, <2>2, <2>3, <2>4 DEF Next, Step, HostCall, vars, store, Publish, PeerAppend, CheckCursor, Read, Recheck,
       Reject, Collect, Wake, Poll, Wait, Begin, Trim, Raise, Close, Tick
<1> QED
  BY <1>1, <1>2, Invariant, PTL DEF Spec, KeepsPromise, Promise!Spec

-----------------------------------------------------------------------------
(* The way to the end.                                                     *)

\* At most so many statements of a call are left, if it does not sleep again: the
\* three around the read, and one for each entry read.
Left ==
    CASE phase = "sleeping" -> limit + 5
      [] phase = "check" -> limit + 4
      [] phase = "read" -> limit + 3
      [] phase = "recheck" -> Len(entries) + 2
      [] phase = "ingest" -> Len(entries) + 1
      [] OTHER -> 0

\* wait() goes to sleep with time left.
SleepsOn == Collect /\ now < deadline

\* Every statement of poll() and wait() brings the call closer to its end, or sends
\* it to sleep before its deadline; neither peers nor retention throw it back.
Approaches ==
    /\ Left \in 0..(limit + 5)
    /\ Step => Left' < Left \/ SleepsOn
    /\ Left' > Left => SleepsOn \/ \E n \in Batches: Poll(n) \/ \E t \in Timeouts: Wait(n, t)

\* A scan holds no more entries than it asked for.
Short == phase \in {"recheck", "ingest"} => Len(entries) <= limit

\* read_since answers with at most n entries.
LEMMA SliceLength ==
    ASSUME StreamTypes, NEW since \in Nat, NEW n \in Nat \ {0}
    PROVE  Len(Slice(since, n)) <= n
<1> DEFINE from == IF since < first THEN first ELSE since + 1
           k == Lesser(Len(log) - from + 1, n)
           m == IF k < 0 THEN 0 ELSE k
<1>1. Len(log) \in Nat /\ first \in Nat /\ from \in Nat
  BY DEF StreamTypes
<1> HIDE DEF from
<1>2. k \in Int /\ k <= n
  BY <1>1 DEF Lesser
<1>3. Slice(since, n) = [i \in 1..k |-> from + i - 1]
  BY DEF Slice, from
<1> HIDE DEF k
<1>4. m \in Nat /\ 1..k = 1..m /\ m <= n
  BY <1>2
<1> HIDE DEF m
<1>5. Slice(since, n) = [i \in 1..m |-> from + i - 1]
  BY <1>3, <1>4
<1>6. \A i \in 1..m: from + i - 1 \in Int
  BY <1>1, <1>4
<1>7. Len(Slice(since, n)) = m
  BY <1>4, <1>5, <1>6
<1> QED
  BY <1>4, <1>7

\* What the statements make of the entries read.
LEMMA ShortStep ==
    ASSUME TypeOK, Short, [Next]_vars
    PROVE  Short'
<1>0. StreamTypes /\ ScanTypes /\ limit \in Nat \ {0} /\ Len(entries) \in Nat /\ entries \in Seq(1 .. Len(log))
  BY TypeParts DEF ScanTypes
<1>1. ASSUME NEW since \in 0..scan, Read(since)
      PROVE  Short'
  <2>1. since \in Nat
    BY DEF TypeOK
  <2> QED
    BY <1>0, <1>1, <2>1, SliceLength DEF Read, Short
<1>2. CASE Skip \/ Receive
  <2>1. entries # <<>> /\ entries' = Tail(entries) /\ phase' = phase /\ limit' = limit /\ phase = "ingest"
    BY <1>2 DEF Skip, Receive, Commit
  <2>2. Len(entries') = Len(entries) - 1
    BY <1>0, <2>1
  <2> QED
    BY <1>0, <2>1, <2>2 DEF Short
<1>3. CASE Recheck \/ CheckCursor \/ Reject \/ Collect \/ Wake
  BY <1>3 DEF Recheck, CheckCursor, Reject, Collect, Wake, GoOn, Return, locals, Short
<1>4. CASE HostCall
  BY <1>4 DEF HostCall, Open, Poll, Wait, Begin, Publish, MarkDelivered, Return, locals, Short
<1>5. CASE (\E e \in Appendable: PeerAppend(e)) \/ Trim \/ Raise \/ Close \/ Tick \/ UNCHANGED vars
  BY <1>5 DEF PeerAppend, Trim, Raise, Close, Tick, Return, locals, vars, Short
<1> QED
  BY <1>1, <1>2, <1>3, <1>4, <1>5 DEF Next, Step

LEMMA LeftType == TypeOK /\ Short => Left \in 0..(limit + 5)
<1> SUFFICES ASSUME TypeOK, Short PROVE Left \in 0..(limit + 5)
  OBVIOUS
<1>1. limit \in Nat /\ Len(entries) \in Nat
  BY DEF TypeOK
<1> QED
  BY <1>1 DEF Left, Short

\* Each statement of a call, and what it leaves to do.
LEMMA StepApproaches ==
    ASSUME TypeOK, Short, Short', TypeOK', Step, ~SleepsOn
    PROVE  Left' < Left
<1>0. /\ limit \in Nat \ {0} /\ Len(entries) \in Nat /\ entries \in Seq(1 .. Len(log))
      /\ now \in Nat /\ deadline \in Int
  BY DEF TypeOK
<1>a. limit' \in Nat /\ Len(entries') \in Nat
  <2>1. entries' \in Seq(1 .. Len(log')) /\ limit' \in Nat \ {0}
    BY DEF TypeOK
  <2> QED
    BY <2>1
<1>1. CASE CheckCursor
  BY <1>0, <1>a, <1>1 DEF CheckCursor, GoOn, Return, Left
<1>2. ASSUME NEW since \in 0..scan, Read(since)
      PROVE  Left' < Left
  <2>1. phase = "read" /\ phase' = "recheck" /\ limit' = limit
    BY <1>2 DEF Read
  <2>2. Len(entries') <= limit
    BY <2>1 DEF Short
  <2> QED
    BY <1>0, <1>a, <2>1, <2>2 DEF Left
<1>3. CASE Recheck
  BY <1>0, <1>a, <1>3 DEF Recheck, GoOn, Return, locals, Left
<1>4. CASE Skip \/ Receive
  <2>1. entries # <<>> /\ entries' = Tail(entries) /\ phase' = phase /\ phase = "ingest"
    BY <1>4 DEF Skip, Receive, Commit
  <2>2. Len(entries') = Len(entries) - 1
    BY <1>0, <1>a, <2>1
  <2> QED
    BY <1>0, <1>a, <2>1, <2>2 DEF Left
<1>5. CASE Reject
  BY <1>0, <1>a, <1>5 DEF Reject, Return, Left
<1>6. CASE Collect
  <2>1. phase = "ingest" /\ (phase' = "open" \/ now < deadline)
    BY <1>0, <1>a, <1>6 DEF Collect, Return
  <2> QED
    BY <1>0, <1>a, <1>6, <2>1 DEF SleepsOn, Left
<1>7. CASE Wake
  BY <1>0, <1>a, <1>7 DEF Wake, Left
<1> QED
  BY <1>1, <1>2, <1>3, <1>4, <1>5, <1>6, <1>7 DEF Step

\* A call ends once its deadline has come: it takes at most five statements and one
\* for each entry it asked for, whatever peers append and retention removes.
THEOREM CallsAdvance == Spec => [][Approaches]_vars
<1>1. Init => Short
  BY DEF Init, Short
<1>2. IInv /\ Short /\ [Next]_vars => Short'
  BY ShortStep DEF IInv
<1>3. IInv /\ IInv' /\ Short /\ Short' /\ [Next]_vars => [Approaches]_vars
  <2> SUFFICES ASSUME IInv, IInv', Short, Short', [Next]_vars PROVE [Approaches]_vars
    OBVIOUS
  <2>0. TypeOK /\ TypeOK' /\ limit \in Nat
    BY DEF IInv, TypeOK
  <2>1. Left \in 0..(limit + 5)
    BY <2>0, LeftType
  <2>2. Left' \in Nat
    <3>1. entries' \in Seq(1 .. Len(log')) /\ limit' \in Nat \ {0}
      BY <2>0 DEF TypeOK
    <3>2. Len(entries') \in Nat /\ limit' \in Nat
      BY <3>1
    <3> QED
      BY <3>2 DEF Left
  <2>3. CASE Step
    <3>1. Left' < Left \/ SleepsOn
      BY <2>0, <2>3, StepApproaches
    <3> HIDE DEF Left
    <3> QED
      BY <2>0, <2>1, <2>2, <3>1 DEF Approaches
  <2>4. CASE HostCall /\ ~Step
    <3>1. Left' = Left \/ \E n \in Batches: Poll(n) \/ \E t \in Timeouts: Wait(n, t)
      <4>1. CASE (\E c \in Configs: Open(c)) \/ (\E e \in Appendable: Publish(e)) \/ (\E mid \in MessageIds: MarkDelivered(mid))
        BY <4>1 DEF Open, Publish, MarkDelivered, Return, Left
      <4> QED
        BY <2>4, <4>1 DEF HostCall
    <3> HIDE DEF Left
    <3> QED
      BY <2>0, <2>1, <2>2, <2>4, <3>1 DEF Approaches
  <2>5. CASE (Raise \/ Close) /\ ~Step
    <3>1. Left' = 0
      BY <2>5 DEF Raise, Close, Return, Left
    <3> HIDE DEF Left
    <3> QED
      BY <2>0, <2>1, <2>2, <2>5, <3>1 DEF Approaches
  <2>6. CASE ((\E e \in Appendable: PeerAppend(e)) \/ Trim \/ Tick \/ UNCHANGED vars) /\ ~Step
    <3>1. Left' = Left
      BY <2>6 DEF PeerAppend, Trim, Tick, vars, locals, Left
    <3> HIDE DEF Left
    <3> QED
      BY <2>0, <2>1, <2>2, <2>6, <3>1 DEF Approaches
  <2> QED
    BY <2>3, <2>4, <2>5, <2>6 DEF Next
<1> QED
  BY <1>1, <1>2, <1>3, Invariant, PTL DEF Spec
=============================================================================
