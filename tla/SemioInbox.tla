----------------------------- MODULE SemioInbox -----------------------------
(***************************************************************************)
(* examples/semio-coordination/semio_adapter.py: a durable inbox fed by    *)
(* polling an external stream that keeps growing and is trimmed from its   *)
(* old end.  One consumer process per database, as the adapter requires.   *)
(*                                                                         *)
(* Durable: tables metadata (config, cursor) and inbox (rows).  Volatile:  *)
(* the SemioAdapter object and its poll() or wait() call.  Every transport *)
(* call, and every transaction that ingests one entry, is a step; appends, *)
(* trimming, time and crashes come between them.                           *)
(*                                                                         *)
(* Stream entries are numbered 1, 2, ...; 0 stands for the cursor '0-0'.   *)
(***************************************************************************)
EXTENDS Integers, Sequences, FiniteSets

CONSTANTS
    Agents,       \* names of senders and recipients
    Identities,   \* mission, revision, task, contract and artifact bindings
    MessageIds,
    Bodies,       \* the rest of an envelope: summary, kind, references
    Configs,      \* the bindings a host may construct the adapter with
    NoConfig,     \* a metadata table without its config
    Appendable,   \* the entries that can appear on the stream
    Batches,      \* the batch_size arguments
    Timeouts,     \* the timeout arguments of wait()
    MaxSkew,      \* seconds a timestamp may lie in the future (300)
    MaxEntries,   \* bound: entries ever appended
    MaxTime       \* bound: the clock stops here

\* An entry as the transport returns it.  from and to are its outer fields; sound
\* says that the payload parses, has every KLP field within its limits, and
\* repeats the outer fields.
EntryType == [from: Agents, to: Agents, identity: Identities, mid: MessageIds,
              body: Bodies, stamp: Nat, sound: BOOLEAN]
ConfigType == [identity: Identities, agent: Agents, senders: SUBSET Agents,
               recipients: SUBSET Agents, max_age: Nat]

ASSUME ConfigsAssumption == Configs \subseteq ConfigType /\ NoConfig \notin Configs
ASSUME EntriesAssumption == Appendable \subseteq EntryType
ASSUME BoundsAssumption ==
    /\ Batches \subseteq Nat \ {0} /\ Timeouts \subseteq Nat
    /\ MaxSkew \in Nat /\ MaxEntries \in Nat /\ MaxTime \in Nat

VARIABLES
    log,       \* every entry ever appended to the stream
    first,     \* the earliest entry still retained
    bound,     \* metadata.config
    cursor,    \* metadata.cursor
    rows,      \* the inbox table, in rowid order
    origin,    \* history: the first entry ever scanned into this database, or 0
    config,    \* the config of the open adapter object
    phase,     \* the statement of poll() or wait() to be executed next
    scan,      \* poll()'s local cursor
    entries,   \* poll()'s entries not yet ingested (their numbers)
    limit,     \* batch_size of the call
    deadline,  \* of wait(), or -1 in a plain poll()
    pending,   \* what the latest call returned
    outcome,   \* how the latest call ended
    now

stream == <<log, first>>
store == <<bound, cursor, rows, origin>>
locals == <<scan, entries, deadline>>
vars == <<log, first, bound, cursor, rows, origin, config, phase, scan, entries, limit,
          deadline, pending, outcome, now>>

Polling == {"check", "read", "recheck", "ingest", "sleeping"}
Outcomes == {"none", "returned", "trimmed", "invalid", "conflict", "error"}
RowType == [envelope: EntryType, id: Nat, delivered: BOOLEAN]

Init ==
    /\ log = <<>> /\ first = 1
    /\ bound = NoConfig /\ cursor = 0 /\ rows = <<>> /\ origin = 0
    /\ config = NoConfig /\ phase = "closed"
    /\ scan = 0 /\ entries = <<>> /\ limit = 1 /\ deadline = -1
    /\ pending = <<>> /\ outcome = "none" /\ now = 0

\* The locals of a call are gone when it ends.
Forget == scan' = 0 /\ entries' = <<>> /\ deadline' = -1

Return(result) == phase' = "open" /\ outcome' = result /\ Forget
GoOn(next) == phase' = next /\ UNCHANGED <<outcome, locals>>

-----------------------------------------------------------------------------
(* Construction and the calls of the host.                                 *)

\* Slip: the metadata row is inserted but never compared.
OpenUnbound(c) ==
    /\ phase = "closed"
    /\ bound' = IF bound = NoConfig THEN c ELSE bound
    /\ config' = c
    /\ Return("none")
    /\ UNCHANGED <<stream, cursor, rows, origin, limit, pending, now>>

\* __init__: config and cursor are inserted if absent and compared in the same
\* transaction; a different binding raises and leaves no object.
Open(c) ==
    /\ phase = "closed"
    /\ bound \in {NoConfig, c}
    /\ bound' = c
    /\ config' = c
    /\ Return("none")
    /\ UNCHANGED <<stream, cursor, rows, origin, limit, pending, now>>

\* poll(batch_size=n) and wait(timeout=t, batch_size=n) begin with a scan.
Begin(n, until) ==
    /\ phase = "open"
    /\ phase' = "check"
    /\ scan' = cursor
    /\ limit' = n
    /\ deadline' = until
    /\ pending' = <<>> /\ outcome' = "none"
    /\ UNCHANGED <<stream, store, config, entries, now>>

Poll(n) == Begin(n, -1)
Wait(n, t) == now + t <= MaxTime /\ Begin(n, now + t)   \* bound: ends in modelled time

Fresh(c, e) == now - e.stamp <= c.max_age /\ e.stamp - now <= MaxSkew

\* _validate: every bound field exactly, every field well formed, and fresh.
Valid(c, e) == e.sound /\ e.identity = c.identity /\ Fresh(c, e)

\* publish(envelope): what is validated goes out as this agent's entry, and may be
\* sent again; the adapter keeps no record of it.
Publish(e) ==
    /\ phase = "open" /\ Len(log) < MaxEntries
    /\ Valid(config, e) /\ e.from = config.agent /\ e.to \in config.recipients
    /\ log' = Append(log, e)
    /\ UNCHANGED <<first, store, config, phase, locals, limit, pending, outcome, now>>

RowsOf(mid) == {k \in DOMAIN rows: rows[k].envelope.mid = mid}

\* mark_delivered(mid); an unknown identifier raises KeyError and changes nothing.
MarkDelivered(mid) ==
    /\ phase = "open" /\ RowsOf(mid) # {}
    /\ rows' = [k \in DOMAIN rows |->
                  [rows[k] EXCEPT !.delivered = @ \/ rows[k].envelope.mid = mid]]
    /\ UNCHANGED <<stream, bound, cursor, origin, config, phase, locals, limit, pending, outcome, now>>

-----------------------------------------------------------------------------
(* poll().                                                                 *)

Retained(id) == id = 0 \/ (first <= id /\ id <= Len(log))

\* _check_cursor before the read: a trimmed cursor stops the scan.
CheckCursor ==
    /\ phase = "check"
    /\ IF Retained(scan) THEN GoOn("read") ELSE Return("trimmed")
    /\ UNCHANGED <<stream, store, config, limit, pending, now>>

Lesser(m, n) == IF m < n THEN m ELSE n

\* The first n retained entries after position since.
Slice(since, n) ==
    LET from == IF since < first THEN first ELSE since + 1
    IN [i \in 1 .. Lesser(Len(log) - from + 1, n) |-> from + i - 1]

\* transport.read_since(cursor, count): the retained entries after the cursor, or,
\* from a transport that answers an older call, those after an older position.
Read(since) ==
    /\ phase = "read" /\ since <= scan
    /\ entries' = Slice(since, limit)
    /\ phase' = "recheck"
    /\ UNCHANGED <<stream, store, config, scan, limit, deadline, pending, outcome, now>>

\* Slip: what was read is trusted without looking at the cursor again.
SkipRecheck ==
    /\ phase = "recheck"
    /\ GoOn("ingest")
    /\ UNCHANGED <<stream, store, config, limit, pending, now>>

\* _check_cursor after the read: trimming in between may have left a gap.
Recheck ==
    /\ phase = "recheck"
    /\ IF Retained(scan) THEN GoOn("ingest") ELSE Return("trimmed")
    /\ UNCHANGED <<stream, store, config, limit, pending, now>>

Addressed(c, e) == e.to = c.agent /\ e.from \in c.senders
Conflicts(e) == \E k \in RowsOf(e.mid): rows[k].envelope # e

\* The entry's receipt and the cursor commit together.
Commit(id) ==
    /\ cursor' = id
    /\ scan' = id
    /\ origin' = IF origin = 0 THEN id ELSE origin
    /\ entries' = Tail(entries)
    /\ UNCHANGED <<stream, bound, config, phase, limit, deadline, pending, outcome, now>>

\* Slip: unrelated traffic leaves the cursor where it was.
SkipInPlace ==
    /\ phase = "ingest" /\ entries # <<>> /\ Head(entries) > scan
    /\ ~ Addressed(config, log[Head(entries)])
    /\ entries' = Tail(entries)
    /\ UNCHANGED <<stream, store, config, phase, scan, limit, deadline, pending, outcome, now>>

\* An entry between other agents, or from a peer not allowed.
Skip ==
    /\ phase = "ingest" /\ entries # <<>> /\ Head(entries) > scan
    /\ ~ Addressed(config, log[Head(entries)])
    /\ Commit(Head(entries))
    /\ UNCHANGED rows

\* Slip: INSERT OR REPLACE, without the comparison with the prior envelope.
ReceiveReplacing ==
    /\ phase = "ingest" /\ entries # <<>> /\ Head(entries) > scan
    /\ LET id == Head(entries)
           row == [envelope |-> log[id], id |-> id, delivered |-> FALSE]
       IN /\ Addressed(config, log[id]) /\ Valid(config, log[id])
          /\ rows' = Append(SelectSeq(rows, LAMBDA r: r.envelope.mid # log[id].mid), row)
          /\ Commit(id)

\* INSERT OR IGNORE: a duplicate of the same envelope keeps its first row.
Receive ==
    /\ phase = "ingest" /\ entries # <<>> /\ Head(entries) > scan
    /\ LET id == Head(entries)
           e == log[id]
       IN /\ Addressed(config, e) /\ Valid(config, e) /\ ~ Conflicts(e)
          /\ rows' = IF RowsOf(e.mid) # {} THEN rows
                     ELSE Append(rows, [envelope |-> e, id |-> id, delivered |-> FALSE])
          /\ Commit(id)

\* An entry that cannot be taken in stops the scan before it, for good or until
\* someone reconciles: the cursor stays, what was committed before stays.
Reject ==
    /\ phase = "ingest" /\ entries # <<>>
    /\ LET id == Head(entries)
           e == log[id]
       IN \/ id <= scan /\ Return("invalid")
          \/ id > scan /\ Addressed(config, e) /\ ~ Valid(config, e) /\ Return("invalid")
          \/ /\ id > scan /\ Addressed(config, e) /\ Valid(config, e) /\ Conflicts(e)
             /\ Return("conflict")
    /\ UNCHANGED <<stream, store, config, limit, pending, now>>

Waiting == {k \in DOMAIN rows: ~ rows[k].delivered}
Earlier(k) == {j \in Waiting: j <= k}
\* Slip: the newest messages first.
NewestUndelivered(n) ==
    [i \in 1 .. Lesser(Cardinality(Waiting), n) |->
        rows[CHOOSE k \in Waiting: Cardinality(Waiting \ Earlier(k)) = i - 1].envelope]

\* pending(limit): committed, undelivered envelopes in receipt order.
Undelivered(n) ==
    [i \in 1 .. Lesser(Cardinality(Waiting), n) |->
        rows[CHOOSE k \in Waiting: Cardinality(Earlier(k)) = i].envelope]

\* The scan is over: poll() returns what is pending; wait() returns it too, or
\* when its deadline has come, and sleeps otherwise.
Collect ==
    /\ phase = "ingest" /\ entries = <<>>
    /\ pending' = Undelivered(limit)
    /\ IF pending' # <<>> \/ now >= deadline THEN Return("returned")
       ELSE GoOn("sleeping")
    /\ UNCHANGED <<stream, store, config, limit, now>>

\* Slip: every scan starts a new timeout.
WakeAndExtend ==
    /\ phase = "sleeping"
    /\ phase' = "check"
    /\ scan' = cursor /\ deadline' = now + 1
    /\ UNCHANGED <<stream, store, config, entries, limit, pending, outcome, now>>

\* time.sleep() returns and wait() polls again.
Wake ==
    /\ phase = "sleeping"
    /\ phase' = "check"
    /\ scan' = cursor
    /\ UNCHANGED <<stream, store, config, entries, limit, deadline, pending, outcome, now>>

-----------------------------------------------------------------------------
(* The stream, failures and time.                                          *)

\* A peer publishes, publishes again after a lost answer, or writes badly.
PeerAppend(e) ==
    /\ Len(log) < MaxEntries
    /\ log' = Append(log, e)
    /\ UNCHANGED <<first, store, config, phase, locals, limit, pending, outcome, now>>

\* Retention removes the oldest entry.
Trim ==
    /\ first <= Len(log)
    /\ first' = first + 1
    /\ UNCHANGED <<log, store, config, phase, locals, limit, pending, outcome, now>>

\* The transport raises, SQLite is locked (the entry's transaction is rolled back),
\* or the call is interrupted.
Raise ==
    /\ phase \in Polling
    /\ Return("error")
    /\ UNCHANGED <<stream, store, config, limit, pending, now>>

\* The process dies or the adapter is closed: the database survives.
Close ==
    /\ phase # "closed"
    /\ phase' = "closed" /\ config' = NoConfig
    /\ outcome' = "none" /\ pending' = <<>> /\ Forget
    /\ UNCHANGED <<stream, store, limit, now>>

Tick ==
    /\ now < MaxTime
    /\ now' = now + 1
    /\ UNCHANGED <<stream, store, config, phase, locals, limit, pending, outcome>>

\* How a poll() or wait() goes on.
Step ==
    \/ CheckCursor \/ (\E since \in 0 .. scan: Read(since)) \/ Recheck
    \/ Skip \/ Receive \/ Reject \/ Collect \/ Wake

HostCall ==
    \/ \E c \in Configs: Open(c)
    \/ \E n \in Batches: Poll(n) \/ (\E t \in Timeouts: Wait(n, t))
    \/ \E e \in Appendable: Publish(e)
    \/ \E mid \in MessageIds: MarkDelivered(mid)

Next ==
    \/ Step \/ HostCall
    \/ \E e \in Appendable: PeerAppend(e)
    \/ Trim \/ Raise \/ Close \/ Tick

Spec == Init /\ [][Next]_vars

\* Every call of poll() or wait() goes on, for the host bounds the transport calls
\* it injects, and time passes.
Fairness == WF_vars(Step) /\ WF_vars(Tick)
FairSpec == Spec /\ Fairness

\* A host that keeps polling, and reopens after a crash, while the faults and the
\* answers to older calls come to an end.
Served ==
    /\ WF_vars(\E c \in Configs: Open(c))
    /\ WF_vars(\E n \in Batches: Poll(n))
    /\ WF_vars(Step)
    /\ WF_vars(Tick)
    /\ <>[][~ Raise /\ ~ Close /\ (phase = "read" /\ phase' = "recheck" => Read(scan))]_vars

-----------------------------------------------------------------------------
(* Properties.                                                             *)

TypeOK ==
    /\ log \in Seq(EntryType) /\ first \in 1 .. Len(log) + 1
    /\ bound \in Configs \union {NoConfig} /\ config \in Configs \union {NoConfig}
    /\ cursor \in 0 .. Len(log) /\ scan \in 0 .. Len(log) /\ origin \in 0 .. Len(log)
    /\ rows \in Seq(RowType)
    /\ phase \in {"closed", "open"} \union Polling
    /\ entries \in Seq(1 .. Len(log)) /\ limit \in Nat \ {0} /\ deadline \in Int
    /\ pending \in Seq(EntryType) /\ outcome \in Outcomes /\ now \in Nat

Received(e) == \E k \in DOMAIN rows: rows[k].envelope = e

\* Between the first entry ever scanned and the cursor nothing addressed to this
\* inbox is missing: its exact envelope is stored, whatever was trimmed before or
\* during a read, rejected, answered out of order, or interrupted by a crash.
NoSilentGap ==
    \A id \in 1 .. cursor:
        origin <= id /\ Addressed(bound, log[id]) => Received(log[id])

\* The inbox holds stream entries only: each row is the entry it names, addressed
\* to the bound agent under the bound identity; rows are in stream order and no
\* message identifier has two of them.
RowsComeFromStream ==
    \A k \in DOMAIN rows: LET row == rows[k] IN
        /\ row.id \in origin .. cursor /\ log[row.id] = row.envelope
        /\ Addressed(bound, row.envelope)
        /\ row.envelope.sound /\ row.envelope.identity = bound.identity
        /\ \A j \in 1 .. k - 1: rows[j].id < row.id /\ rows[j].envelope.mid # row.envelope.mid

\* What a call hands over is stored before, and no older undelivered message is
\* overtaken or, below the batch size, held back.
HandedOverInOrder ==
    outcome = "returned" =>
        /\ \A i \in DOMAIN pending: \E k \in DOMAIN rows:
             /\ rows[k].envelope = pending[i]
             /\ \A j \in 1 .. k - 1: \/ rows[j].delivered
                                     \/ \E h \in 1 .. i - 1: pending[h] = rows[j].envelope
        /\ Len(pending) < limit =>
             \A k \in DOMAIN rows: rows[k].delivered \/ \E i \in DOMAIN pending:
                                                           pending[i] = rows[k].envelope

MidOf(e) == e.mid

\* The inbox keeps the promise of Mailbox through crashes and reopenings.
Promise == INSTANCE Mailbox
    WITH Messages <- Appendable, MessageId <- MidOf,
         NoOwner <- NoConfig, Owners <- Configs, owner <- bound,
         received <- {rows[k].envelope: k \in DOMAIN rows},
         confirmed <- {rows[k].envelope.mid: k \in {j \in DOMAIN rows: rows[j].delivered}},
         position <- cursor
KeepsPromise == Promise!Spec

\* Every poll() and wait() ends: with messages, with an error, or at the deadline.
CallsEnd == phase \in Polling ~> phase \notin Polling

\* e can never be taken in any more.
Hopeless(e) ==
    \/ ~ e.sound \/ e.identity # bound.identity
    \/ now - e.stamp > bound.max_age
    \/ Conflicts(e)

\* What stands between the cursor and entry id for ever: trimming, or an addressed
\* entry that stays in the way ("stops without skipping that entry").
Blocked(id) ==
    \/ id < origin \/ ~ Retained(cursor) \/ (cursor < id /\ id < first)
    \/ \E j \in DOMAIN log: /\ cursor < j /\ j <= id
                           /\ Addressed(bound, log[j]) /\ Hopeless(log[j])

\* Every addressed entry is received in the end, unless the reason it cannot be is
\* one the adapter reports and the stream or the database shows.
ArrivesOrBlocked ==
    \A id \in 1 .. MaxEntries:
        (bound # NoConfig /\ id <= Len(log) /\ Addressed(bound, log[id]))
            ~> (bound # NoConfig /\ id <= Len(log) /\ (Received(log[id]) \/ Blocked(id)))

\* ... as long as a host keeps polling; calls end even when nobody does.
ServedArrives == Served => ArrivesOrBlocked
=============================================================================
