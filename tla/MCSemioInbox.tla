---------------------------- MODULE MCSemioInbox ----------------------------
(* SemioInbox on streams of a few entries: two messages for the inbox, one of
   them with a conflicting second version, traffic for another agent, and an entry
   of another mission.  A message is stale one second after it was written, so only
   the later one is certain to arrive.  A max_age of 0 stands for an age below one
   unit of the clock: ages are seconds and may be fractions. *)
EXTENDS SemioInbox

CONSTANTS me, peer, i1, i2, a, b, x, y

Config(identity) ==
    [identity |-> identity, agent |-> me, senders |-> {peer}, recipients |-> {peer}, max_age |-> 0]
MCConfigs == {Config(i1), Config(i2)}

Message(mid, body) ==
    [from |-> peer, to |-> me, identity |-> i1, mid |-> mid, body |-> body,
     stamp |-> 0, sound |-> TRUE]
Outgoing == [Message(b, x) EXCEPT !.from = me, !.to = peer]
Later == [Message(b, x) EXCEPT !.stamp = 1]
Foreign == [Message(b, x) EXCEPT !.identity = i2]

MCAppendable == {Message(a, x), Message(a, y), Later, Outgoing, Foreign}
=============================================================================
