---------------------------- MODULE MCWakeBridge ----------------------------
(* WakeBridge with one approved message a, and b, which no plan approves.
   A limit of 0 stands for one below a unit of the clock. *)
EXTENDS WakeBridge

CONSTANTS me, peer, i1, a, b, x, y, h1

MCConfigs == {[identity |-> i1, agent |-> me, senders |-> {peer}, recipients |-> {},
               max_age |-> 2]}
Message(mid, body) ==
    [from |-> peer, to |-> me, identity |-> i1, mid |-> mid, body |-> body,
     stamp |-> 0, sound |-> TRUE]
Elsewhere == [Message(b, x) EXCEPT !.to = peer]

MCAppendable == {Message(a, x), Message(a, y), Message(b, x), Elsewhere}
MCPlans == {[hash |-> h1, trigger |-> Trigger(Message(a, x)), expiry |-> 2, limit |-> 0,
             max_age |-> 1]}
=============================================================================
