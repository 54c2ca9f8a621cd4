--------------------------- MODULE GossipPromise ---------------------------
(***************************************************************************)
(* What Gossip and HandleNewChainHead promise to the consensus core, with  *)
(* the network, the retry loop and the cancel signals left out.            *)
(*                                                                         *)
(* A broadcast is accepted for a height and is then outstanding.  It is    *)
(* withdrawn when a newer broadcast of its height is accepted or when the  *)
(* chain head reaches its height.  Only an outstanding broadcast is put on *)
(* the wire; what is on the wire either reaches the peers, once, and the   *)
(* broadcast is over, or fails and leaves the broadcast as it was.  A      *)
(* broadcast withdrawn while on the wire may still arrive; one withdrawn   *)
(* off the wire never does.                                                *)
(***************************************************************************)
EXTENDS Naturals

CONSTANTS
    Heights,        \* block heights
    Tasks,          \* the broadcasts
    NoTask          \* no broadcast is outstanding for the height

VARIABLES
    slot,           \* height -> the broadcast outstanding for it, or NoTask
    fate,           \* broadcast -> unused, outstanding, withdrawn or delivered
    onWire,         \* broadcasts with a send in flight
    copies          \* broadcast -> how often it reached the peer

vars == <<slot, fate, onWire, copies>>

\* The broadcasts outstanding for the heights hs.
Holders(hs) == {slot[h] : h \in hs} \ {NoTask}

\* A broadcast is accepted for height h and displaces the one before it.
Accept(t, h) ==
    /\ fate[t] = "unused"
    /\ fate' = [u \in Tasks |-> IF u = t THEN "outstanding"
                                ELSE IF u = slot[h] THEN "withdrawn" ELSE fate[u]]
    /\ slot' = [slot EXCEPT ![h] = t]
    /\ UNCHANGED <<onWire, copies>>

\* The chain head is at height n: the broadcasts of the heights it has
\* reached are withdrawn.
NewHead(n) ==
    LET reached == {h \in Heights : h <= n} IN
        /\ fate' = [t \in Tasks |->
                        IF t \in Holders(reached) THEN "withdrawn" ELSE fate[t]]
        /\ slot' = [h \in Heights |-> IF h \in reached THEN NoTask ELSE slot[h]]
        /\ UNCHANGED <<onWire, copies>>

\* An outstanding broadcast goes on the wire.
Commit(t) ==
    /\ fate[t] = "outstanding" /\ t \notin onWire
    /\ onWire' = onWire \cup {t}
    /\ UNCHANGED <<slot, fate, copies>>

\* What is on the wire arrives: the broadcast is over and gives up its
\* height, if it still holds it.
Deliver(t) ==
    /\ t \in onWire
    /\ onWire' = onWire \ {t}
    /\ copies' = [copies EXCEPT ![t] = @ + 1]
    /\ fate' = [fate EXCEPT ![t] = "delivered"]
    /\ slot' = [h \in Heights |-> IF slot[h] = t THEN NoTask ELSE slot[h]]

\* What is on the wire is lost.
Fail(t) ==
    /\ t \in onWire
    /\ onWire' = onWire \ {t}
    /\ UNCHANGED <<slot, fate, copies>>

Init ==
    /\ slot = [h \in Heights |-> NoTask]
    /\ fate = [t \in Tasks |-> "unused"]
    /\ onWire = {}
    /\ copies = [t \in Tasks |-> 0]

Next ==
    \/ \E t \in Tasks, h \in Heights : Accept(t, h)
    \/ \E n \in Heights : NewHead(n)
    \/ \E t \in Tasks : Commit(t) \/ Deliver(t) \/ Fail(t)

Spec == Init /\ [][Next]_vars

=============================================================================
