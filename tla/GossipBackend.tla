--------------------------- MODULE GossipBackend ---------------------------
(***************************************************************************)
(* The consensus message-distribution layer of a validator node: the       *)
(* emission gate (checkAndSendMsg), the retrying cancellable Gossip tasks, *)
(* the one-shot Multicast, and HandleNewChainHead, which cancels the tasks *)
(* of superseded heights.  The network is the test double of               *)
(* backend_test.go (mockBroadcaster), whose two switches isDisconnect and  *)
(* isSendFailed are flipped by the environment at any moment.              *)
(*                                                                         *)
(* The task registry and every change to it are guarded by one mutex in    *)
(* the backend, so each registry change is one atomic step here.  The      *)
(* calls a task makes outside the mutex (FindPeers, Send, the retry timer) *)
(* are steps of their own, and anything may happen between them.           *)
(***************************************************************************)
EXTENDS Integers, FiniteSets

CONSTANTS
    Addrs,          \* validator addresses a message may be sent to
    Heights,        \* block heights a message may belong to
    Tasks,          \* identities of the Gossip tasks (one per Gossip call)
    NoTask,         \* registry value of a height without a live task
    FaultyMode,     \* config.FaultyMode: "none" or "RandomlyStopSendingMsg"
    MaxMsgs         \* bound: calls of checkAndSendMsg in one behaviour

ASSUME /\ Heights \subseteq Nat
       /\ Addrs # {}
       /\ NoTask \notin Tasks
       /\ FaultyMode \in {"none", "RandomlyStopSendingMsg"}
       /\ MaxMsgs \in Nat

VARIABLES
    budget,         \* calls of checkAndSendMsg still to come (bounds the model)
    posted,         \* MessageEvents posted to the event mux, not yet consumed
    registry,       \* height -> the task whose cancel signal is registered
    task,           \* task -> [height, pc, peers]
    cancelled,      \* tasks whose cancel signal has fired (terminal)
    isDisconnect,   \* mockBroadcaster.isDisconnect
    isSendFailed,   \* mockBroadcaster.isSendFailed
    received,       \* task -> payloads that reached the handling peer (dataCh)
    lastMulticast   \* the last Multicast: [targets, failed, missing]

vars == <<budget, posted, registry, task, cancelled, isDisconnect,
          isSendFailed, received, lastMulticast>>

network == <<isDisconnect, isSendFailed>>
gossip  == <<registry, task, cancelled, received>>

-----------------------------------------------------------------------------
(* Types and null values *)

PeerKind == {"handle", "plain", "failing"}

\* What FindPeers returns: a peer for some of the addresses asked for.
PeerMap == UNION {[S -> PeerKind] : S \in SUBSET Addrs}

NoPeers == [a \in {} |-> "plain"]

Live == {"resolve", "send", "wait"}

TaskState == [height : Heights, pc : Live \cup {"unused", "done", "cancelled"},
              peers : PeerMap]

Unused == [height |-> CHOOSE h \in Heights : TRUE, pc |-> "unused", peers |-> NoPeers]

Targets == SUBSET Addrs \ {{}}

-----------------------------------------------------------------------------
(* The broadcaster of backend_test.go *)

\* HandlingPeers as a plausible fault would leave it.
AllHandlingPeers(targets) ==
    {[a \in targets |-> "handle"]}

\* mockBroadcaster.FindPeers: nothing when disconnected; a failing peer for
\* every target when isSendFailed; otherwise exactly one peer that hands the
\* payload to the test (the first the map iteration meets) and plain peers.
HandlingPeers(targets) ==
    {[a \in targets |-> IF a = first THEN "handle" ELSE "plain"] : first \in targets}

\* FindPeers as the broadcaster of tests_utils/mock_protocol_manager.go has
\* it: nobody is ever found.
FindNoPeers(targets) == {NoPeers}

\* FindPeers with the targets ignored: a peer for every known address.
FindPeersOfAll(targets) ==
    IF isDisconnect THEN {NoPeers} ELSE {[a \in Addrs |-> "failing"]}

FindPeers(targets) ==
    IF isDisconnect THEN {NoPeers}
    ELSE IF isSendFailed THEN {[a \in targets |-> "failing"]}
    ELSE HandlingPeers(targets)

\* The test flips the switches while tasks run.
SetDisconnect ==
    /\ isDisconnect' = ~isDisconnect
    /\ UNCHANGED <<budget, posted, gossip, isSendFailed, lastMulticast>>

SetSendFailed ==
    /\ isSendFailed' = ~isSendFailed
    /\ UNCHANGED <<budget, posted, gossip, isDisconnect, lastMulticast>>

-----------------------------------------------------------------------------
(* The emission gate *)

\* checkAndSendMsg: in RandomlyStopSendingMsg mode a coin decides whether the
\* message is posted at all; a message not posted is no error.
DecidedSendMsg == {TRUE} \cup (IF FaultyMode = "RandomlyStopSendingMsg" THEN {FALSE} ELSE {})

\* EventMux().Post: the event is queued, or the mux has been stopped and
\* Post returns its error with nothing queued.
PostResults == {"nil", "ErrMuxClosed"}

\* The error of Post is the error of checkAndSendMsg; a message the coin
\* held back is answered with nil.
CheckAndSendMsg ==
    /\ budget > 0
    /\ budget' = budget - 1
    /\ \E send \in DecidedSendMsg, err \in PostResults :
           posted' = IF send /\ err = "nil" THEN posted + 1 ELSE posted
    /\ UNCHANGED <<gossip, network, lastMulticast>>

-----------------------------------------------------------------------------
(* Gossip: the call, and the background task it launches *)

\* Superseded as a plausible fault would leave it.
NoneSuperseded(h) == {}

\* The task a new Gossip for height h displaces: its signal fires, so that
\* no height ever has two tasks only one of which can be cancelled.
Superseded(h) == IF registry[h] = NoTask THEN {} ELSE {registry[h]}

\* Gossip(valSet, height, ...): registers a task for the height and returns.
Gossip(t, h) ==
    /\ posted > 0
    /\ task[t].pc = "unused"
    /\ posted' = posted - 1
    /\ cancelled' = cancelled \cup Superseded(h)
    /\ registry' = [registry EXCEPT ![h] = t]
    /\ task' = [task EXCEPT ![t] = [height |-> h, pc |-> "resolve", peers |-> NoPeers]]
    /\ UNCHANGED <<budget, network, received, lastMulticast>>

\* The check of the cancel signal at the top of every iteration.
MayAttempt(t) == t \notin cancelled

\* Steps 1 and 2 of an iteration: resolve the peers; none means wait.
TaskResolve(t) ==
    /\ task[t].pc = "resolve"
    /\ MayAttempt(t)
    /\ \E peers \in FindPeers(Addrs) :
          task' = [task EXCEPT ![t].peers = peers,
                               ![t].pc = IF peers = NoPeers THEN "wait" ELSE "send"]
    /\ UNCHANGED <<budget, posted, registry, cancelled, network, received, lastMulticast>>

\* Deregistered as a plausible fault would leave it.
NotDeregistered(t) == registry

\* The registry after task t has delivered: its own entry is removed.
Deregistered(t) ==
    [h \in Heights |-> IF registry[h] = t THEN NoTask ELSE registry[h]]

\* Steps 3 and 4: send through the peers resolved earlier.  One send that
\* succeeds ends the task; if every send fails the task waits and retries.
SendSucceeds(peers) == \E a \in DOMAIN peers : peers[a] # "failing"

Delivered(peers) == Cardinality({a \in DOMAIN peers : peers[a] = "handle"})

\* AfterSend as a plausible fault would leave it.
AfterSendRetry(t) == "wait"

AfterSend(t) == IF SendSucceeds(task[t].peers) THEN "done" ELSE "wait"

TaskSend(t) ==
    /\ task[t].pc = "send"
    /\ received' = [received EXCEPT ![t] = @ + Delivered(task[t].peers)]
    /\ task' = [task EXCEPT ![t].pc = AfterSend(t), ![t].peers = NoPeers]
    /\ registry' = IF SendSucceeds(task[t].peers) THEN Deregistered(t) ELSE registry
    /\ UNCHANGED <<budget, posted, cancelled, network, lastMulticast>>

\* The retry timer fires.
TaskWake(t) ==
    /\ task[t].pc = "wait"
    /\ task' = [task EXCEPT ![t].pc = "resolve"]
    /\ UNCHANGED <<budget, posted, registry, cancelled, network, received, lastMulticast>>

\* The task sees its cancel signal, waiting or at the top of an iteration.
TaskObserveCancel(t) ==
    /\ task[t].pc \in {"resolve", "wait"}
    /\ t \in cancelled
    /\ task' = [task EXCEPT ![t].pc = "cancelled"]
    /\ UNCHANGED <<budget, posted, registry, cancelled, network, received, lastMulticast>>

-----------------------------------------------------------------------------
(* HandleNewChainHead *)

\* Stale as a plausible fault would leave it.
StaleBelow(n) == {h \in Heights : h < n}

\* The heights a new head n supersedes.
Stale(n) == {h \in Heights : h <= n}

\* Cancels and removes every registered task of a superseded height.
HandleNewChainHead(n) ==
    /\ cancelled' = cancelled \cup ({registry[h] : h \in Stale(n)} \ {NoTask})
    /\ registry' = [h \in Heights |-> IF h \in Stale(n) THEN NoTask ELSE registry[h]]
    /\ UNCHANGED <<budget, posted, task, network, received, lastMulticast>>

-----------------------------------------------------------------------------
(* Multicast *)

\* One attempt: resolve once, send to every peer found, count what failed
\* and what was not found.
Multicast(targets) ==
    /\ posted > 0
    /\ posted' = posted - 1
    /\ \E peers \in FindPeers(targets) :
          lastMulticast' =
              [targets |-> targets,
               failed  |-> Cardinality({a \in DOMAIN peers : peers[a] = "failing"}),
               missing |-> Cardinality(targets) - Cardinality(DOMAIN peers)]
    /\ UNCHANGED <<budget, gossip, network>>

-----------------------------------------------------------------------------
(* Specification *)

\* The state of TestBackend_Gossip after SetBroadcaster: connected, no task.
Init ==
    /\ budget = MaxMsgs
    /\ posted = 0
    /\ registry = [h \in Heights |-> NoTask]
    /\ task = [t \in Tasks |-> Unused]
    /\ cancelled = {}
    /\ isDisconnect = FALSE
    /\ isSendFailed = FALSE
    /\ received = [t \in Tasks |-> 0]
    /\ lastMulticast = [targets |-> {}, failed |-> 0, missing |-> 0]

TaskStep(t) ==
    \/ TaskResolve(t)
    \/ TaskSend(t)
    \/ TaskWake(t)
    \/ TaskObserveCancel(t)

Next ==
    \/ CheckAndSendMsg
    \/ \E t \in Tasks, h \in Heights : Gossip(t, h)
    \/ \E t \in Tasks : TaskStep(t)
    \/ \E n \in Heights : HandleNewChainHead(n)
    \/ \E targets \in Targets : Multicast(targets)
    \/ SetDisconnect
    \/ SetSendFailed

Spec == Init /\ [][Next]_vars

\* Every task is a goroutine of its own and the retry timer always fires:
\* a task that can take a step eventually takes it.  Nothing is assumed of
\* the callers or of the network.
FairSpec == Spec /\ \A t \in Tasks : WF_vars(TaskStep(t))

-----------------------------------------------------------------------------
(* Properties *)

TypeOK ==
    /\ budget \in 0..MaxMsgs
    /\ posted \in 0..MaxMsgs
    /\ registry \in [Heights -> Tasks \cup {NoTask}]
    /\ task \in [Tasks -> TaskState]
    /\ cancelled \subseteq Tasks
    /\ isDisconnect \in BOOLEAN
    /\ isSendFailed \in BOOLEAN
    /\ received \in [Tasks -> Nat]
    /\ lastMulticast \in [targets : SUBSET Addrs,
                        failed  : 0..Cardinality(Addrs),
                        missing : 0..Cardinality(Addrs)]

\* The registry is the single source of truth for the signals that are live:
\* a running task that has not been cancelled is the registered task of its
\* height, so HandleNewChainHead can reach it.  Two Gossip calls for one
\* height, or a finishing task that removes its successor's entry, would
\* leave a task retrying for ever with nobody able to stop it.
LiveTasksAreRegistered ==
    \A t \in Tasks :
        task[t].pc \in Live /\ t \notin cancelled => registry[task[t].height] = t

\* HandleNewChainHead(n) leaves no task of a height <= n uncancelled,
\* however the Gossip calls, deliveries and earlier heads were interleaved.
NewHeadCancelsStale ==
    [][\A n \in Heights :
          HandleNewChainHead(n) =>
              \A t \in Tasks :
                  task'[t].pc \in Live /\ task'[t].height <= n => t \in cancelled']_vars

\* No retry after the first success: the peer under test sees the payload
\* of one Gossip call at most once (TestBackend_Gossip reads dataCh once).
AtMostOneDelivery ==
    \A t \in Tasks : received[t] <= 1

\* The registry holds nothing but live signals: a registered task is still
\* retrying, for that height, and has not been cancelled.  A task that
\* delivered or was cancelled and stayed registered would make the map grow
\* with every height and hand HandleNewChainHead signals that are spent.
RegistryHoldsOnlyLive ==
    \A h \in Heights :
        registry[h] # NoTask =>
            /\ task[registry[h]].pc \in Live
            /\ task[registry[h]].height = h
            /\ registry[h] \notin cancelled

\* What has become of a task, as the consensus core sees it.
Fate(t) ==
    CASE task[t].pc = "unused" -> "unused"
      [] task[t].pc = "done"   -> "delivered"
      [] task[t].pc \notin {"unused", "done"} /\ t \in cancelled -> "withdrawn"
      [] OTHER -> "outstanding"

Promise == INSTANCE GossipPromise
               WITH slot   <- registry,
                    fate   <- [t \in Tasks |-> Fate(t)],
                    onWire <- {t \in Tasks : task[t].pc = "send"},
                    copies <- received

\* The backend implements GossipPromise: with the registry as the
\* outstanding broadcasts, a task that has passed FindPeers as a send on the
\* wire and a fired cancel signal as a withdrawal, every step of Gossip, of
\* a task and of HandleNewChainHead is a step the promise allows or changes
\* nothing the promise speaks of.  In particular a cancelled task never
\* starts another send, a task that delivers is over and out of the
\* registry in the same step, and the registry changes in no other step.
ImplementsPromise == Promise!Spec

\* Gossip retries until success or cancellation: once the network stays
\* reachable, every task that was launched ends, delivered or cancelled.
Reachable == ~isDisconnect /\ ~isSendFailed

EveryTaskEnds ==
    \A t \in Tasks :
        <>[]Reachable => (task[t].pc \in Live ~> task[t].pc \in {"done", "cancelled"})

=============================================================================
