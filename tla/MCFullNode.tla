----------------------------- MODULE MCFullNode -----------------------------
(* FullNode instantiated for TLC. *)
EXTENDS FullNode, TLC

CONSTANTS a1, a2

\* A proof-of-work node with no etherbase and no account.
Bare == [NoConfig EXCEPT !.SyncMode = "full"]

\* The configurations New is tried with: one for each engine and each way
\* Etherbase can find, or fail to find, its address, the two sync modes New
\* rejects, an archive node, and a node that serves light clients.
MCConfigs ==
    { Bare,
      [Bare EXCEPT !.Accounts = <<a1, a2>>, !.LightServ = 1, !.LightPeers = 1],
      [Bare EXCEPT !.Etherbase = a2, !.NoPruning = TRUE, !.TrieDirtyCache = 1,
                   !.PowMode = "fake", !.SkipBcVersionCheck = TRUE],
      [Bare EXCEPT !.Engine = "clique", !.Etherbase = a2, !.Accounts = <<a1>>],
      [Bare EXCEPT !.Engine = "tendermint", !.NodeAddress = a1, !.SyncMode = "fast"],
      [Bare EXCEPT !.Engine = "tendermint"],
      [Bare EXCEPT !.SyncMode = "light"],
      NoConfig }

\* The configurations the mining controls are raced under: every engine,
\* with and without a configured etherbase and local accounts.
MCMiningConfigs ==
    { [Bare EXCEPT !.Accounts = <<a1, a2>>],
      [Bare EXCEPT !.Engine = "clique", !.Etherbase = a2, !.Accounts = <<a1>>],
      [Bare EXCEPT !.Engine = "tendermint", !.NodeAddress = a1],
      [Bare EXCEPT !.Engine = "tendermint"] }

\* New meets every outcome: each stage fails at least once, with each
\* database version that matters (none, current, newer than supported).
MCEnvironments ==
    [dbOpens : BOOLEAN, genesis : {"ok", "compat", "error"},
     disk : {0, BlockChainVersion, BlockChainVersion + 1},
     chainOk : BOOLEAN, pmOk : BOOLEAN]

\* New succeeds on an up-to-date database.
MCFairWeather ==
    {[dbOpens |-> TRUE, genesis |-> "ok", disk |-> BlockChainVersion,
      chainOk |-> TRUE, pmOk |-> TRUE]}

\* Every configuration of the two sets above.
MCAllConfigs == MCConfigs \cup MCMiningConfigs

\* Where two calls are in flight at once: on a node that was built in fair
\* weather from one of the mining configurations and started with room for
\* two peers.  Everywhere else the callers take turns.
MCFocus ==
    \/ \E t \in Threads : \A u \in Threads \ {t} : thread[u] = Idle
    \/ /\ config \in MCMiningConfigs
       /\ ~rewound /\ dbVersion = BlockChainVersion /\ pmMaxPeers = 2

Symmetry == Permutations(Threads)

=============================================================================
