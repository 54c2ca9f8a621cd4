------------------------------ MODULE FullNode ------------------------------
(***************************************************************************)
(* The full node service of neut/backend.go: construction (New), the       *)
(* lifecycle (AddLesServer, Start, Stop) and the mining controls that RPC  *)
(* callers run concurrently (Etherbase, SetEtherbase, StartMining,         *)
(* StopMining).                                                            *)
(*                                                                         *)
(* Every RPC caller is a thread with a program counter.  A step is what    *)
(* the code does atomically: one critical section of s.lock, one atomic    *)
(* store, or one call into the miner, the engine or the transaction pool   *)
(* (each of which serialises its own calls).  `go s.miner.Start(eb)` is a  *)
(* goroutine of its own: StartMining returns before it has run.            *)
(***************************************************************************)
EXTENDS Integers, Sequences, FiniteSets, FiniteSetsExt, Bags, BagsExt

CONSTANTS
    Addrs,              \* addresses other than the zero address
    Zero,               \* common.Address{}
    Threads,            \* concurrent RPC callers
    Configs,            \* the (config, ctx) pairs New may be called with
    Environments,       \* what New may meet: see NewEnv
    BlockChainVersion,  \* core.BlockChainVersion
    ServerMaxPeers,     \* values of srvr.MaxPeers Start may be called with
    ThreadCounts,       \* values of the threads argument of StartMining
    MaxPendingStarts    \* bound: miner.Start goroutines launched and not yet run

ASSUME /\ Zero \notin Addrs
       /\ BlockChainVersion \in Nat \ {0}
       /\ ServerMaxPeers \subseteq Nat
       /\ ThreadCounts \subseteq Nat
       /\ MaxPendingStarts \in Nat \ {0}

VARIABLES
    status,         \* where the service is in its life
    config,         \* s.config after New has normalised it
    running,        \* the parts of the node that hold goroutines or files
    dbVersion,      \* the database version stored in chainDb
    rewound,        \* New has rewound the chain for a config upgrade
    lesServer,      \* s.lesServer # nil
    pmMaxPeers,     \* what protocolManager.Start was given
    stopPc,         \* how many steps of Stop have run
    etherbase,      \* s.etherbase
    miner,          \* the miner: [mining, coinbase]
    engineThreads,  \* the thread count of the ethash engine
    authorized,     \* the signer the clique engine was authorised with
    txPoolPriced,   \* txPool.SetGasPrice(s.gasPrice) has happened
    acceptTxs,      \* protocolManager.acceptTxs
    pendingStarts,  \* bag: the eb of every `go s.miner.Start(eb)` still to run
    thread          \* RPC caller -> [pc, arg, eb, ret]

lifecycle == <<status, config, running, dbVersion, rewound, lesServer, pmMaxPeers, stopPc>>
mining    == <<etherbase, miner, engineThreads, authorized, txPoolPriced,
               acceptTxs, pendingStarts>>
vars      == <<lifecycle, mining, thread>>

-----------------------------------------------------------------------------
(* Types and null values *)

Address == Addrs \cup {Zero}

SyncModes == {"full", "fast", "light", "invalid"}

EngineKinds == {"clique", "tendermint", "ethash"}

PowModes == {"normal", "fake", "test", "shared"}

\* What New reads of *Config and of the node.ServiceContext.
ConfigType ==
    [SyncMode : SyncModes, NoPruning : BOOLEAN, TrieCleanCache : Nat,
     TrieDirtyCache : Nat, SkipBcVersionCheck : BOOLEAN, Etherbase : Address,
     LightServ : Nat, LightPeers : Nat, Engine : EngineKinds, PowMode : PowModes,
     NodeAddress : Address, Accounts : Seq(Addrs), Locals : SUBSET Addrs]

NoConfig == [SyncMode |-> "invalid", NoPruning |-> FALSE, TrieCleanCache |-> 0,
             TrieDirtyCache |-> 0, SkipBcVersionCheck |-> FALSE, Etherbase |-> Zero,
             LightServ |-> 0, LightPeers |-> 0, Engine |-> "ethash",
             PowMode |-> "normal", NodeAddress |-> Zero, Accounts |-> <<>>,
             Locals |-> {}]

ASSUME Configs \subseteq ConfigType

Parts == {"chainDb", "engine", "blockchain", "bloomIndexer", "txPool",
          "protocolManager", "lesServer", "eventMux", "bloomHandlers"}

Pcs == {"idle", "se_miner", "sm_check", "sm_price", "eb_read", "eb_decide",
        "eb_store", "sm_clique", "sm_accept", "sm_spawn", "stop_miner"}

ThreadState == [pc : Pcs, arg : Address, eb : Address, ret : {"api", "mining"}]

Idle == [pc |-> "idle", arg |-> Zero, eb |-> Zero, ret |-> "api"]

\* The engine has SetThreads: only ethash does.
Threaded == config.Engine = "ethash"

-----------------------------------------------------------------------------
(* New *)

\* What the environment decides while New runs: whether the database opens,
\* what SetupGenesisBlock returns, the database version stored (0: none),
\* whether NewBlockChain and NewProtocolManager succeed.
NewEnv == [dbOpens : BOOLEAN, genesis : {"ok", "compat", "error"},
           disk : Nat, chainOk : BOOLEAN, pmOk : BOOLEAN]

ASSUME Environments \subseteq NewEnv

\* The archive node keeps no dirty cache: its allowance goes to the clean one.
Normalised(cfg) ==
    IF cfg.NoPruning /\ cfg.TrieDirtyCache > 0
    THEN [cfg EXCEPT !.TrieCleanCache = @ + cfg.TrieDirtyCache, !.TrieDirtyCache = 0]
    ELSE cfg

\* The database version New leaves on disk once the version check is passed.
Upgraded(cfg, disk) ==
    IF ~cfg.SkipBcVersionCheck /\ disk < BlockChainVersion
    THEN BlockChainVersion ELSE disk

\* How far New gets: the number of the first stage that returns an error,
\* 7 when none does.
Reached(cfg, env) ==
    LET fails == <<cfg.SyncMode \in {"light", "invalid"},
                   ~env.dbOpens,
                   env.genesis = "error",
                   ~cfg.SkipBcVersionCheck /\ env.disk > BlockChainVersion,
                   ~env.chainOk,
                   ~env.pmOk>>
    IN  Min({stage \in DOMAIN fails : fails[stage]} \cup {7})

\* What New has opened or started by the time it has reached stage n.  An
\* error return closes nothing.
Opened(n) ==
    (IF n > 2 THEN {"chainDb"} ELSE {})
        \cup (IF n > 3 THEN {"engine"} ELSE {})
        \cup (IF n > 5 THEN {"blockchain", "bloomIndexer", "txPool"} ELSE {})

\* ethash.New is followed by SetThreads(-1); the other modes are left as made.
InitialThreads(cfg) ==
    IF cfg.Engine = "ethash" /\ cfg.PowMode = "normal" THEN -1 ELSE 0

New(cfg, env) ==
    LET n == Reached(cfg, env) IN
    /\ status = "none"
    /\ status' = IF n = 7 THEN "created" ELSE "failed"
    /\ config' = IF n > 1 THEN Normalised(cfg) ELSE cfg
    /\ running' = running \cup Opened(n)
    /\ dbVersion' = IF n > 4 THEN Upgraded(cfg, env.disk)
                    ELSE IF n > 2 THEN env.disk ELSE dbVersion
    /\ rewound' = (n > 5 /\ env.genesis = "compat")
    /\ etherbase' = IF n > 3 THEN cfg.Etherbase ELSE etherbase
    /\ engineThreads' = IF n > 3 THEN InitialThreads(cfg) ELSE engineThreads
    /\ UNCHANGED <<lesServer, pmMaxPeers, stopPc, miner, authorized, txPoolPriced,
                   acceptTxs, pendingStarts, thread>>

-----------------------------------------------------------------------------
(* AddLesServer, Start, Stop *)

AddLesServer ==
    /\ status = "created"
    /\ lesServer' = TRUE
    /\ UNCHANGED <<status, config, running, dbVersion, rewound, pmMaxPeers, stopPc,
                   mining, thread>>

\* The peer limit check of Start, as an off-by-one would leave it.
TooManyLightPeersStrict(maxPeers) ==
    config.LightServ > 0 /\ config.LightPeers > maxPeers

\* Start refuses a light-peer allowance that leaves no room for full peers.
TooManyLightPeers(maxPeers) ==
    config.LightServ > 0 /\ config.LightPeers >= maxPeers

\* Start: the bloom handlers are launched first and stay when Start fails.
Start(maxPeers) ==
    /\ status = "created"
    /\ IF TooManyLightPeers(maxPeers)
       THEN /\ status' = "startFailed"
            /\ running' = running \cup {"bloomHandlers"}
            /\ UNCHANGED pmMaxPeers
       ELSE /\ status' = "started"
            /\ pmMaxPeers' = IF config.LightServ > 0
                             THEN maxPeers - config.LightPeers ELSE maxPeers
            /\ running' = running \cup {"bloomHandlers", "protocolManager"}
                                  \cup (IF lesServer THEN {"lesServer"} ELSE {})
    /\ UNCHANGED <<config, dbVersion, rewound, lesServer, stopPc, mining, thread>>

\* The order of Stop with the database closed too early.
StopOrderDbFirst ==
    <<"bloomIndexer", "chainDb", "blockchain", "engine", "protocolManager",
      "lesServer", "txPool", "miner", "eventMux", "shutdownChan">>

\* The order in which Stop shuts the parts of the node down.
StopOrder ==
    <<"bloomIndexer", "blockchain", "engine", "protocolManager", "lesServer",
      "txPool", "miner", "eventMux", "chainDb", "shutdownChan">>

\* One statement of Stop.  Closing shutdownChan ends the bloom handlers.
StopStep ==
    LET part == StopOrder[stopPc + 1] IN
    /\ status \in {"started", "stopping"}
    /\ stopPc < Len(StopOrder)
    /\ stopPc' = stopPc + 1
    /\ status' = IF stopPc' = Len(StopOrder) THEN "stopped" ELSE "stopping"
    /\ running' = running \ (IF part = "shutdownChan" THEN {"bloomHandlers"} ELSE {part})
    /\ miner' = IF part = "miner" THEN [miner EXCEPT !.mining = FALSE] ELSE miner
    /\ UNCHANGED <<config, dbVersion, rewound, lesServer, pmMaxPeers, etherbase,
                   engineThreads, authorized, txPoolPriced, acceptTxs, pendingStarts,
                   thread>>

-----------------------------------------------------------------------------
(* Etherbase *)

\* An RPC caller may begin a call while the service is started.
MayCall(t) == status = "started" /\ thread[t].pc = "idle"

\* Etherbase has an answer: an RPC caller is done, StartMining goes on with
\* the clique authorisation, or without it for the other engines.
Returned(t, eb) ==
    IF thread[t].ret = "api" THEN Idle
    ELSE [thread[t] EXCEPT !.eb = eb,
                           !.pc = IF config.Engine = "clique" THEN "sm_clique"
                                  ELSE "sm_accept"]

\* Etherbase has no answer: the caller gets the error, StartMining gives up.
Failed(t) == Idle

CallEtherbase(t) ==
    /\ MayCall(t)
    /\ thread' = [thread EXCEPT ![t] = [Idle EXCEPT !.pc = "eb_read"]]
    /\ UNCHANGED <<lifecycle, mining>>

\* The read of s.etherbase under the read lock.
EtherbaseRead(t) ==
    /\ thread[t].pc = "eb_read"
    /\ thread' = [thread EXCEPT ![t].pc = "eb_decide", ![t].eb = etherbase]
    /\ UNCHANGED <<lifecycle, mining>>

\* The first account of the first wallet, Zero when there is none.
FirstAccount == IF config.Accounts = <<>> THEN Zero ELSE Head(config.Accounts)

\* What Etherbase can tell from the value it read: the address of the
\* tendermint engine, or s.etherbase as it was under the lock.
Answer(t) ==
    IF config.Engine = "tendermint" THEN config.NodeAddress ELSE thread[t].eb

\* The test for the zero address, left out.
AlwaysHasAnswer(t) == TRUE

\* Neither answer is given when it is the zero address.
HasAnswer(t) == Answer(t) # Zero

\* After the lock is released: the tendermint address, the value read, or
\* the first local account, which is still to be stored.
EtherbaseDecide(t) ==
    /\ thread[t].pc = "eb_decide"
    /\ thread' = [thread EXCEPT ![t] =
          IF HasAnswer(t) THEN Returned(t, Answer(t))
          ELSE IF config.Engine # "tendermint" /\ FirstAccount # Zero
               THEN [thread[t] EXCEPT !.pc = "eb_store", !.eb = FirstAccount]
               ELSE Failed(t)]
    /\ UNCHANGED <<lifecycle, mining>>

\* The automatic configuration: s.etherbase is written under the lock.
EtherbaseStore(t) ==
    /\ thread[t].pc = "eb_store"
    /\ etherbase' = thread[t].eb
    /\ thread' = [thread EXCEPT ![t] = Returned(t, thread[t].eb)]
    /\ UNCHANGED <<lifecycle, miner, engineThreads, authorized, txPoolPriced,
                   acceptTxs, pendingStarts>>

-----------------------------------------------------------------------------
(* SetEtherbase *)

\* s.etherbase is written under the lock ...
SetEtherbase(t, a) ==
    /\ MayCall(t)
    /\ etherbase' = a
    /\ thread' = [thread EXCEPT ![t] = [Idle EXCEPT !.pc = "se_miner", !.arg = a]]
    /\ UNCHANGED <<lifecycle, miner, engineThreads, authorized, txPoolPriced,
                   acceptTxs, pendingStarts>>

\* ... and the miner is told after the lock is released.
SetEtherbaseMiner(t) ==
    /\ thread[t].pc = "se_miner"
    /\ miner' = [miner EXCEPT !.coinbase = thread[t].arg]
    /\ thread' = [thread EXCEPT ![t] = Idle]
    /\ UNCHANGED <<lifecycle, etherbase, engineThreads, authorized, txPoolPriced,
                   acceptTxs, pendingStarts>>

-----------------------------------------------------------------------------
(* StartMining, StopMining *)

\* threads = 0 disables the miner from within the engine.
StartMining(t, threads) ==
    /\ MayCall(t)
    /\ engineThreads' = IF ~Threaded THEN engineThreads
                        ELSE IF threads = 0 THEN -1 ELSE threads
    /\ thread' = [thread EXCEPT ![t] = [Idle EXCEPT !.pc = "sm_check"]]
    /\ UNCHANGED <<lifecycle, etherbase, miner, authorized, txPoolPriced, acceptTxs,
                   pendingStarts>>

\* if !s.IsMining(): a miner that runs is left alone.
StartMiningCheck(t) ==
    /\ thread[t].pc = "sm_check"
    /\ thread' = [thread EXCEPT ![t] = IF miner.mining THEN Idle
                                       ELSE [@ EXCEPT !.pc = "sm_price"]]
    /\ UNCHANGED <<lifecycle, mining>>

\* The gas price is read under the lock and handed to the pool; then the
\* call of Etherbase.
StartMiningPrice(t) ==
    /\ thread[t].pc = "sm_price"
    /\ txPoolPriced' = TRUE
    /\ thread' = [thread EXCEPT ![t].pc = "eb_read", ![t].ret = "mining"]
    /\ UNCHANGED <<lifecycle, etherbase, miner, engineThreads, authorized, acceptTxs,
                   pendingStarts>>

\* accountManager.Find, with its result ignored.
AnyWallet(eb) == TRUE

\* accountManager.Find: the etherbase must be an account of a local wallet.
HasWallet(eb) == \E i \in DOMAIN config.Accounts : config.Accounts[i] = eb

\* Clique only: the signer is authorised, or StartMining gives up.
StartMiningAuthorize(t) ==
    /\ thread[t].pc = "sm_clique"
    /\ IF HasWallet(thread[t].eb)
       THEN /\ authorized' = thread[t].eb
            /\ thread' = [thread EXCEPT ![t].pc = "sm_accept"]
       ELSE /\ thread' = [thread EXCEPT ![t] = Idle]
            /\ UNCHANGED authorized
    /\ UNCHANGED <<lifecycle, etherbase, miner, engineThreads, txPoolPriced, acceptTxs,
                   pendingStarts>>

\* StartMining with the store to acceptTxs left out.
StartMiningAcceptForgotten(t) ==
    /\ thread[t].pc = "sm_accept"
    /\ thread' = [thread EXCEPT ![t].pc = "sm_spawn"]
    /\ UNCHANGED <<lifecycle, mining>>

\* atomic.StoreUint32(&s.protocolManager.acceptTxs, 1)
StartMiningAccept(t) ==
    /\ thread[t].pc = "sm_accept"
    /\ acceptTxs' = 1
    /\ thread' = [thread EXCEPT ![t].pc = "sm_spawn"]
    /\ UNCHANGED <<lifecycle, etherbase, miner, engineThreads, authorized, txPoolPriced,
                   pendingStarts>>

\* go s.miner.Start(eb): StartMining returns, the goroutine is still to run.
\* Every call launches a goroutine of its own, two calls with one address two.
StartMiningSpawn(t) ==
    /\ thread[t].pc = "sm_spawn"
    /\ BagCardinality(pendingStarts) < MaxPendingStarts
    /\ pendingStarts' = BagAdd(pendingStarts, thread[t].eb)
    /\ thread' = [thread EXCEPT ![t] = Idle]
    /\ UNCHANGED <<lifecycle, etherbase, miner, engineThreads, authorized, txPoolPriced,
                   acceptTxs>>

\* The goroutine runs: the miner takes eb as its coinbase and mines.
MinerStart(eb) ==
    /\ BagIn(eb, pendingStarts)
    /\ pendingStarts' = BagRemove(pendingStarts, eb)
    /\ miner' = [mining |-> TRUE, coinbase |-> eb]
    /\ UNCHANGED <<lifecycle, etherbase, engineThreads, authorized, txPoolPriced,
                   acceptTxs, thread>>

\* StopMining: the engine first ...
StopMining(t) ==
    /\ MayCall(t)
    /\ engineThreads' = IF Threaded THEN -1 ELSE engineThreads
    /\ thread' = [thread EXCEPT ![t] = [Idle EXCEPT !.pc = "stop_miner"]]
    /\ UNCHANGED <<lifecycle, etherbase, miner, authorized, txPoolPriced, acceptTxs,
                   pendingStarts>>

\* ... then the miner.
StopMiningMiner(t) ==
    /\ thread[t].pc = "stop_miner"
    /\ miner' = [miner EXCEPT !.mining = FALSE]
    /\ thread' = [thread EXCEPT ![t] = Idle]
    /\ UNCHANGED <<lifecycle, etherbase, engineThreads, authorized, txPoolPriced,
                   acceptTxs, pendingStarts>>

-----------------------------------------------------------------------------
(* What the service tells the node, the miner and the chain *)

IsMining == miner.mining

Synced == acceptTxs = 1

ArchiveMode == config.NoPruning

\* Protocols and APIs: what the les server offers comes after the node's own.
Protocols == <<"neut">> \o (IF lesServer THEN <<"les">> ELSE <<>>)

APIs == <<"neutapi">> \o (IF lesServer THEN <<"les">> ELSE <<>>)
            \o <<"engine", "neut", "miner", "downloader", "filters", "admin", "debug", "net">>

\* makeExtraData: the default when none is given, nothing when it is longer
\* than the limit (lengths stand for the data).
makeExtraData(extra, default, limit) ==
    LET given == IF extra = 0 THEN default ELSE extra
    IN  IF given > limit THEN 0 ELSE given

\* isLocalBlock: the engine can tell the block's author, and it is the
\* etherbase of this moment or one of txpool.locals.
isLocalBlock(author, authorKnown) ==
    authorKnown /\ (author = etherbase \/ author \in config.Locals)

\* shouldPreserve: never under clique.
shouldPreserve(author, authorKnown) ==
    config.Engine # "clique" /\ isLocalBlock(author, authorKnown)

-----------------------------------------------------------------------------
(* Specification *)

\* Before New: the node has made the event mux, nothing else exists.
Init ==
    /\ status = "none"
    /\ config = NoConfig
    /\ running = {"eventMux"}
    /\ dbVersion = 0
    /\ rewound = FALSE
    /\ lesServer = FALSE
    /\ pmMaxPeers = 0
    /\ stopPc = 0
    /\ etherbase = Zero
    /\ miner = [mining |-> FALSE, coinbase |-> Zero]
    /\ engineThreads = 0
    /\ authorized = Zero
    /\ txPoolPriced = FALSE
    /\ acceptTxs = 0
    /\ pendingStarts = EmptyBag
    /\ thread = [t \in Threads |-> Idle]

Call(t) ==
    \/ CallEtherbase(t)
    \/ \E a \in Address : SetEtherbase(t, a)
    \/ \E n \in ThreadCounts : StartMining(t, n)
    \/ StopMining(t)

Proceed(t) ==
    \/ EtherbaseRead(t)
    \/ EtherbaseDecide(t)
    \/ EtherbaseStore(t)
    \/ SetEtherbaseMiner(t)
    \/ StartMiningCheck(t)
    \/ StartMiningPrice(t)
    \/ StartMiningAuthorize(t)
    \/ StartMiningAccept(t)
    \/ StartMiningSpawn(t)
    \/ StopMiningMiner(t)

Next ==
    \/ \E cfg \in Configs, env \in Environments : New(cfg, env)
    \/ AddLesServer
    \/ \E maxPeers \in ServerMaxPeers : Start(maxPeers)
    \/ StopStep
    \/ \E t \in Threads : Call(t) \/ Proceed(t)
    \/ \E eb \in Address : MinerStart(eb)

Spec == Init /\ [][Next]_vars


-----------------------------------------------------------------------------
(* Properties *)

TypeOK ==
    /\ status \in {"none", "failed", "created", "startFailed", "started",
                   "stopping", "stopped"}
    /\ config \in ConfigType
    /\ running \subseteq Parts
    /\ dbVersion \in Nat
    /\ rewound \in BOOLEAN
    /\ lesServer \in BOOLEAN
    /\ pmMaxPeers \in Nat
    /\ stopPc \in 0..Len(StopOrder)
    /\ etherbase \in Address
    /\ miner \in [mining : BOOLEAN, coinbase : Address]
    /\ engineThreads \in Int
    /\ authorized \in Address
    /\ txPoolPriced \in BOOLEAN
    /\ acceptTxs \in {0, 1}
    /\ IsABag(pendingStarts) /\ BagToSet(pendingStarts) \subseteq Addrs
    /\ BagCardinality(pendingStarts) <= MaxPendingStarts
    /\ thread \in [Threads -> ThreadState]

\* Nobody has a call in progress and no miner.Start is still to run.
Quiescent == pendingStarts = EmptyBag /\ \A t \in Threads : thread[t].pc = "idle"

\* A miner that runs, or is about to, finds the node accepting transactions:
\* StartMining lifts the rejection of transactions before it launches the
\* miner, whatever other callers and the Stop of the node do meanwhile.
MiningImpliesAcceptTxs ==
    IsMining \/ pendingStarts # EmptyBag => Synced

\* With the clique engine every miner.Start that runs or is still to run
\* was launched with an address of a local wallet, and the signer the engine
\* holds is one too, whichever of several concurrent StartMining calls
\* authorised last and whatever SetEtherbase wrote in between.
CliqueMinerCanSign ==
    config.Engine = "clique" /\ (miner.mining \/ pendingStarts # EmptyBag) =>
        LET local == Range(config.Accounts)
        IN  authorized \in local /\ BagToSet(pendingStarts) \subseteq local

\* Every part that works on the chain database: all but the database itself
\* and the event mux.
DbUsers == Parts \ {"chainDb", "eventMux"}

\* Stop closes shutdownChan, which ends the bloom handlers, in its last
\* statement, after the database.
EndedByShutdownChan == {"bloomHandlers"}

\* Stop closes the chain database only after every part that reads or
\* writes it has been stopped, the bloom handlers apart, which Stop ends one
\* statement later; and New never starts such a part without the database.
\* (The miner is not a part Stop can count on: see NoMiningAfterStop.)
DbClosedLast ==
    "chainDb" \notin running => running \cap DbUsers \subseteq EndedByShutdownChan

\* When the node serves light clients, Start leaves the protocol manager
\* at least one full peer, and the two allowances add up to the server's.
FullPeersKeepASlot ==
    status = "started" /\ config.LightServ > 0 =>
        /\ pmMaxPeers >= 1
        /\ pmMaxPeers + config.LightPeers \in ServerMaxPeers

\* Stop is documented as "terminating all internal goroutines": once it has
\* returned, the miner does not run.
NoMiningAfterStop ==
    status = "stopped" => ~IsMining

\* Etherbase configures the address automatically only when none is set
\* (its test of the value read under the lock): the write never replaces an
\* address other than the zero address.
AutoConfigOnlyWhenUnset ==
    [][\A t \in Threads :
          EtherbaseStore(t) => etherbase = Zero \/ etherbase' = etherbase]_vars

\* SetEtherbase "sets the mining reward address": when all calls have
\* returned, the address the node reports and the one the miner pays to
\* are the same (the tendermint engine apart, which has its own address).
MinerFollowsEtherbase ==
    /\ Quiescent
    /\ config.Engine # "tendermint"
    /\ miner.mining
    /\ miner.coinbase # Zero
    /\ etherbase # Zero
    => miner.coinbase = etherbase

=============================================================================
