----------------------------- MODULE LightNode -----------------------------
(***************************************************************************)
(* The light client service: its life cycle (src/les/backend.go), the      *)
(* node information it advertises (src/les/commons.go) and the API backend *)
(* the RPC layer calls (src/les/api_backend.go).                           *)
(*                                                                         *)
(* New builds the parts of the service, Start launches them and Stop shuts *)
(* them down one statement at a time.  Meanwhile the downloader imports    *)
(* headers, the indexers complete sections, SetHead rewinds the chain, and *)
(* RPC goroutines and the p2p server ask questions whose answers take      *)
(* several reads of that changing state.                                   *)
(***************************************************************************)
EXTENDS Integers, Sequences, FiniteSets

CONSTANTS
    Threads,        \* goroutines that call the API backend and nodeInfo
    Forks,          \* the different blocks there may be at one height
    MaxHead,        \* bound: the chain never grows past this block number
    SectionSize,    \* blocks in one section of an indexer
    ULC,            \* config.ULC names trusted servers
    Nil,            \* nil: nothing found
    Err             \* an error is returned

ASSUME MaxHead \in Nat /\ SectionSize \in Nat \ {0} /\ ULC \in BOOLEAN

VARIABLES
    status,         \* where the service is in its life
    up,             \* the parts that are open or running
    stopPc,         \* statements of Stop already executed
    checkFreq,      \* the chain still checks a header now and then
    canon,          \* the canonical chain: canon[n] tells block n's fork
    syncing,        \* the downloader is running a sync
    sections,       \* sections each indexer has stored
    setHead,        \* SetHead in flight: the number to rewind to, or Nil
    call            \* what each thread is asking, and what it has read so far

vars == <<status, up, stopPc, checkFreq, canon, syncing, sections, setHead, call>>

Indexers == {"chtIndexer", "bloomIndexer", "bloomTrieIndexer"}

Parts == Indexers \cup {"chainDb", "engine", "odr", "relay", "blockchain", "txPool",
                        "protocolManager", "eventMux", "serverPool", "bloomHandlers"}

\* rpc.LatestBlockNumber and rpc.PendingBlockNumber
Latest  == -1
Pending == -2

Genesis == <<0, Nil>>
Blocks  == {Genesis} \cup ((1..MaxHead) \X Forks)

Height == Len(canon)

Min(a, b) == IF a < b THEN a ELSE b

-----------------------------------------------------------------------------
(* The chain and its indexers, as the service's parts see them.            *)

\* LightChain.GetHeaderByNumber
Header(n) == IF n = 0 THEN Genesis ELSE <<n, canon[n]>>

\* LightChain.CurrentHeader
CurrentHeader == Header(Height)

\* The header of this hash is in the database.
Known(b) == b = Genesis \/ (b[1] <= Height /\ canon[b[1]] = b[2])

\* LightChain.SetHead: headers above the number are deleted.
Rewound(n) == SubSeq(canon, 1, Min(n, Height))

\* History: the calls of nodeInfo in flight have read what a rewind undoes.
Overtaken ==
    [t \in Threads |->
        IF call[t].op = "nodeInfo" THEN [call[t] EXCEPT !.rolled = TRUE] ELSE call[t]]

\* The downloader inserts the next header of a sync.
Import(f) ==
    /\ syncing /\ "blockchain" \in up /\ Height < MaxHead
    /\ canon' = Append(canon, f)
    /\ UNCHANGED <<status, up, stopPc, checkFreq, syncing, sections, setHead, call>>

\* A peer is there to sync with, once the protocol manager has started.
Synchronise ==
    /\ status \in {"running", "stopping"} /\ "protocolManager" \in up /\ ~syncing
    /\ syncing' = TRUE
    /\ UNCHANGED <<status, up, stopPc, checkFreq, canon, sections, setHead, call>>

\* ChainIndexer.updateLoop: an indexer stores the next section the chain has
\* completed, the bloom trie indexer after its parent.
IndexerStores(ix) ==
    /\ ix \in up /\ "blockchain" \in up
    /\ (sections[ix] + 1) * SectionSize <= Height
    /\ ix = "bloomTrieIndexer" => sections[ix] < sections["bloomIndexer"]
    /\ sections' = [sections EXCEPT ![ix] = @ + 1]
    /\ UNCHANGED <<status, up, stopPc, checkFreq, canon, syncing, setHead, call>>

\* ChainIndexer.newHead on a reorganisation: sections above the head are
\* dropped.
IndexerRollsBack(ix) ==
    /\ ix \in up
    /\ sections[ix] * SectionSize > Height
    /\ sections' = [sections EXCEPT ![ix] = Height \div SectionSize]
    /\ call' = Overtaken
    /\ UNCHANGED <<status, up, stopPc, checkFreq, canon, syncing, setHead>>

-----------------------------------------------------------------------------
(* The life cycle: New, Start, Stop.                                       *)

Stages == <<"database", "genesis", "chain", "protocolManager">>

\* What New may meet: the stage that fails, if any, and the block number a
\* ConfigCompatError asks to rewind to.
NewOutcomes ==
    {o \in [fails : {"none"} \cup {Stages[i] : i \in DOMAIN Stages},
            rewindTo : {Nil} \cup (0..MaxHead)] :
        o.fails \in {"database", "genesis"} => o.rewindTo = Nil}

\* The parts New has built when it has passed the first n stages.
Built(n) ==
    (IF n >= 1 THEN {"chainDb"} ELSE {})
    \cup (IF n >= 2 THEN Indexers \cup {"engine", "odr", "relay"} ELSE {})
    \cup (IF n >= 3 THEN {"blockchain", "txPool"} ELSE {})
    \cup (IF n >= 4 THEN {"protocolManager"} ELSE {})

Passed(o) ==
    IF o.fails = "none" THEN Len(Stages)
    ELSE (CHOOSE i \in DOMAIN Stages : Stages[i] = o.fails) - 1

\* New returns at the first stage that fails and closes nothing it has
\* opened; with the chain created it starts the indexers and rewinds on a
\* compatibility error.
New(o) ==
    /\ status = "none"
    /\ up' = up \cup Built(Passed(o))
    /\ canon' = IF Passed(o) >= 3 /\ o.rewindTo # Nil THEN Rewound(o.rewindTo) ELSE canon
    /\ checkFreq' = ~(Passed(o) = 4 /\ ULC)
    /\ status' = IF o.fails = "none" THEN "created" ELSE "failed"
    /\ UNCHANGED <<stopPc, syncing, sections, setHead, call>>

StartWithoutHandlers ==
    /\ status = "created"
    /\ up' = up \cup {"serverPool"}
    /\ status' = "running"
    /\ UNCHANGED <<stopPc, checkFreq, canon, syncing, sections, setHead, call>>

\* Start: the bloom handlers, the server pool and the protocol manager.
Start ==
    /\ status = "created"
    /\ up' = up \cup {"bloomHandlers", "serverPool"}
    /\ status' = "running"
    /\ UNCHANGED <<stopPc, checkFreq, canon, syncing, sections, setHead, call>>

\* ResetWithGenesisBlock: the chain is back at its genesis block.
ResetWithGenesisBlock ==
    /\ status \in {"created", "running"}
    /\ canon' = <<>>
    /\ call' = Overtaken
    /\ UNCHANGED <<status, up, stopPc, checkFreq, syncing, sections, setHead>>

StopOrderDbFirst ==
    <<"odr", "relay", "bloomIndexer", "chtIndexer", "blockchain", "protocolManager",
      "chainDb", "txPool", "engine", "eventMux", "shutdownChan">>

\* The statements of Stop, in their order.
StopOrder ==
    <<"odr", "relay", "bloomIndexer", "chtIndexer", "blockchain", "protocolManager",
      "txPool", "engine", "eventMux", "chainDb", "shutdownChan">>

\* What goes down with a statement of Stop: an indexer takes its child
\* along, the protocol manager its server pool and downloader, and closing
\* shutdownChan ends the bloom handlers.
Closes(part) ==
    CASE part = "bloomIndexer"    -> {"bloomIndexer", "bloomTrieIndexer"}
      [] part = "protocolManager" -> {"protocolManager", "serverPool"}
      [] part = "shutdownChan"    -> {"bloomHandlers"}
      [] OTHER                    -> {part}

\* One statement of Stop.
StopStep ==
    /\ status \in {"running", "stopping"}
    /\ LET part == StopOrder[stopPc + 1] IN
         /\ up' = up \ Closes(part)
         /\ syncing' = (syncing /\ part # "protocolManager")
    /\ stopPc' = stopPc + 1
    /\ status' = IF stopPc + 1 = Len(StopOrder) THEN "stopped" ELSE "stopping"
    /\ UNCHANGED <<checkFreq, canon, sections, setHead, call>>

-----------------------------------------------------------------------------
(* The API backend.                                                        *)

Serving == status = "running"

IdleCall == [op |-> "none", pc |-> "idle", nr |-> Nil, hash |-> Nil, hdr |-> Nil,
             cht |-> Nil, td |-> Nil, ans |-> Nil, rolled |-> FALSE]

Asks(t, op, pc, nr, hash) ==
    /\ Serving /\ call[t].pc \in {"idle", "done"}
    /\ call' = [call EXCEPT ![t] = [IdleCall EXCEPT !.op = op, !.pc = pc,
                                                     !.nr = nr, !.hash = hash]]
    /\ UNCHANGED <<status, up, stopPc, checkFreq, canon, syncing, sections, setHead>>

At(t, op, pc) == call[t].op = op /\ call[t].pc = pc

Reads(t, c) ==
    /\ call' = [call EXCEPT ![t] = c]
    /\ UNCHANGED <<status, up, stopPc, checkFreq, canon, syncing, sections, setHead>>

\* The call returns; of what it read, only what nodeInfo has put in its
\* answer is kept.
Answers(t, ans) ==
    Reads(t, [(IF call[t].op = "nodeInfo" THEN call[t] ELSE IdleCall)
                  EXCEPT !.op = call[t].op, !.pc = "done", !.ans = ans])

\* SetHead, first statement: the running sync is cancelled.
SetHeadCancel(n) ==
    /\ Serving /\ setHead = Nil
    /\ setHead' = n
    /\ syncing' = FALSE
    /\ UNCHANGED <<status, up, stopPc, checkFreq, canon, sections, call>>

\* SetHead, second statement: the chain is rewound.
SetHeadRewind ==
    /\ setHead # Nil
    /\ canon' = Rewound(setHead)
    /\ setHead' = Nil
    /\ call' = Overtaken
    /\ UNCHANGED <<status, up, stopPc, checkFreq, syncing, sections>>

HeaderByNumber(blockNr) ==
    IF blockNr \in {Latest, Pending} THEN CurrentHeader
    ELSE IF blockNr <= Height THEN Header(blockNr) ELSE Err

\* GetBlock: the body comes over ODR, asked for by hash.
GetBlock(hash) ==
    IF ~Known(hash) THEN Nil ELSE IF "odr" \in up THEN hash ELSE Err

\* BlockByNumber: the header first, then the block of that header's hash.
BlockByNumber(t) ==
    \/ \E nr \in {Latest, Pending} \cup (0..MaxHead) : Asks(t, "BlockByNumber", "header", nr, Nil)
    \/ /\ At(t, "BlockByNumber", "header")
       /\ LET header == HeaderByNumber(call[t].nr) IN
            IF header = Err THEN Answers(t, Err)
            ELSE Reads(t, [call[t] EXCEPT !.pc = "block", !.hdr = header])
    \/ /\ At(t, "BlockByNumber", "block")
       /\ Answers(t, GetBlock(call[t].hdr))

\* GetReceipts and GetLogs: the block's number from the database, then the
\* receipts of that hash and number over ODR.
GetReceipts(t) ==
    \/ \E hash \in Blocks : Asks(t, "GetReceipts", "number", Nil, hash)
    \/ /\ At(t, "GetReceipts", "number")
       /\ IF "chainDb" \in up /\ Known(call[t].hash)
             THEN Reads(t, [call[t] EXCEPT !.pc = "fetch", !.nr = call[t].hash[1]])
             ELSE Answers(t, Nil)
    \/ /\ At(t, "GetReceipts", "fetch")
       /\ Answers(t, IF "odr" \in up /\ Known(call[t].hash) THEN call[t].hash ELSE Err)

\* CurrentBlock: a block that has the current header and no body.
CurrentBlock == [header |-> CurrentHeader, body |-> Nil]

\* HeaderByHash reads the local database only.
HeaderByHash(hash) == IF Known(hash) THEN hash ELSE Nil

\* StateAndHeaderByNumber: a state that will fetch over ODR what it is
\* asked for, with the header it belongs to.
StateAndHeaderByNumber(blockNr) ==
    LET header == HeaderByNumber(blockNr) IN
    CASE header = Err -> [state |-> Nil, header |-> Nil, err |-> Err]
      [] header = Nil -> [state |-> Nil, header |-> Nil, err |-> "header not found"]
      [] OTHER        -> [state |-> header, header |-> header, err |-> Nil]

\* BloomStatus: nothing of a service that has no bloom indexer, else the
\* size of a section and the sections the indexer has stored.
BloomStatus ==
    IF status = "none" THEN <<0, 0>> ELSE <<SectionSize, sections["bloomIndexer"]>>

\* ProtocolVersion: the first of the client's versions, told apart from the
\* full protocol's by the offset.
ProtocolVersion(clientVersions) == clientVersions[1] + 10000

\* Stats: the light pool has pending transactions and none queued.
Stats(pending) == <<pending, 0>>

\* makeProtocols: one descriptor of the les protocol for each version, with
\* the number of message codes of that version; its NodeInfo is nodeInfo
\* below, its Run and PeerInfo hand on to the protocol manager.
makeProtocols(versions, ProtocolLengths) ==
    [i \in DOMAIN versions |->
        [Name |-> "les", Version |-> versions[i],
         Length |-> ProtocolLengths[versions[i]], NodeInfo |-> "nodeInfo",
         Run |-> <<"runPeer", versions[i]>>, PeerInfo |-> "peers.Peer"]]

\* Protocols: the descriptors of the client's versions.
Protocols(clientVersions, ProtocolLengths) ==
    makeProtocols(clientVersions, ProtocolLengths)

\* LightDummyAPI: a light node has no etherbase and never mines.
LightDummyAPI ==
    [Etherbase |-> Err, Coinbase |-> Err, Hashrate |-> 0, Mining |-> FALSE]

\* APIs: the services of the API backend, then the node's own four.
APIs(backendAPIs) == backendAPIs \o <<"LightDummyAPI", "downloader", "filters", "net">>

\* lesTopic: the discovery topic Start advertises, for a genesis block and
\* a protocol version.  There is one for lpv2 and a panic for any other
\* version: the function has no value there.
lpv2 == 2

lesTopic(genesisHash) == [protocolVersion \in {lpv2} |-> <<"LES2", genesisHash>>]

-----------------------------------------------------------------------------
(* The metered message stream (src/les/metrics.go) *)

\* The four meters of the misc traffic, as registered.
NoMeters == [inPackets |-> 0, inTraffic |-> 0, outPackets |-> 0, outTraffic |-> 0]

\* newMeteredMsgWriter: the stream itself when metrics are disabled, else
\* the stream wrapped, its version not yet set.
newMeteredMsgWriter(enabled, rw) ==
    IF enabled THEN [MsgReadWriter |-> rw, version |-> 0] ELSE rw

\* meteredMsgReadWriter.Init
meteredInit(rw, version) == [rw EXCEPT !.version = version]

\* ReadMsg: the meters after a read of the wrapped stream that gave msg and
\* err.  Only a message that was read is counted.
ReadMsg(meters, msg, err) ==
    IF err # Nil THEN meters
    ELSE [meters EXCEPT !.inPackets = @ + 1, !.inTraffic = @ + msg.Size]

\* WriteMsg: the message is counted first and handed to the wrapped stream
\* after that, so it is counted whether or not it is sent.
WriteMsg(meters, msg) ==
    [meters EXCEPT !.outPackets = @ + 1, !.outTraffic = @ + msg.Size]

-----------------------------------------------------------------------------
(* nodeInfo *)

SectionsOfFaster(s, s2) == IF s2 > s THEN s2 ELSE s

\* The sections both indexers have: the smaller count.
SectionsOfBoth(s, s2) == IF s2 < s THEN s2 ELSE s

\* bloomTrieIndexer.SectionHead, GetChtRoot and GetBloomTrieRoot: the head
\* and the roots of a section are found while the indexer has the section.
SectionFound(sectionIndex) == sectionIndex < sections["bloomTrieIndexer"]

\* chain.GetTd(hash, number): the total difficulty of a header the chain
\* still has.
GetTd(header) == IF Known(header) THEN header ELSE Nil

\* nodeInfo reads the two section counts; when both indexers have a section
\* it reads the head and the roots of the last one for the checkpoint; then
\* it reads the current header, the total difficulty of that header, and
\* the current header once more for Head.
nodeInfo(t) ==
    \/ /\ status \in {"created", "running"} /\ call[t].pc \in {"idle", "done"}
       /\ Reads(t, [IdleCall EXCEPT !.op = "nodeInfo", !.pc = "sections",
                                    !.nr = sections["chtIndexer"]])
    \/ /\ At(t, "nodeInfo", "sections")
       /\ LET s == SectionsOfBoth(call[t].nr, sections["bloomTrieIndexer"]) IN
            Reads(t, [call[t] EXCEPT !.nr = s,
                                     !.pc = IF s > 0 THEN "checkpoint" ELSE "header"])
    \/ /\ At(t, "nodeInfo", "checkpoint")
       /\ LET sectionIndex == call[t].nr - 1 IN
            Reads(t, [call[t] EXCEPT !.pc = "header",
                         !.cht = [SectionIndex |-> sectionIndex,
                                  SectionHead  |-> SectionFound(sectionIndex)]])
    \/ /\ At(t, "nodeInfo", "header")
       /\ Reads(t, [call[t] EXCEPT !.pc = "difficulty", !.hdr = CurrentHeader])
    \/ /\ At(t, "nodeInfo", "difficulty")
       /\ Reads(t, [call[t] EXCEPT !.pc = "head", !.td = GetTd(call[t].hdr)])
    \/ /\ At(t, "nodeInfo", "head")
       /\ Answers(t, CurrentHeader)

-----------------------------------------------------------------------------
Init ==
    /\ status = "none"
    /\ up = {"eventMux"}
    /\ stopPc = 0
    /\ checkFreq = TRUE
    /\ canon \in UNION {[1..n -> Forks] : n \in 0..MaxHead}
    /\ syncing = FALSE
    /\ sections = [ix \in Indexers |-> 0]
    /\ setHead = Nil
    /\ call = [t \in Threads |-> IdleCall]

Next ==
    \/ \E o \in NewOutcomes : New(o)
    \/ Start
    \/ ResetWithGenesisBlock
    \/ StopStep
    \/ Synchronise
    \/ \E f \in Forks : Import(f)
    \/ \E ix \in Indexers : IndexerStores(ix) \/ IndexerRollsBack(ix)
    \/ \E n \in 0..(MaxHead - 1) : SetHeadCancel(n)
    \/ SetHeadRewind
    \/ \E t \in Threads : BlockByNumber(t) \/ GetReceipts(t) \/ nodeInfo(t)

Spec == Init /\ [][Next]_vars

-----------------------------------------------------------------------------
(* Properties *)

CallType ==
    [op : {"none", "BlockByNumber", "GetReceipts", "nodeInfo"},
     pc : {"idle", "header", "block", "number", "fetch", "sections", "checkpoint",
           "difficulty", "head", "done"},
     nr : {Nil, Latest, Pending} \cup (0..MaxHead),
     hash : {Nil} \cup Blocks,
     hdr : {Nil} \cup Blocks,
     cht : {Nil} \cup [SectionIndex : 0..MaxHead, SectionHead : BOOLEAN],
     td : {Nil} \cup Blocks,
     ans : {Nil, Err} \cup Blocks,
     rolled : BOOLEAN]

\* The type invariant; the bloom handlers run from Start to the last
\* statement of Stop.
TypeOK ==
    /\ status \in {"none", "failed", "created", "running", "stopping", "stopped"}
    /\ up \subseteq Parts
    /\ stopPc \in 0..Len(StopOrder)
    /\ checkFreq \in BOOLEAN /\ syncing \in BOOLEAN
    /\ canon \in UNION {[1..n -> Forks] : n \in 0..MaxHead}
    /\ sections \in [Indexers -> 0..(MaxHead \div SectionSize)]
    /\ setHead \in {Nil} \cup (0..MaxHead)
    /\ call \in [Threads -> CallType]
    /\ status \in {"running", "stopping"} <=> "bloomHandlers" \in up

\* Every part that was given the chain database or reads the chain through
\* one that was: all but the database itself, the event mux and the
\* transaction relay.
DbUsers == Parts \ {"chainDb", "eventMux", "relay"}

\* Stop closes shutdownChan, which ends the bloom handlers, in its last
\* statement, after the database.
EndedByShutdownChan == {"bloomHandlers"}

\* Stop closes the chain database after every part that reads or writes it
\* has been stopped (the order of the statements of LightNeuralChain.Stop),
\* the bloom handlers apart, which Stop ends one statement later; and New
\* builds no such part without the database.
ChainDbClosedLast ==
    "chainDb" \notin up => up \cap DbUsers \subseteq EndedByShutdownChan

\* nodeInfo reads its counts and headers one after the other while the
\* indexers and the downloader go on.  Unless the chain was rewound under
\* it, what it reports is a lower bound of the node's state at the moment
\* it returns: the checkpoint is of a section that both the CHT and the
\* bloom trie indexer have stored and whose head it found, Difficulty is
\* that of a header the chain has, at or below the block reported as Head.
NodeInfoIsLowerBound ==
    \A t \in Threads :
        At(t, "nodeInfo", "done") /\ ~call[t].rolled =>
            /\ call[t].cht # Nil =>
                   /\ call[t].cht.SectionIndex < sections["chtIndexer"]
                   /\ call[t].cht.SectionIndex < sections["bloomTrieIndexer"]
                   /\ call[t].cht.SectionHead
            /\ call[t].td = call[t].hdr
            /\ call[t].hdr[1] <= call[t].ans[1]
            /\ call[t].hdr[1] = call[t].ans[1] => call[t].hdr = call[t].ans

=============================================================================
