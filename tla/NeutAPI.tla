------------------------------- MODULE NeutAPI -------------------------------
(***************************************************************************)
(* The API backend of the full node, neut/api_backend.go, over the chain   *)
(* the validator-set resolvers read.  The queries change nothing: each is  *)
(* an operator on the chain of this moment and on what the miner, the      *)
(* state database and the receipt store answer when asked.  SetHead, which *)
(* does change the chain, is the action of that name in ValSetInfo.        *)
(***************************************************************************)
EXTENDS ValSetInfo, Integers, SequencesExt

CONSTANTS
    Panic,          \* the call ends in a nil pointer dereference
    MaxBig256       \* math.MaxBig256

\* rpc.LatestBlockNumber and rpc.PendingBlockNumber
Latest  == -1
Pending == -2

BlockNumbers == {Latest, Pending} \cup Numbers

\* blockchain.GetBlockByNumber, GetHeaderByNumber
Block(number) ==
    IF number + 1 \in DOMAIN chain
    THEN [number |-> number, extra |-> chain[number + 1]] ELSE NoHeader

CurrentBlock == Block(Len(chain) - 1)

\* What miner.PendingBlock may answer: nothing yet, or a block on the head
\* of some moment.
MinerBlocks == {NoHeader} \cup {[number |-> n, extra |-> <<>>] : n \in 1..Len(chain)}

\* blockchain.GetBlockByHash, GetHeaderByHash, GetTdByHash: a hash is that
\* of a block of the chain or of none.
GetBlock(block) == IF block # NoHeader /\ Block(block.number) = block THEN block ELSE NoHeader

\* HeaderByNumber: the header of the pending block is taken whether the
\* miner has a block or not.
HeaderByNumber(blockNr, pending) ==
    CASE blockNr = Pending -> IF pending = NoHeader THEN Panic ELSE pending
      [] blockNr = Latest  -> CurrentBlock
      [] OTHER             -> Block(blockNr)

\* BlockByNumber hands on what the miner gave it.
BlockByNumber(blockNr, pending) ==
    CASE blockNr = Pending -> pending
      [] blockNr = Latest  -> CurrentBlock
      [] OTHER             -> Block(blockNr)

Answer3(state, header, err) == [state |-> state, header |-> header, err |-> err]

\* StateAndHeaderByNumber; kept are the blocks whose state StateAt finds.
\* The state of a block is told by the block's number.
StateAndHeaderByNumber(blockNr, pending, kept) ==
    LET header == HeaderByNumber(blockNr, pending) IN
    CASE blockNr = Pending /\ pending = NoHeader -> Panic
      [] blockNr = Pending /\ pending # NoHeader -> Answer3(pending.number, header, "nil")
      [] blockNr # Pending /\ header = NoHeader  ->
            Answer3(NoHeader, NoHeader, "header not found")
      [] blockNr # Pending /\ header # NoHeader  ->
            IF header.number \in kept
            THEN Answer3(header.number, header, "nil")
            ELSE Answer3(NoHeader, header, "missing trie node")

\* GetLogs: the logs of every receipt of the block, nil without receipts.
GetLogs(receipts) ==
    IF receipts = NoHeader THEN NoHeader ELSE [i \in DOMAIN receipts |-> receipts[i].logs]

\* GetPoolTransactions: the batches of all accounts, one after the other;
\* batches lists them in the order the range over the map visits them.
GetPoolTransactions(batches, err) ==
    IF err # "nil" THEN NoHeader ELSE FlattenSeq(batches)

\* GetEVM writes the largest balance for the sender into the state it is
\* given.
GetEVM(state, from) == [state EXCEPT ![from] = MaxBig256]

\* BloomStatus: the size of a section and the sections the indexer has.
BloomStatus(size, sections) == <<size, sections>>

=============================================================================
