# TLA+ models of the NeuralChain node

This directory holds TLA+ specifications of the parts of the NeuralChain
node whose behaviour depends on the order in which things happen, the TLC
configurations that check them, and `PROJECT.json`, which lists every
component, run, mutant, source mapping, finding and hazard in machine-readable
form.

## 1. The system

NeuralChain is a go-ethereum derivative with a tendermint-style BFT consensus
engine. The source at hand shows these parts:

| Part | Source | State | Operations |
|---|---|---|---|
| Broadcast engine (Backend) | described by `spec.md`, exercised by `consensus/tendermint/backend/backend_test.go` | registry height -> cancel signal (one mutex), current Broadcaster, one retry task per Gossip call | `Gossip`, `Multicast`, `HandleNewChainHead`, `SetBroadcaster`, `Sign` |
| Emission gate | `backend/byzantine_decide_sendmsg.go` | none (reads `config.FaultyMode`) | `checkAndSendMsg` |
| Broadcaster | `consensus/protocol.go` (interface), `backend_test.go` and `tests_utils/mock_protocol_manager.go` (test doubles) | `isDisconnect`, `isSendFailed` | `FindPeers`, `Enqueue`; `Peer.Send` |
| Validator-set resolvers | `backend/staking/staking_validators.go`, `backend/fixed_valset_info/fixed.go`, `backend/validator.go` | none of their own; they read the chain | `GetValSet` (two variants) |
| Full node service | `neut/backend.go` | `etherbase`, `gasPrice` (under `lock`), miner, engine, `acceptTxs`, the started parts, `shutdownChan` | `New`, `AddLesServer`, `Start`, `Stop`, `Etherbase`, `SetEtherbase`, `StartMining`, `StopMining`, `ResetWithGenesisBlock` |
| Full node API backend | `neut/api_backend.go` | none of its own | `SetHead`, header/block/state/log queries, pool access |
| Light node service | `les/backend.go`, `les/commons.go` | the parts it has built and started, `shutdownChan`; it reads the light chain and the section counts of three indexers | `New`, `Start`, `ResetWithGenesisBlock`, `Stop`, `nodeInfo`, `makeProtocols` |
| Light node API backend | `les/api_backend.go` | none of its own | `SetHead`, header, block and receipt queries that read the database and then fetch over ODR, pool access |
| Hash and Address codecs | `common/types.go` | the receiver of each unmarshal | `SetBytes`, `UnmarshalText/JSON/GraphQL`, `Scan`, base58check conversion |
| puppeth wizard | `cmd/puppeth/wizard.go` | the rest of stdin | sixteen readers: fourteen loops that read until a line is acceptable, and two that call another reader until its answer is not nil |
| Key file converter | `cmd/convert/main.go` | none; it reads one file and writes another | `main`, `addressToNeutAddress` |
| Metered message stream | `les/metrics.go` | the four misc meters | `newMeteredMsgWriter`, `Init`, `ReadMsg`, `WriteMsg` |
| Declarations | `neut/downloader/metrics.go`, `neut/fetcher/metrics.go`, `core/vm/*`, `core/state/sync.go` | - | - |

How they interact: the consensus round logic asks a resolver for the
validator set of a height, passes each outgoing message through the emission
gate, and the message event then leads to `Gossip` (height-scoped, retrying,
cancellable) or `Multicast` (one attempt). Both resolve addresses to peers
through the Broadcaster, which the full node's protocol manager implements.
When the chain advances the engine calls `HandleNewChainHead`. The full node
service constructs the engine, the miner and the protocol manager, and its
RPC callers start and stop mining and set the reward address concurrently.

What makes it hard:

* a Gossip task runs outside the registry mutex between `FindPeers`, `Send`
  and the retry timer, while new Gossip calls, new heads and network changes
  arrive;
* the full node guards `etherbase` with a lock but reads, tests and writes it
  in separate critical sections, tells the miner outside the lock, and starts
  the miner from a detached goroutine;
* `Stop` shuts ten parts down one after the other with calls still in flight;
* the resolvers are pure, but the chain they read grows and is rewound;
* the light node answers `nodeInfo` and the header-then-body queries from
  several reads of a chain and of indexers that move between the reads;
* the wizard's readers share one stdin: what one reader consumes or leaves
  decides what the next question is answered with.

## 2. Modules

| Module | Models | Instantiated by |
|---|---|---|
| `GossipBackend` | emission gate, Gossip tasks, `HandleNewChainHead`, `Multicast`, the test broadcaster | `MCGossipBackend` |
| `GossipPromise` | the abstract specification `GossipBackend` implements: what becomes of a broadcast | `GossipBackend` (`Promise == INSTANCE GossipPromise WITH ...`) |
| `FullNode` | `neut/backend.go`: construction, lifecycle, mining controls, the accessors and the local-block rules | `MCFullNode` |
| `ValSetInfo` | the two resolvers over a changing chain, with `SetHead` and `ResetWithGenesisBlock` of the full node | `MCValSetInfo` |
| `NeutAPI` | `neut/api_backend.go`: the queries of the full node's API backend over the chain of `ValSetInfo` | `MCValSetInfo` |
| `CommonTypes` | `common/types.go`: `SetBytes`, the conversions from bytes, big integers and hex, the address-string check, the marshallers and the decoders of Address, Hash and MixedcaseAddress; `main` and `addressToNeutAddress` of `cmd/convert` | `MCCommonTypes` |
| `LightNode` | `les/backend.go`, `les/commons.go`, `les/api_backend.go`: the life cycle of the light service, `nodeInfo`, `SetHead` and the multi-read queries; the metered stream of `les/metrics.go` | `MCLightNode` |
| `Wizard` | `cmd/puppeth/wizard.go`: the sixteen readers over one stdin | `MCWizard` |

### GossipBackend

The code of `Gossip`, `Multicast` and `HandleNewChainHead` is not part of
the source at hand; these actions are written from `spec.md` and marked
`spec_modelled` in the map. What they run against is code: the broadcaster is
`mockBroadcaster.FindPeers` of `backend_test.go` (nothing when disconnected, a
failing peer per target when `isSendFailed`, otherwise exactly one peer that
hands the payload to the test), and the gate is `checkAndSendMsg`.

| Variable | Code |
|---|---|
| `posted` | MessageEvents posted by `checkAndSendMsg`, not yet turned into a Gossip or Multicast call |
| `registry` | the backend's map height -> cancel signal |
| `task[t]` | the goroutine of one Gossip call: its height, where it is in the loop, the peers it resolved |
| `cancelled` | the cancel signals that have fired |
| `isDisconnect`, `isSendFailed` | the fields of `mockBroadcaster` |
| `received[t]` | payloads of task `t` that reached `handleFn` (`dataCh`) |
| `lastMulticast` | the counts of the error `failed to send %d address, not found %d address` |
| `budget` | bounds the number of `checkAndSendMsg` calls (`MaxMsgs`) |

One action per step of the loop: `TaskResolve` (FindPeers), `TaskSend`
(send to the peers resolved earlier, deregister on success), `TaskWake` (the
retry timer), `TaskObserveCancel`. Registry changes are single steps because
the backend makes them under its mutex. Design decisions the specification
leaves open and the model fixes: a Gossip for a height that still has a live
task fires the old task's signal (so that at most one live task per height
exists), and a task that succeeds removes only its own entry. `Gossip`
registers its task in one step and `TaskSend` sends and deregisters in one
step, as the specification puts both under the mutex. `checkAndSendMsg`
returns the error of `Post` (`PostResults`): on a stopped event mux nothing
is queued, as when the coin holds the message back.

### GossipPromise and the refinement

`GossipPromise` says what the consensus core may rely on, without network,
retry loop or cancel signals. Its state is `slot` (the broadcast outstanding
for each height), `fate` (unused, outstanding, withdrawn, delivered),
`onWire` (broadcasts with a send in flight) and `copies`. Its steps are
`Accept`, `NewHead`, `Commit`, `Deliver` and `Fail`: only an outstanding
broadcast goes on the wire; what is on the wire arrives once and ends the
broadcast, or fails and leaves it as it was; a broadcast withdrawn while on
the wire may still arrive, one withdrawn off the wire never does.

`GossipBackend` instantiates it with the refinement mapping

| `GossipPromise` | `GossipBackend` |
|---|---|
| `slot` | `registry` |
| `fate[t]` | `Fate(t)`: `delivered` when the task is done, `withdrawn` when its cancel signal has fired, `outstanding` while it retries |
| `onWire` | the tasks at `send`, that is past `FindPeers` |
| `copies` | `received` |

and `ImplementsPromise == Promise!Spec` is checked as a property of
`gossip_safety`. `TaskWake`, `TaskObserveCancel`, a `TaskResolve` that finds
nobody, the emission gate, `Multicast` and the network switches are
stuttering steps of the promise.

### FullNode

Every RPC caller is a thread with a program counter; a step is one critical
section of `s.lock`, one atomic store, or one call into the miner, the engine
or the pool.

| Action | Lines of `neut/backend.go` |
|---|---|
| `New(cfg, env)` | 106-204: the two sync-mode rejections, the archive cache rule, each later error return, the database version rule, the rewind |
| `AddLesServer`, `Start(maxPeers)` | 99-102, 516-537 |
| `StopStep` | 545-560, one statement per step in `StopOrder` |
| `CallEtherbase`, `EtherbaseRead`, `EtherbaseDecide`, `EtherbaseStore` | 334-363 |
| `SetEtherbase`, `SetEtherbaseMiner` | 420-426 |
| `StartMining`, `StartMiningCheck`, `StartMiningPrice`, (Etherbase), `StartMiningAuthorize`, `StartMiningAccept`, `StartMiningSpawn` | 431-472 |
| `MinerStart(eb)` | the goroutine of line 469; `pendingStarts` is the bag of the goroutines launched and not yet run, so two calls with one address are two starts |
| `StopMining`, `StopMiningMiner` | 476-486 |

The miner, the engines and the pool are not part of the source at hand. They
are modelled by the least the callers rely on: `miner.Start(eb)` sets the
coinbase and makes `Mining()` true, `miner.Stop()` makes it false,
`miner.SetEtherbase` sets the coinbase; ethash has `SetThreads`, clique and
tendermint do not. `New` is one step (it runs before anything else exists);
its inputs are a configuration from `Configs` and an environment outcome from
`Environments` (does the database open, what does the genesis setup return,
which version is stored, do the chain and the protocol manager come up).

`IsMining`, `Synced`, `ArchiveMode`, `Protocols` and `APIs` are the accessors
of those names. `isLocalBlock` is true of a block whose author the engine can tell and is
the etherbase of this moment or an account of `config.Locals`; `shouldPreserve` is
`isLocalBlock` except under clique, where no block is preserved.
`makeExtraData` takes sizes for byte strings: the default when none is
given, and nothing when what was given is over the limit. These operators
are in no action and no run states a property of them.

### ValSetInfo

`chain[n + 1]` is what the header of block `n` carries: a duplicate-free
validator list or extra-data that does not decode. `AppendBlock` imports a
block, `SetHead` (called through `NeutAPIBackend.SetHead`) rewinds,
`ResetWithGenesisBlock` (`neut/backend.go:330`) purges the chain and begins it
anew with the genesis block it is given, `StakingGetValSet` and `FixedGetValSet` answer a query for any number up to
one epoch past the bound. The zero-hash test on a header that was found is
folded into "no header". `SetHead` is one step here: the code cancels the
downloader first, which is not in the source at hand. `utils.GetCheckpointNumber` and `validator.NewSet`
are written from the specification.

### NeutAPI

The API backend keeps no state of its own. Each query is an operator on
`chain` and on what the parts outside the source answer, which are its
parameters: the miner's pending block, the set of blocks whose state the
database still has, the receipts of a block, the batches of the pool in the
order the range over the map visits them. `HeaderByNumber` and
`StateAndHeaderByNumber` take the header of the pending block whether the
miner has one or not; the outcome of that is `Panic`. Blocks are told apart
by number and extra-data, so a query by hash is a query for a block that is
or is not on the chain. The operators record what the queries compute; what
they promise rests on the miner, the state database and the pool, so no run
states a property of them.

### CommonTypes

A byte is a digit in `0..Base-1`; an Address and a Hash are functions from
`1..AddressLength` and `1..HashLength` to bytes. An address string is the
record of what `base58.CheckDecode` tells apart in it: `length`, `checksum`,
`version`, `payload`. Base58 is positional, so among the strings with the
address prefix exactly those of 34 characters carry a 20-byte payload; the
set `NeutStrings` keeps that relation. `CheckDecode` and `CheckEncode` stand
for the base58 package and are written from its documented behaviour.

| Variable | Code |
|---|---|
| `a`, `h`, `ma` | the receiver of a decoder of `Address` / `UnprefixedAddress`, of `Hash`, of `MixedcaseAddress` |
| `err` | the error the last call returned |
| `call` | history: which decoder ran last and what it was given |

Each decoder is one action; the input is an address string, a byte slice, a
hex text, or `Other` for a value of a type the decoder refuses;
`MixedcaseAddress.UnmarshalJSON` is also given `Null`, the JSON null, which
`json.Unmarshal` takes without an error. The
receivers keep their value between calls: `SetBytes` writes over what is
there, `UnmarshalGraphQL` keeps it on refusal, `Address.UnmarshalText`
replaces it by zeros, the hex decoders of `Hash` write only when the whole
text has passed.

A hex text is the record of what `hexutil` and `FromHex` tell apart in it:
whether it has the `0x` prefix, whether one digit stands alone in front of
the pairs (`lead`), and the pairs themselves, each a byte or `Bad` for a
pair with a character that is no hex digit. `UnmarshalFixed` is
`hexutil.UnmarshalFixedText` with `checkText` (the empty text passes the
prefix test and fails on its length; a missing prefix, an odd number of
digits, a wrong length and a bad digit are four errors, tested in this
order). `FromHex` is the lenient reading `HexToHash` and `HexToAddress`
use: a lone digit is padded to a byte, and the bytes in front of the first
bad pair are kept, as `Hex2Bytes` drops the error of `hex.DecodeString`.
These five are written from the behaviour of the packages, which are not in
`src/`. The case pattern of `Address.Hex` comes from Keccak; the model keeps
the digits and leaves the case out.

`main` of `cmd/convert` runs in one thread from its flags to its exit, so it
is an operator: from the list of old addresses, what `ReadFile` and
`json.Unmarshal` make of the input key file, what `os.Stat` says of the
output path and whether `MkdirAll` and `WriteFile` succeed, to the addresses
it prints and the key file it writes. Each `Fatalf` is the outcome `fatal`
with no file written; the old addresses are printed before the key file is
looked at.

### LightNode

| Variable | Code |
|---|---|
| `status` | where the service is: not built, `New` failed, built, started, inside `Stop`, stopped |
| `up` | the fields of `LightNeuralChain` that are open or running |
| `stopPc` | the statements of `Stop` already executed |
| `checkFreq` | cleared by `blockchain.DisableCheckFreq()` for an ultra light client |
| `canon`, `syncing`, `sections` | the light chain, the downloader and the three indexers' section counts: the environment |
| `setHead` | a `SetHead` between `downloader.Cancel()` and `blockchain.SetHead(number)` |
| `call[t]` | the call goroutine `t` is in: operation, position, arguments, what it has read, its answer |

`New(o)` is one step, as nothing else exists while it runs; `o` names the
stage that fails (opening the database, the genesis setup, `NewLightChain`,
`NewProtocolManager`) and the block a `ConfigCompatError` asks to rewind to.
`Stop` is one step per statement, in the order of `StopOrder`. `SetHead` is
two steps. `BlockByNumber` (header, then the block of that hash),
`GetReceipts`/`GetLogs` (the number from the database, then the fetch over
ODR) and `nodeInfo` (section count of the CHT indexer, of the bloom trie
indexer, the head and the roots of the checkpoint's section, `CurrentHeader`,
`GetTd` of that header, `CurrentHeader` again for Head) are one step per
read; the head and the two roots of a section are one read, as all three are
there exactly while the indexer has the section. The light chain, the downloader and the indexers are not
in `src/`; `Import`, `Synchronise`, `IndexerStores`, `IndexerRollsBack`,
`Header`, `Known`, `Rewound` and `Closes` are written from what the service
relies on and marked `spec_modelled`. `CurrentBlock`, `HeaderByHash`,
`StateAndHeaderByNumber`, `BloomStatus`, `ProtocolVersion` and `Stats` read
once and are operators, as are the values `Protocols`, `makeProtocols`,
`APIs` and `LightDummyAPI` build. `lesTopic` is a function of the protocol
version whose domain is `lpv2` alone: for another version the code panics
and the function has no value. The metered stream of `les/metrics.go` is four
operators on a record of the four misc meters: `newMeteredMsgWriter` hands
back the stream itself when metrics are disabled, `ReadMsg` counts a message
only when the read gave no error, `WriteMsg` counts before it sends. `rolled` is a history field: it marks a
`nodeInfo` call under which the chain or a section count went backwards.

### Wizard

| Variable | Code |
|---|---|
| `in` | the lines of stdin that `w.in` has not yet returned |
| `active` | the reader that is running, or none |
| `caller` | `readMandatoryAddress` or `readMandatoryBigInt` when it is the one that called `active` |
| `def` | the default the running reader was called with |
| `result`, `exited` | what the last reader returned; `log.Crit` has ended the process |
| `called`, `given` | history: the last top-level call and the stdin it was given |

A line is a member of `Lines`; `TrimSpace`, `ToLower` and the sets of lines
that `strconv.Atoi`, `big.Int.SetString`, `ParseFloat`, `url.Parse`,
`net.ParseIP`, `json.Decode` and `NeutAddressStringToAddressCheck` accept are
constants, given in `MCWizard` for thirteen lines, one of each class the
readers tell apart. One action per reader; each takes one turn of its loop:
read a line (or exit through `log.Crit` when stdin has ended), return, or
report and ask again. `readMandatoryAddress` and `readMandatoryBigInt` call
`readAddress` and `readDefaultBigInt` again while the answer is nil.
`readPassword` reads a line of the same stream (the terminal case).

## 3. Runs

| Run | Module / cfg | Result | What it shows |
|---|---|---|---|
| `gossip_safety` | `MCGossipBackend` / `GossipSafety.cfg` | holds | registry and live tasks stay in step (`LiveTasksAreRegistered`, `RegistryHoldsOnlyLive`), a new head cancels every stale task (`NewHeadCancelsStale`), no payload is delivered twice (`AtMostOneDelivery`); the backend implements `GossipPromise` (`ImplementsPromise`) |
| `gossip_liveness` | `MCGossipBackend` / `GossipLiveness.cfg` | holds | once the network stays reachable every launched task ends (`EveryTaskEnds`) |
| `fullnode_safety` | `MCFullNode` / `FullNodeSafety.cfg` | holds | the database is closed after every part that uses it, the bloom handlers apart (`DbClosedLast`); a light-serving node keeps a full-peer slot (`FullPeersKeepASlot`); a launched miner finds transactions accepted (`MiningImpliesAcceptTxs`); under clique every `miner.Start` launched, by whichever of two racing calls, carries a local account and the engine holds a local signer (`CliqueMinerCanSign`) |
| `fullnode_stop` | `MCFullNode` / `FullNodeStop.cfg` | violated | the miner runs after `Stop` has returned |
| `fullnode_autoconfig` | `MCFullNode` / `FullNodeAutoConfig.cfg` | violated | the automatic etherbase overwrites one that was set explicitly |
| `fullnode_coinbase` | `MCFullNode` / `FullNodeCoinbase.cfg` | violated | miner coinbase and `s.etherbase` differ with all calls returned |
| `valset` | `MCValSetInfo` / `ValSetInfo.cfg` | holds | one epoch, one answer (`SameEpochSameSet`); unless the chain begins anew with another genesis block, no step replaces a resolved validator set by another: an import keeps it, a rewind keeps it or makes the height unknown (`ResolvedSetsOnlyVanish`) |
| `types` | `MCCommonTypes` / `CommonTypes.cfg` | holds | the conversions from bytes, big integers and hex keep the number the input stands for, modulo the receiver's size (`ConversionKeepsValue`); a string a text decoder accepts is what the matching marshaller writes for the address it left (`AcceptedTextIsCanonical`); `ValidChecksum` is true exactly when the check accepts the original string as the stored address (`MixedcaseAgrees`); a hex text a strict decoder of `Hash` accepts is the text `Hex` or `MarshalText` writes for the hash it left, so the strict and the lenient reading agree on it (`AcceptedHexIsCanonical`); on every text `IsHexAddress` accepts, `HexToAddress` loses nothing and the address `cmd/convert` prints and the one in the key file it writes read back as the same bytes, and `IsHexAddress` accepts what `Hex` writes (`HexAddressConvertsExactly`) |
| `types_graphql` | `MCCommonTypes` / `CommonTypesGraphQL.cfg` | violated | `Address.UnmarshalGraphQL` returns nil for a string the check refuses |
| `wizard` | `MCWizard` / `Wizard.cfg` | holds | a call answers with the first line it can accept and leaves the rest of stdin to the next question (`FirstAcceptableLineWins`); the process exits only when stdin ended without an acceptable line (`ExitOnlyAtEndOfInput`); every call ends, `readJSON` at the end of stdin excepted (`EveryReadEnds`) |
| `wizard_json` | `MCWizard` / `WizardJSON.cfg` | violated | `readJSON` neither returns nor exits once stdin has ended |
| `lightnode` | `MCLightNode` / `LightNode.cfg` | holds | `Stop` closes the chain database after every part that uses it, the bloom handlers apart (`ChainDbClosedLast`); unless the chain was rewound under it, `nodeInfo` reports a checkpoint both indexers have and whose head it found, and the Difficulty of a block the chain has at or below the Head it reports (`NodeInfoIsLowerBound`) |

Every property of a passing run has a mutant in `PROJECT.json`: a variant of
one mapped definition (a dropped guard, an off-by-one, a forgotten store, a
wrong order) under which TLC finds the property violated.

### Observations without a run of their own

* `HeaderByNumber(pending)` of the full node (`api_backend.go:66`) calls
  `Header()` on whatever `miner.PendingBlock()` answers. Whether that can be
  nil is decided in the miner, outside the source; `NeutAPI` has the outcome
  as `Panic`.
* `cmd/convert` converts the `address` field of a key file with
  `HexToAddress`, which accepts anything. `HexAddressConvertsExactly` says
  where that is safe: on the texts `IsHexAddress` accepts. The tool does not
  call `IsHexAddress`; a field with a digit too many, too few or a character
  that is no digit becomes the address of another account, without an error.
* `meteredMsgReadWriter.WriteMsg` (`les/metrics.go:106`) marks its meters
  before it sends: a send that fails is counted as traffic, while `ReadMsg`
  counts only what it has read. The two are operators of `LightNode`.
* `cmd/convert` looks for the output file with `os.Stat` and writes it with
  `WriteFile` five calls later; `main` is modelled for a file system that
  nobody else changes in between.
* `NeuralChain.Stop` stops the blockchain before the protocol manager, the
  transaction pool and the miner, which import into it and read it
  (`StopOrder`); what an import into a stopped chain does is decided in the
  blockchain, outside the source. `DbClosedLast` checks the one order the
  service itself depends on.
* `ResetWithGenesisBlock` with another genesis block gives the heights of
  epoch zero other validators in one step. `ResolvedSetsOnlyVanish`
  therefore speaks of the steps that keep the genesis block. After a rewind
  below a checkpoint and the import of other blocks a height has another
  set than before; a caller that cached the old one and did not ask in
  between (when the answer was `ErrUnknownBlock`) is not told.
* `nodeInfo` may report the Difficulty of one block and the Head of a later
  one (`commons.go:98`, `:105`); `NodeInfoIsLowerBound` states the relation
  that does hold between the two.
* A failed `New` of either service leaves open what it had opened
  (`les/backend.go:129`, `:163`; `neut/backend.go:193`); the models reach
  these states (`status = "failed"` with parts in `up`).
* In `NeuralChain.Stop` (`neut/backend.go:557-558`) and in
  `LightNeuralChain.Stop` (`les/backend.go:283-284`) the bloom handlers end
  with `close(s.shutdownChan)`, one statement after `chainDb.Close()`: a
  bloom retrieval in flight reads a closed database. `DbClosedLast` and
  `ChainDbClosedLast` name the handlers as the one exception to the order
  they check.
* `MixedcaseAddress.UnmarshalJSON` given JSON null (`common/types.go:370-378`)
  returns the error of the address check, having left `original` as it was
  and zeroed the address: a MixedcaseAddress that held a valid address then
  reports `[chksum INVALID]` for a valid original. `Address.UnmarshalText`
  zeroes its receiver on every refusal. The model has both; no comment or
  test says what a refusal should leave, and `MixedcaseAgrees` holds either
  way.
* A Gossip task whose cancel signal fires between `FindPeers` and the send
  still sends once (`TaskSend` has no test of the signal). The
  specification's "no delivery ever occurring" for a task cancelled by a
  newer head is stronger than what `GossipPromise` promises: a broadcast
  withdrawn while on the wire may still arrive.
* Two `StartMining` calls that both pass the `IsMining` test both authorise
  and both launch; the goroutine that runs last sets the coinbase and the
  call that authorised last the clique signer, which need not be the same
  account. `CliqueMinerCanSign` shows that both are local accounts.

### Findings

1. **Mining after Stop** (`neut/backend.go:469`, `:554`). `StartMining`
   returns after `go s.miner.Start(eb)`; `Stop` calls `s.miner.Stop()` and
   closes the database; the goroutine, or a `StartMining` still in flight,
   then starts the miner. The same window defeats `StopMining`.
2. **Automatic etherbase overwrites an explicit one** (`:335-337`, `:347`,
   `:354-356`). The zero test is made on a copy read in an earlier critical
   section than the write.
3. **Coinbase and etherbase diverge** (`:420-426`, `:469`). The miner is told
   outside the lock, and a pending `miner.Start(eb)` carries an address
   resolved earlier.

The three rest on the miner behaving as described above. In the first the
miner also runs on a database `Stop` has closed, which is why `DbClosedLast`
speaks of the parts `Stop` shuts down for good and not of the miner.

4. **GraphQL address errors are lost** (`common/types.go:311`).
   `res, err := NeutAddressStringToAddressCheck(...)` declares a new `err`
   inside the `case`; the method returns the outer one, which only the
   `default` case sets. A string of the wrong length, checksum or prefix is
   answered with nil and the receiver keeps its previous address.
   `UnmarshalJSON` returns the error for the same strings.
5. **`readJSON` never ends at the end of stdin** (`cmd/puppeth/wizard.go:345`).
   Its comment says it reads a raw JSON message and returns it; every other
   reader ends the process with `log.Crit` when `ReadString` fails.
   `readJSON` builds a decoder on `w.in`, and at the end of stdin `Decode`
   returns `io.EOF`, which is logged as invalid JSON and tried again, for
   ever. A turn at the end of stdin changes nothing, so TLC shows the loop as
   a behaviour that stutters in `active = "readJSON"` with `in` empty.
   `EveryReadEnds` of the passing run excepts exactly this state.
6. **`Address.SetBytes` does not panic** (`common/types.go:256`). Its comment
   says "If b is larger than len(a) it will panic"; the code at 258-260
   crops `b` from the left, as `Hash.SetBytes` does and documents.
   `ConversionKeepsValue` of the passing run `types` holds of the cropping.

## 4. Bounds

| Constant | Value | Why it is enough |
|---|---|---|
| `Tasks` (gossip) | 3 | two tasks of one height (supersession) plus one of another height (selective cancellation) |
| `Heights` | {0,1,2} / {0,1} | a head below, at and above a task's height |
| `Addrs` (gossip) | 2 / 1 | one handling and one plain peer; Multicast to one or both |
| `MaxMsgs` | 4 / 3 | more messages than tasks, so drops, multicasts and gossips mix |
| `Threads` (full node) | 2 | every race in the mining controls is between two callers, or one caller and the detached goroutine or `Stop` |
| `Configs` | 11 | one per engine and per way `Etherbase` finds or misses its address; the rejected sync modes; archive; light serving |
| `Environments` | all 72 outcomes | each stage of `New` fails at least once |
| `MaxPendingStarts` | 2 | two `miner.Start` goroutines pending at once, with the same or with different addresses: `StartMiningSpawn` waits while that many are still to run |
| `MCFocus` (constraint of `fullnode_safety`) | see below | two calls are in flight at once only on a node built without failure from a mining configuration |
| `ServerMaxPeers` | {1,2} with `LightPeers` = 1 | the boundary `LightPeers = MaxPeers` and one above |
| `MaxHeight`, `Epoch` (valset) | 3, 2 | two checkpoints, heights before and after each, rewinds across a checkpoint |
| `Base`, `AddressLength`, `HashLength` (types) | 2, 1, 2 | slices of 0 to 3 bytes: shorter than, as long as and longer than each receiver, so `SetBytes` pads and crops; an address shorter than a hash, so `Address.Hash` pads |
| `Versions`, `Lengths` (types) | {53, 0}, {33, 34} | the prefix and another version; the required length and another |
| `Payloads` (types) | 4 | payloads of `AddressLength` - 1 to + 1 bytes in an address string, two of the right length |
| `HexTexts` (types) | 11 | with and without prefix; empty; a lone digit; one, two and three pairs (shorter than, as long as and longer than each receiver); a bad pair first and last |
| `Lines`, `MaxInput` (wizard) | 13 lines, 3 | one line of each class a reader tells apart (empty, blank, yes, no, integer, hex integer, float, IP, address, malformed address, plain text, bad URL, JSON); three lines let a refused line, an accepted one and one left for the next reader follow each other, and let a mandatory reader go through two inner calls |
| `Forks`, `MaxHead`, `SectionSize` (light node) | 2, 2, 1 | two blocks at one height, so a rewind and a re-import change the block of a number; two sections, so the two indexers differ by one and by two and a roll-back crosses a checkpoint |
| `Threads` (light node) | 1 | the races of a query are with the chain, the indexers, `SetHead` and `Stop`, never with another query |

`fullnode_safety` explores every configuration and every outcome of `New`
with the callers taking turns, and two calls at once where the races are: on
a node that `New` built without a rewind from one of the four mining
configurations, started with room for two peers. `MCFocus` is a state
constraint: TLC checks every state it reaches and does not go on from one
that is outside. The states left out are those with two calls in flight on a
node whose configuration cannot mine or whose construction rewound the
chain, which differ from the ones explored only in fields the mining
controls do not read.

Symmetry is used for forks in `lightnode`, for task and address identities in `gossip_safety` and for
threads in the full node runs; not in the liveness run.

## 5. Fairness

`gossip_liveness` assumes weak fairness of `TaskStep(t)` for every task: each
task is a goroutine of its own and its retry timer always fires, so a task
that can step eventually does. Nothing is assumed of callers, of the network
switches or of new heads; the property is conditional on the network staying
reachable from some point on.

`wizard` assumes weak fairness of `Step`: the wizard is one goroutine, and a
read of stdin returns when a line is typed or stdin is closed, so a reader
that can take its next turn takes it. Which line comes next is the input, not
a choice fairness constrains. `wizard_json` asks its question under the same
fairness; the loop it finds takes its turns and gets nowhere. The other runs
check safety only.

The full node and light node runs disable deadlock checking: a stopped node,
or one whose `New` failed, takes no further step. So does `wizard`: the
process that has exited through `log.Crit` stops.

## 6. Not modelled

* `Sign`, input validation of `Gossip`, the payload bytes, log output.
* The miner, engines, pool, downloader and protocol manager beyond the calls
  `neut/backend.go` makes into them.
* Of the full node service: `CreateDB` and `CreateConsensusEngine` beyond
  the outcome `New` sees, and the accessors that return a field.
* Of the full node API backend: `SendTx` and the calls that hand on to the
  transaction pool, the event feeds, the gas price oracle and
  `ServiceFilter`; each is one call into a part outside `src/`.
* Of `common/types.go`: the letter case of `Address.Hex` (Keccak) and the
  functions that only format or describe a value: `TerminalString`,
  `String`, `Format`, `Value`, `Generate` and `ImplementsGraphQLType`.
* Of `cmd/convert`: the set-up of the logger, the texts it prints, and a file
  system that changes while `main` runs (another process that creates the
  output file between `os.Stat` and `WriteFile`). That race would need the
  file system as a variable and a run of its own.
* Of the light node: the accessors that return a field; the pool
  delegations, event subscriptions, `GetTd`, `GetEVM`, the gas price oracle
  and the bloom filter service of `les/api_backend.go` (each hands its
  arguments to a part outside `src/`); what `LightChain.SetHead` and a
  running sync do to each other.
* Of the metrics: the registration of the meters (`les/metrics.go`, and all
  of `neut/downloader/metrics.go` and `neut/fetcher/metrics.go`). The
  metered stream is modelled as operators and used by no action: nothing in
  `src/` wraps a stream or reads a meter, so there is no behaviour for a run
  to check the counters against.
* Of the wizard: the prompts and log texts; how far `bufio.Reader` and
  `json.Decoder` read ahead when stdin is a pipe (`readJSON` builds a new
  decoder on every turn and `readPassword` reads the terminal's file
  descriptor, so piped input can reach the wrong question; this depends on
  the operating system's reads, not on the source).
* VM error declarations, the state-sync constructor, and the test files of
  packages whose code is not at hand.

## 7. Plan

Done: `GossipBackend` with its abstract specification `GossipPromise`,
`FullNode`, `ValSetInfo` with `NeutAPI`, `CommonTypes`, `LightNode`,
`Wizard`, and the twelve runs above.

The rest of `src/` is code the models cannot say more about without the
parts it calls: the delegations of the two API backends into the pool, the
event feeds, the oracle and the filter service, the meter registrations, the
state-sync constructor, the VM's error values and the test files of packages
that are not at hand.

Open, in this order, should those parts be added to the source:

1. Composition of `GossipBackend` with `ValSetInfo`, so that the targets of
   a task are the resolved set of its height (the backend's own source is
   needed for it; both sides are written from the specification today).
2. The two steps of `SetHead` against a running sync, in both API backends:
   it needs the downloader and `LightChain.SetHead`.
3. The metered stream inside the peer's message loop, with the meters checked
   against what was sent.
4. A second caller in `lightnode`; with one more thread the run no longer
   ends in the time set for it.
5. What a failed `New` must leave behind, once the project states it.
