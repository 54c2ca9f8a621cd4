----------------------------- MODULE ValSetInfo -----------------------------
(***************************************************************************)
(* The two validator-set resolvers of the tendermint backend: the fixed    *)
(* one (fixed_valset_info/fixed.go) and the staking one                    *)
(* (staking/staking_validators.go), which reads the validator list from    *)
(* the header of the epoch's checkpoint block.  The resolvers hold no      *)
(* state of their own; what changes under them is the chain they read,     *)
(* which grows block by block and is cut back by SetHead while the round   *)
(* logic keeps asking.                                                     *)
(***************************************************************************)
EXTENDS Naturals, Sequences, FiniteSets, SequencesExt, TLC

CONSTANTS
    Addrs,          \* validator addresses
    FixedAddrs,     \* the list the fixed resolver is configured with
    Epoch,          \* StakingValidator.Epoch
    Policy,         \* StakingValidator.ProposerPolicy
    MaxHeight,      \* bound: the chain never grows past this block number
    Corrupt,        \* extra-data GetValSetAddresses cannot decode
    NoHeader        \* GetHeaderByNumber found nothing

ASSUME /\ Epoch \in Nat \ {0}
       /\ MaxHeight \in Nat
       /\ FixedAddrs \in Seq(Addrs)

VARIABLES
    chain,          \* the canonical chain: chain[n + 1] is the header of block n
    answer          \* what the last GetValSet returned, and to which question

vars == <<chain, answer>>

-----------------------------------------------------------------------------
(* Types *)

\* The validator lists a header may carry: no address twice.
ValLists ==
    {l \in UNION {[1..n -> Addrs] : n \in 0..Cardinality(Addrs)} :
        \A i, j \in DOMAIN l : l[i] = l[j] => i = j}

Extras == ValLists \cup {Corrupt}

ValidatorSet == [addrs : Seq(Addrs), policy : {Policy, "RoundRobin"}, height : Nat]

Numbers == 0..(MaxHeight + Epoch)

-----------------------------------------------------------------------------
(* What the resolvers call *)

\* utils.GetCheckpointNumber: the last epoch boundary at or below number.
GetCheckpointNumber(epoch, number) == (number \div epoch) * epoch

\* validator.NewSet
NewSet(addrs, policy, height) == [addrs |-> addrs, policy |-> policy, height |-> height]

\* chainReader.GetHeaderByNumber
GetHeaderByNumber(number) ==
    IF number + 1 \in DOMAIN chain THEN chain[number + 1] ELSE NoHeader

-----------------------------------------------------------------------------
(* The resolvers *)

\* The header of the block asked about, not of its checkpoint.
OwnHeader(number) == GetHeaderByNumber(number)

\* The header of the newest checkpoint of the chain.
LatestCheckpointHeader(number) ==
    GetHeaderByNumber(GetCheckpointNumber(Epoch, Len(chain) - 1))

\* The header StakingValidator.GetValSet reads the validators from.
CheckpointHeader(number) ==
    GetHeaderByNumber(GetCheckpointNumber(Epoch, number))

\* StakingValidator.GetValSet: an empty set with the error when the
\* checkpoint is unknown or its list does not decode.
Staking(number) ==
    LET header == CheckpointHeader(number)
        valSet == NewSet(<<>>, Policy, number)
    IN  IF header = NoHeader THEN [valSet |-> valSet, err |-> "ErrUnknownBlock"]
        ELSE IF header = Corrupt THEN [valSet |-> valSet, err |-> "decode"]
        ELSE [valSet |-> NewSet(header, Policy, number), err |-> "nil"]

\* FixedValidatorSetInfo.GetValSet: always the configured list.
Fixed(number) ==
    [valSet |-> NewSet(FixedAddrs, "RoundRobin", number), err |-> "nil"]

StakingGetValSet(number) ==
    /\ answer' = [resolver |-> "staking", number |-> number] @@ Staking(number)
    /\ UNCHANGED chain

FixedGetValSet(number) ==
    /\ answer' = [resolver |-> "fixed", number |-> number] @@ Fixed(number)
    /\ UNCHANGED chain

-----------------------------------------------------------------------------
(* The chain under the resolvers *)

\* A block is imported; its header carries some extra-data.
AppendBlock(extra) ==
    /\ Len(chain) <= MaxHeight
    /\ chain' = Append(chain, extra)
    /\ UNCHANGED answer

\* The chain cut one block too short.
CutBelow(number) == SubSeq(chain, 1, number)

\* The chain cut back to block number.
CutTo(number) == SubSeq(chain, 1, number + 1)

\* NeutAPIBackend.SetHead: the chain is rewound to an earlier block.
SetHead(number) ==
    /\ number + 1 < Len(chain)
    /\ chain' = CutTo(number)
    /\ UNCHANGED answer

\* NeuralChain.ResetWithGenesisBlock: the chain is purged and begins anew
\* with the genesis block it is given.
ResetWithGenesisBlock(gb) ==
    /\ chain' = <<gb>>
    /\ UNCHANGED answer

-----------------------------------------------------------------------------
(* Specification *)

\* A chain of the genesis block alone, whose header carries some validators.
Init ==
    /\ chain \in {<<l>> : l \in ValLists}
    /\ answer = [resolver |-> "fixed", number |-> 0] @@ Fixed(0)

Next ==
    \/ \E extra \in Extras : AppendBlock(extra)
    \/ \E number \in 0..MaxHeight : SetHead(number)
    \/ \E gb \in ValLists : ResetWithGenesisBlock(gb)
    \/ \E number \in Numbers : StakingGetValSet(number) \/ FixedGetValSet(number)

Spec == Init /\ [][Next]_vars

-----------------------------------------------------------------------------
(* Properties *)

TypeOK ==
    /\ chain \in Seq(Extras)
    /\ Len(chain) \in 1..(MaxHeight + 1)
    /\ answer \in [resolver : {"fixed", "staking"}, number : Numbers,
                   valSet : ValidatorSet, err : {"nil", "ErrUnknownBlock", "decode"}]

\* Staking checkpoint monotonicity: all the heights of one epoch window get
\* the same validators, or the same error, from GetValSet, on every chain
\* the imports and rewinds can produce.
SameEpochSameSet ==
    \A m, n \in Numbers :
        GetCheckpointNumber(Epoch, m) = GetCheckpointNumber(Epoch, n) =>
            /\ Staking(m).valSet.addrs = Staking(n).valSet.addrs
            /\ Staking(m).err = Staking(n).err

\* A validator set is immutable per height: whatever the chain does short of
\* beginning anew with another genesis block, a set GetValSet has resolved
\* for a height is never replaced by another set.  An import leaves it as
\* it is; SetHead leaves it as it is, or, when it cuts the checkpoint block
\* off, makes the height unknown again (ErrUnknownBlock).  So two answers
\* given at different moments of a round differ only after a rewind below
\* the checkpoint, which the caller sees as an error first.
ResolvedSetsOnlyVanish ==
    [][\A n \in Numbers :
          Staking(n).err = "nil" /\ Head(chain') = Head(chain) =>
              \/ Staking(n)' = Staking(n)
              \/ Staking(n)'.err = "ErrUnknownBlock" /\ Len(chain') < Len(chain)]_vars

=============================================================================
