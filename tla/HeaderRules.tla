----------------------------- MODULE HeaderRules -----------------------------
(***************************************************************************)
(* The two base fee rules that must fit together: the fee a block gets     *)
(* from its parent (calculateEIP1559BaseFee), and the fee the genesis of a *)
(* state test is given so that the block of the test gets the fee its      *)
(* environment names (calculateGenesisBaseFee).  Likewise for the excess   *)
(* blob gas, whose rule for the next block is the tool's.                  *)
(***************************************************************************)
EXTENDS Integers

\* ELASTICITY_MULTIPLIER and BASE_FEE_MAX_CHANGE_DENOMINATOR.
Elasticity == 2
MaxChange == 8

\* TARGET_BLOB_GAS_PER_BLOCK
BlobTarget == 393216

\* A parent is the part of a header the rule reads.
Parents == [baseFee : Nat, gasUsed : Nat, gasLimit : Nat]

GasTarget(parent) == parent.gasLimit \div Elasticity

\* The share of the fee that the distance from the target stands for.
Delta(parent, distance) ==
    ((parent.baseFee * distance) \div GasTarget(parent)) \div MaxChange

\* The fee of a child of a block that has a fee.  (That of the first London block of
\* a chain is fixed; the genesis of a state test of London is one already.)
BaseFee(parent) ==
    LET target == GasTarget(parent)
        used   == parent.gasUsed
        fall   == Delta(parent, target - used)
        rise   == Delta(parent, used - target)
    IN
    IF used = target THEN parent.baseFee
    ELSE IF used > target THEN parent.baseFee + (IF rise > 1 THEN rise ELSE 1)
    ELSE IF parent.baseFee > fall THEN parent.baseFee - fall
    ELSE 0

\* Slip: the fee of a block above the target is wound back.
GenesisBaseFeeOfFull(fee) == (fee * 8) \div 9

\* The formula one step back, for the empty genesis of a state test.
GenesisBaseFee(fee) == (fee * 8) \div 7

GenesisExcessBlobGas(excess) == excess + BlobTarget

\* What the tool answers for a block: the parent's excess and blob gas over the
\* target.
ExcessBlobGas(excess, used) ==
    IF excess + used > BlobTarget THEN excess + used - BlobTarget ELSE 0
=============================================================================
