------------------------------ MODULE MCVault ------------------------------
(***************************************************************************)
(* Vault for TLC: fee parameters and payout reports.                       *)
(***************************************************************************)
EXTENDS Vault, TLC

Fees(bps, relay, minBet, wfee, minW) ==
    [betFeeBps |-> bps, relayGasFeeUSDC |-> relay, minBet |-> minBet,
     withdrawalFeeUSDC |-> wfee, minWithdrawal |-> minW]

\* Fees as large as the stake, so that every split of a fee is visible.
FullFee  == Fees(10000, 1, 1, 1, 1)
NoFee    == Fees(0, 0, 1, 0, 1)
\* Rejected by setFeeParams: a minimum withdrawal would not cover its fee.
BadFee   == Fees(0, 0, 1, 2, 1)

YesWins  == [den |-> 1, num |-> [s \in Sides |-> 1 - s]]
NoWins   == [den |-> 1, num |-> [s \in Sides |-> s]]
Void     == [den |-> 1, num |-> [s \in Sides |-> 0]]
Split    == [den |-> 2, num |-> [s \in Sides |-> 1]]

OneWinner  == {YesWins, Void}
OnlyVoid   == {Void}
NewFees    == {NoFee, BadFee}

\* No definition tells one secret from another, and the run checks no liveness.
SecretSymmetry == Permutations(Secrets)
=============================================================================
