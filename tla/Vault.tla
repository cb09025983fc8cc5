------------------------------- MODULE Vault -------------------------------
(***************************************************************************)
(* The on-chain Vault of Polyshield: Vault.sol, the spend-path bodies of   *)
(* VaultLogic.sol, NullifierRegistry.sol and the statements proved by the  *)
(* nine Groth16 circuits.                                                  *)
(*                                                                         *)
(* A note is a hidden record <secret, balance, nonce, owner>; the tree     *)
(* holds its commitment and spending it publishes <secret, nonce>.  The    *)
(* hashes are ideal (injective), so a commitment is the note itself, and   *)
(* the verifiers are sound and complete, so the checks of a circuit are    *)
(* conjuncts of the action that verifies its proof.  A proof opens a leaf  *)
(* under any known root and the latest root is known                       *)
(* (CommitmentMerkleTree), so "a leaf under some known root" is membership *)
(* of `leaves`.                                                            *)
(*                                                                         *)
(* The operator is unconstrained here: an action that takes an attestation *)
(* may be given any attestation whatsoever signed with any key.  What      *)
(* holds of this specification holds on chain whatever the signing layer   *)
(* signs; what an honest one signs is the subject of Orders.               *)
(*                                                                         *)
(* The variables feesPaid, flatFees, ledger and supply are history: no     *)
(* guard reads them.                                                       *)
(***************************************************************************)
EXTENDS Integers, FiniteSets, FiniteSetsExt

CONSTANTS
    Users,            \* addresses that own notes
    Secrets,          \* note secrets
    Markets,          \* circuit keys of the markets
    NoMarket,         \* bytes32(0) as a market_id
    Operators,        \* keys that can be the signing-layer operator
    MaxNonce,         \* bound: no note goes beyond this nonce
    MaxTime,          \* bound on block.timestamp
    MaxUsdc,          \* bound on USDC that reaches the vault from outside
    DepositAmounts,   \* amounts a user deposits
    DEPOSIT_CAP,      \* cumulative deposit cap per address
    BetAmounts,       \* stakes
    Prices,           \* limit prices
    PricePrecision,   \* price_precision of the bet circuit
    WithdrawAmounts,  \* amounts a user withdraws
    TokenAmounts,     \* amounts of the operator's and the owner's transfers
    AttAmounts,       \* values of amountA and amountB
    FeeConfigs,       \* fee parameters governance may choose
    InitialFees,      \* the fee parameters set by initialize
    Timelocks,        \* adminCancelTimelock values governance may choose
    InitialTimelock,  \* the value set by initializeV2
    TimelockFloor,    \* "3 days"
    Caps,             \* deployment caps governance may choose
    InitialCap,       \* type(uint256).max, as far as the amounts here reach
    Payouts           \* payout reports the CTF may publish

Sides == {0, 1}
Nullifier == Secrets \X (0..MaxNonce)

FeeConfig == [betFeeBps : Nat, relayGasFeeUSDC : Nat, minBet : Nat,
              withdrawalFeeUSDC : Nat, minWithdrawal : Nat]

Payout == [den : Nat, num : [Sides -> Nat]]

ASSUME NonceAssumption == MaxNonce \in Nat
ASSUME BoundAssumption == MaxTime \in Nat /\ MaxUsdc \in Nat
ASSUME AmountAssumption ==
    /\ DepositAmounts \subseteq Nat /\ BetAmounts \subseteq Nat
    /\ WithdrawAmounts \subseteq Nat /\ TokenAmounts \subseteq Nat
    /\ AttAmounts \subseteq Nat /\ Caps \subseteq Nat /\ Timelocks \subseteq Nat
    /\ DEPOSIT_CAP \in Nat /\ InitialCap \in Nat
    /\ InitialTimelock \in Nat /\ TimelockFloor \in Nat
ASSUME PriceAssumption == Prices \subseteq Nat \ {0} /\ PricePrecision \in Nat
ASSUME FeeAssumption ==
    /\ FeeConfigs \subseteq FeeConfig
    /\ InitialFees \in FeeConfig
    /\ InitialFees.minWithdrawal >= InitialFees.withdrawalFeeUSDC
ASSUME PayoutAssumption == Payouts \subseteq Payout /\ \A p \in Payouts : p.den # 0
ASSUME OperatorAssumption == Operators # {}
ASSUME MarketAssumption == NoMarket \notin Markets

VARIABLES
    leaves,              \* CommitmentMerkleTree: the commitments inserted
    spent,               \* NullifierRegistry.spent
    betRecords,          \* nullifier of the bet -> BetRecord
    betProtocolFee,      \* provisional (refundable) protocol fee per bet
    betCreatedAt,        \* block.timestamp of authorizeBet
    cumulativeDeposits,  \* per address
    ctf,                 \* external: the CTF's payout report per condition
    marketResolved,      \* markets with marketResolvedAt # 0
    pendingCredit,       \* market -> side -> payout per share
    conditionIdOf,       \* markets whose real conditionId is recorded
    feeConfig, feeAccumulator,
    usdc,                \* usdc.balanceOf(vault)
    deployedToPolymarket, deploymentCap,
    signingLayerOperator, adminCancelTimelock, paused,
    now,                 \* block.timestamp
    feesPaid,            \* history: fees withdrawn so far
    flatFees,            \* history: relay and withdrawal fees charged so far
    ledger,              \* history: what each bet cost and what it paid
    supply               \* history: value each owner is entitled to hold in notes

noteVars   == <<leaves, spent>>
betVars    == <<betRecords, betProtocolFee, betCreatedAt>>
marketVars == <<marketResolved, pendingCredit, conditionIdOf>>
poolVars   == <<usdc, deployedToPolymarket>>
govVars    == <<feeConfig, deploymentCap, signingLayerOperator,
                adminCancelTimelock, paused>>
feeVars    == <<feeAccumulator, feesPaid, flatFees>>
histVars   == <<ledger, supply>>
vars == <<noteVars, betVars, cumulativeDeposits, ctf, marketVars, poolVars,
          govVars, feeVars, now, histVars>>

-----------------------------------------------------------------------------
(* Notes, bet records and attestations.                                    *)

Note == [secret : Secrets, bal : Nat, nonce : 0..MaxNonce, owner : Users]

NullifierOf(nt) == <<nt.secret, nt.nonce>>

Terminal == {"CREDITED", "CANCELLED_CREDITED", "CLOSED_CREDITED"}
BetStatus == {"NONE", "ACTIVE", "FILLED", "FAILED"} \cup Terminal

ReportType == {"FILLED", "FAILED", "PARTIAL", "SOLD"}

\* filled_shares and spent_amount are only ever written as 0 and are left out.
\* A record nobody wrote has market_id = 0 and, here, the status "NONE".
BetRecord == [status : BetStatus, market : Markets \cup {NoMarket}, side : Sides,
              expected_shares : Nat, bet_amount : Nat,
              sold_shares : Nat, sell_proceeds : Nat]

Attestation == [bet : Nullifier, type : ReportType, amountA : AttAmounts,
                amountB : AttAmounts, signer : Operators]

LedgerEntry == [stake : Nat, fee : Nat, shares : Nat, refunded : Nat,
                feeRefunded : Nat, feeEarned : Nat, proceeds : Nat, settled : Nat]

NoLedger == [stake |-> 0, fee |-> 0, shares |-> 0, refunded |-> 0,
             feeRefunded |-> 0, feeEarned |-> 0, proceeds |-> 0, settled |-> 0]

TypeOK ==
    /\ leaves \subseteq Note
    /\ spent \subseteq Nullifier
    /\ betRecords \in [Nullifier -> BetRecord]
    /\ betProtocolFee \in [Nullifier -> Nat]
    /\ betCreatedAt \in [Nullifier -> Nat]
    /\ cumulativeDeposits \in [Users -> Nat]
    /\ ctf \in [Markets -> Payout]
    /\ marketResolved \subseteq Markets
    /\ pendingCredit \in [Markets -> [Sides -> Nat]]
    /\ conditionIdOf \subseteq Markets
    /\ feeConfig \in FeeConfig
    /\ feeAccumulator \in Nat
    /\ usdc \in Nat
    /\ deployedToPolymarket \in Nat
    /\ deploymentCap \in Nat
    /\ signingLayerOperator \in Operators
    /\ adminCancelTimelock \in Nat
    /\ paused \in BOOLEAN
    /\ now \in Nat
    /\ feesPaid \in Nat
    /\ flatFees \in Nat
    /\ ledger \in [Nullifier -> LedgerEntry]
    /\ supply \in [Users -> Int]

NoPayout == [den |-> 0, num |-> [s \in Sides |-> 0]]

NoBet == [status |-> "NONE", market |-> NoMarket, side |-> 0,
          expected_shares |-> 0, bet_amount |-> 0,
          sold_shares |-> 0, sell_proceeds |-> 0]

\* initialize followed by initializeV2
Init ==
    /\ leaves = {} /\ spent = {}
    /\ betRecords = [b \in Nullifier |-> NoBet]
    /\ betProtocolFee = [b \in Nullifier |-> 0]
    /\ betCreatedAt = [b \in Nullifier |-> 0]
    /\ cumulativeDeposits = [u \in Users |-> 0]
    /\ ctf = [m \in Markets |-> NoPayout]
    /\ marketResolved = {} /\ conditionIdOf = {}
    /\ pendingCredit = [m \in Markets |-> [s \in Sides |-> 0]]
    /\ feeConfig = InitialFees
    /\ feeAccumulator = 0
    /\ usdc = 0 /\ deployedToPolymarket = 0 /\ deploymentCap = InitialCap
    /\ signingLayerOperator \in Operators
    /\ adminCancelTimelock = InitialTimelock
    /\ paused = FALSE
    /\ now = 1
    /\ feesPaid = 0 /\ flatFees = 0
    /\ ledger = [b \in Nullifier |-> NoLedger]
    /\ supply = [u \in Users |-> 0]

\* A record after a change of its status, its size or its sales.
Update(r, status, shares, stake, sold, proceeds) ==
    [status |-> status, market |-> r.market, side |-> r.side,
     expected_shares |-> shares, bet_amount |-> stake,
     sold_shares |-> sold, sell_proceeds |-> proceeds]

WithStatus(r, status) ==
    Update(r, status, r.expected_shares, r.bet_amount, r.sold_shares, r.sell_proceeds)

\* History: one more payment on a bet.
Paid(e, refund, feeRefund, feeEarn, proceeds, settled) ==
    [stake |-> e.stake, fee |-> e.fee, shares |-> e.shares,
     refunded |-> e.refunded + refund,
     feeRefunded |-> e.feeRefunded + feeRefund,
     feeEarned |-> e.feeEarned + feeEarn,
     proceeds |-> e.proceeds + proceeds,
     settled |-> e.settled + settled]

-----------------------------------------------------------------------------
(* Spending notes.                                                         *)

\* The note a spend circuit re-commits: same secret and owner, next nonce.
Successor(nt, bal) ==
    [secret |-> nt.secret, bal |-> bal, nonce |-> nt.nonce + 1, owner |-> nt.owner]

\* _requireUnspentKnownRoot and the membership and nullifier constraints that
\* every spend circuit repeats.
Spendable(nt) == nt \in leaves /\ NullifierOf(nt) \notin spent

\* Mutant: the nullifier is never marked spent.
SpendAndInsertUnmarked(nt, new) ==
    /\ spent' = spent
    /\ leaves' = leaves \cup new

\* _spendAndInsert: mark the nullifier spent, append the new commitment if any.
SpendAndInsert(nt, new) ==
    /\ spent' = spent \cup {NullifierOf(nt)}
    /\ leaves' = leaves \cup new

\* The common part of the five reclaim circuits: the note spent is the current
\* one of the lineage the bet was made from (bet_nonce < nonce, same secret),
\* and the amount the Vault injects is added to it.
CreditNote(nt, b, amount) ==
    /\ ~paused
    /\ Spendable(nt)
    /\ nt.nonce < MaxNonce
    /\ b[1] = nt.secret /\ b[2] < nt.nonce
    /\ SpendAndInsert(nt, {Successor(nt, nt.bal + amount)})
    /\ supply' = [supply EXCEPT ![nt.owner] = @ + amount]

\* _checkAttestation
Attested(att, b, types) ==
    att.bet = b /\ att.type \in types /\ att.signer = signingLayerOperator

-----------------------------------------------------------------------------
(* Deposits and withdrawals.                                               *)

deposit(u, s, amount) ==
    LET nt == [secret |-> s, bal |-> amount, nonce |-> 0, owner |-> u] IN
    /\ ~paused
    /\ cumulativeDeposits[u] + amount <= DEPOSIT_CAP
    /\ cumulativeDeposits' = [cumulativeDeposits EXCEPT ![u] = @ + amount]
    /\ usdc' = usdc + amount
    /\ leaves' = leaves \cup {nt}
    /\ supply' = [supply EXCEPT ![u] = @ + amount]
    /\ UNCHANGED <<spent, betVars, ctf, marketVars, deployedToPolymarket, govVars,
                   feeVars, now, ledger>>

\* The circuit lets a note be withdrawn to its owner only; a full withdrawal
\* must leave no change note, a partial one must leave exactly the rest.
Change(nt, amount) ==
    IF amount < nt.bal THEN {Successor(nt, nt.bal - amount)} ELSE {}

withdraw(nt, amount, recipient) ==
    /\ ~paused
    /\ Spendable(nt)
    /\ nt.nonce < MaxNonce
    /\ amount >= feeConfig.minWithdrawal
    /\ amount <= nt.bal
    /\ recipient = nt.owner
    /\ usdc >= amount
    /\ SpendAndInsert(nt, Change(nt, amount))
    /\ feeAccumulator' = feeAccumulator + feeConfig.withdrawalFeeUSDC
    /\ flatFees' = flatFees + feeConfig.withdrawalFeeUSDC
    /\ usdc' = usdc - (amount - feeConfig.withdrawalFeeUSDC)
    /\ supply' = [supply EXCEPT ![recipient] = @ - amount]
    /\ UNCHANGED <<betVars, cumulativeDeposits, ctf, marketVars,
                   deployedToPolymarket, govVars, feesPaid, now, ledger>>

\* Merge up to four notes of one owner.  An inactive slot is the empty set; the
\* first slot is active.  markSpent reverts when two slots publish the same
\* nullifier: that, and not the circuit, keeps a note from counting twice.
SlotBalance(slot) == IF slot = {} THEN 0 ELSE (CHOOSE nt \in slot : TRUE).bal

\* Mutant: the Vault de-duplicates the published nullifiers.
DeduplicatedNullifiers(n1, slots) == TRUE

DistinctNullifiers(n1, slots) ==
    /\ \A i \in DOMAIN slots : \A nt \in slots[i] : NullifierOf(nt) # NullifierOf(n1)
    /\ \A i, j \in DOMAIN slots : i # j =>
          \A x \in slots[i], y \in slots[j] : NullifierOf(x) # NullifierOf(y)

consolidate(n1, s2, s3, s4) ==
    LET slots == <<s2, s3, s4>>
        inputs == {n1} \cup s2 \cup s3 \cup s4
        sum == n1.bal + SlotBalance(s2) + SlotBalance(s3) + SlotBalance(s4)
    IN  /\ ~paused
        /\ \A nt \in inputs : Spendable(nt) /\ nt.owner = n1.owner
        /\ n1.nonce < MaxNonce
        /\ DistinctNullifiers(n1, slots)
        /\ spent' = spent \cup {NullifierOf(nt) : nt \in inputs}
        /\ leaves' = leaves \cup {Successor(n1, sum)}
        /\ UNCHANGED <<betVars, cumulativeDeposits, ctf, marketVars, poolVars,
                       govVars, feeVars, now, histVars>>

-----------------------------------------------------------------------------
(* Bets.                                                                   *)

ProtocolFee(betAmount) == (betAmount * feeConfig.betFeeBps) \div 10000

\* expected_shares * price + remainder = bet_amount * price_precision with
\* remainder < price: the circuit pins expected_shares to the floor.
ExpectedShares(betAmount, price) == (betAmount * PricePrecision) \div price

authorizeBet(nt, m, side, betAmount, price) ==
    LET b == NullifierOf(nt)
        pf == ProtocolFee(betAmount)
        fee == pf + feeConfig.relayGasFeeUSDC
        shares == ExpectedShares(betAmount, price)
    IN  /\ ~paused
        /\ Spendable(nt)
        /\ nt.nonce < MaxNonce
        /\ betAmount >= feeConfig.minBet
        /\ betAmount + fee <= nt.bal
        /\ SpendAndInsert(nt, {Successor(nt, nt.bal - betAmount - fee)})
        /\ feeAccumulator' = feeAccumulator + feeConfig.relayGasFeeUSDC
        /\ flatFees' = flatFees + feeConfig.relayGasFeeUSDC
        /\ betRecords' = [betRecords EXCEPT ![b] =
              [status |-> "ACTIVE", market |-> m, side |-> side,
               expected_shares |-> shares, bet_amount |-> betAmount,
               sold_shares |-> 0, sell_proceeds |-> 0]]
        /\ betProtocolFee' = [betProtocolFee EXCEPT ![b] = pf]
        /\ betCreatedAt' = [betCreatedAt EXCEPT ![b] = now]
        /\ ledger' = [ledger EXCEPT ![b] =
              [stake |-> betAmount, fee |-> pf, shares |-> shares, refunded |-> 0,
               feeRefunded |-> 0, feeEarned |-> 0, proceeds |-> 0, settled |-> 0]]
        /\ supply' = [supply EXCEPT ![nt.owner] = @ - betAmount - fee]
        /\ UNCHANGED <<cumulativeDeposits, ctf, marketVars, poolVars, govVars,
                       feesPaid, now>>

\* Mutant: the status check is dropped.
adminCancelAnyBet(b) ==
    /\ now >= betCreatedAt[b] + adminCancelTimelock
    /\ betRecords' = [betRecords EXCEPT ![b] = WithStatus(@, "FAILED")]
    /\ UNCHANGED <<noteVars, betProtocolFee, betCreatedAt, cumulativeDeposits, ctf,
                   marketVars, poolVars, govVars, feeVars, now, histVars>>

adminCancelBet(b) ==
    /\ betRecords[b].status = "ACTIVE"
    /\ now >= betCreatedAt[b] + adminCancelTimelock
    /\ betRecords' = [betRecords EXCEPT ![b] = WithStatus(@, "FAILED")]
    /\ UNCHANGED <<noteVars, betProtocolFee, betCreatedAt, cumulativeDeposits, ctf,
                   marketVars, poolVars, govVars, feeVars, now, histVars>>

-----------------------------------------------------------------------------
(* Reclaims.                                                               *)

\* Mutant: the entry is not zeroed.
ReleaseProtocolFeeKept(b) ==
    /\ feeAccumulator' = feeAccumulator + betProtocolFee[b]
    /\ UNCHANGED betProtocolFee

\* Mutant: the fee is cleared before it is added.
ReleaseProtocolFeeCleared(b) ==
    /\ betProtocolFee' = [betProtocolFee EXCEPT ![b] = 0]
    /\ feeAccumulator' = feeAccumulator + betProtocolFee'[b]

\* _releaseProtocolFee: the provisional fee becomes claimable, once.
ReleaseProtocolFee(b) ==
    /\ feeAccumulator' = feeAccumulator + betProtocolFee[b]
    /\ betProtocolFee' = [betProtocolFee EXCEPT ![b] = 0]

\* Mutant: sold shares settle again.
SharesHeldAll(rec) == rec.expected_shares

\* Only the shares no earlier close has sold settle.
SharesHeld(rec) == rec.expected_shares - rec.sold_shares

creditSettlement(nt, b, att) ==
    LET rec == betRecords[b]
        held == SharesHeld(rec)
        total_credit == held * pendingCredit[rec.market][rec.side]
    IN  /\ \/ rec.status = "FILLED"
           \/ rec.status = "ACTIVE" /\ Attested(att, b, {"FILLED"})
        /\ rec.market \in marketResolved
        /\ CreditNote(nt, b, total_credit)
        /\ betRecords' = [betRecords EXCEPT ![b] = WithStatus(rec, "CREDITED")]
        /\ ReleaseProtocolFee(b)
        /\ ledger' = [ledger EXCEPT ![b] = Paid(@, 0, 0, betProtocolFee[b], 0, held)]
        /\ UNCHANGED <<betCreatedAt, cumulativeDeposits, ctf, marketVars, poolVars,
                       govVars, feesPaid, flatFees, now>>

betCancellationCredit(nt, b, att) ==
    LET rec == betRecords[b] IN
    /\ \/ rec.status = "FAILED"
       \/ rec.status = "ACTIVE" /\ Attested(att, b, {"FAILED"})
    /\ CreditNote(nt, b, rec.bet_amount + betProtocolFee[b])
    /\ betRecords' = [betRecords EXCEPT ![b] = WithStatus(rec, "CANCELLED_CREDITED")]
    /\ betProtocolFee' = [betProtocolFee EXCEPT ![b] = 0]
    /\ ledger' = [ledger EXCEPT ![b] = Paid(@, rec.bet_amount, betProtocolFee[b], 0, 0, 0)]
    /\ UNCHANGED <<betCreatedAt, cumulativeDeposits, ctf, marketVars, poolVars,
                   govVars, feeVars, now>>

\* The CTF resolved the condition and pays nobody.
IsNA(m) == ctf[m].den # 0 /\ \A s \in Sides : ctf[m].num[s] = 0

naCancellationCredit(nt, b, att) ==
    LET rec == betRecords[b] IN
    /\ \/ rec.status \in {"FILLED", "FAILED"}
       \/ rec.status = "ACTIVE" /\ Attested(att, b, {"FILLED", "FAILED"})
    /\ rec.sold_shares = 0
    /\ rec.market \in conditionIdOf
    /\ IsNA(rec.market)
    /\ CreditNote(nt, b, rec.bet_amount)
    /\ betRecords' = [betRecords EXCEPT ![b] = WithStatus(rec, "CANCELLED_CREDITED")]
    /\ ReleaseProtocolFee(b)
    /\ ledger' = [ledger EXCEPT ![b] = Paid(@, rec.bet_amount, 0, betProtocolFee[b], 0, 0)]
    /\ UNCHANGED <<betCreatedAt, cumulativeDeposits, ctf, marketVars, poolVars,
                   govVars, feesPaid, flatFees, now>>

\* A SOLD attestation is cumulative: it must report strictly more shares than
\* the record holds, no more than the position, and no smaller proceeds.
SoldAdvances(rec, att) ==
    /\ att.amountA > rec.sold_shares
    /\ att.amountA <= rec.expected_shares
    /\ att.amountB >= rec.sell_proceeds

closePosition(nt, b, att) ==
    LET rec == betRecords[b]
        credit == att.amountB - rec.sell_proceeds
        full == att.amountA = rec.expected_shares
    IN  /\ rec.status \in {"ACTIVE", "FILLED"}
        /\ Attested(att, b, {"SOLD"})
        /\ SoldAdvances(rec, att)
        /\ rec.market \notin marketResolved
        /\ CreditNote(nt, b, credit)
        /\ betRecords' = [betRecords EXCEPT ![b] =
              Update(rec, IF full THEN "CLOSED_CREDITED" ELSE "FILLED",
                     rec.expected_shares, rec.bet_amount, att.amountA, att.amountB)]
        /\ IF full THEN ReleaseProtocolFee(b)
                   ELSE UNCHANGED <<feeAccumulator, betProtocolFee>>
        /\ ledger' = [ledger EXCEPT ![b] =
              Paid(@, 0, 0, IF full THEN betProtocolFee[b] ELSE 0, credit, 0)]
        /\ UNCHANGED <<betCreatedAt, cumulativeDeposits, ctf, marketVars, poolVars,
                       govVars, feesPaid, flatFees, now>>

\* The share of the provisional fee that belongs to the unexecuted stake.
RefundedFee(pf, betAmount, spentAmount) ==
    (pf * (betAmount - spentAmount)) \div betAmount

\* A strict partial fill; the whole stake may have been spent on fewer shares.
IsPartialFill(rec, att) ==
    /\ 0 < att.amountA /\ att.amountA < rec.expected_shares
    /\ 0 < att.amountB /\ att.amountB <= rec.bet_amount

\* The record that settles afterwards is the one of the executed part.
Normalised(rec, att) ==
    Update(rec, "FILLED", att.amountA, att.amountB, rec.sold_shares, rec.sell_proceeds)

partialFillCredit(nt, b, att) ==
    LET rec == betRecords[b]
        unexecuted == rec.bet_amount - att.amountB
        refundedPf == RefundedFee(betProtocolFee[b], rec.bet_amount, att.amountB)
        earned == betProtocolFee[b] - refundedPf
    IN  /\ rec.status = "ACTIVE"
        /\ Attested(att, b, {"PARTIAL"})
        /\ IsPartialFill(rec, att)
        /\ CreditNote(nt, b, unexecuted + refundedPf)
        /\ betRecords' = [betRecords EXCEPT ![b] = Normalised(rec, att)]
        /\ betProtocolFee' = [betProtocolFee EXCEPT ![b] = 0]
        /\ feeAccumulator' = feeAccumulator + earned
        /\ ledger' = [ledger EXCEPT ![b] = Paid(@, unexecuted, refundedPf, earned, 0, 0)]
        /\ UNCHANGED <<betCreatedAt, cumulativeDeposits, ctf, marketVars, poolVars,
                       govVars, feesPaid, flatFees, now>>

-----------------------------------------------------------------------------
(* Market resolution.                                                      *)

\* External: the CTF publishes its payout vector, once.
CTFReports(m, p) ==
    /\ ctf[m].den = 0
    /\ ctf' = [ctf EXCEPT ![m] = p]
    /\ UNCHANGED <<noteVars, betVars, cumulativeDeposits, marketVars, poolVars,
                   govVars, feeVars, now, histVars>>

PayoutPerShare(p) == [s \in Sides |-> p.num[s] \div p.den]

resolveMarket(m) ==
    LET pps == PayoutPerShare(ctf[m]) IN
    /\ m \notin marketResolved
    /\ ctf[m].den # 0
    /\ \E s \in Sides : ctf[m].num[s] > 0     \* else NotNA
    /\ \E s \in Sides : pps[s] > 0            \* else PayoutRoundsToZero
    /\ pendingCredit' = [pendingCredit EXCEPT ![m] = pps]
    /\ marketResolved' = marketResolved \cup {m}
    /\ conditionIdOf' = conditionIdOf \cup {m}
    /\ UNCHANGED <<noteVars, betVars, cumulativeDeposits, ctf, poolVars, govVars,
                   feeVars, now, histVars>>

registerCondition(m) ==
    /\ conditionIdOf' = conditionIdOf \cup {m}
    /\ UNCHANGED <<noteVars, betVars, cumulativeDeposits, ctf, marketResolved,
                   pendingCredit, poolVars, govVars, feeVars, now, histVars>>

-----------------------------------------------------------------------------
(* Pool and governance.                                                    *)

fundPolymarketWallet(amount) ==
    /\ ~paused
    /\ usdc >= amount
    /\ deployedToPolymarket + amount <= deploymentCap
    /\ deployedToPolymarket' = deployedToPolymarket + amount
    /\ usdc' = usdc - amount
    /\ UNCHANGED <<noteVars, betVars, cumulativeDeposits, ctf, marketVars, govVars,
                   feeVars, now, histVars>>

acknowledgePolymarketReturn(amount) ==
    /\ amount <= deployedToPolymarket
    /\ deployedToPolymarket' = deployedToPolymarket - amount
    /\ UNCHANGED <<noteVars, betVars, cumulativeDeposits, ctf, marketVars, usdc,
                   govVars, feeVars, now, histVars>>

\* External: USDC sent to the vault (the redemption pipeline's last transfer).
ReceiveUSDC(amount) ==
    /\ usdc + amount <= MaxUsdc
    /\ usdc' = usdc + amount
    /\ UNCHANGED <<noteVars, betVars, cumulativeDeposits, ctf, marketVars,
                   deployedToPolymarket, govVars, feeVars, now, histVars>>

withdrawFees(amount) ==
    /\ amount <= feeAccumulator
    /\ amount <= usdc
    /\ feeAccumulator' = feeAccumulator - amount
    /\ feesPaid' = feesPaid + amount
    /\ usdc' = usdc - amount
    /\ UNCHANGED <<noteVars, betVars, cumulativeDeposits, ctf, marketVars,
                   deployedToPolymarket, govVars, flatFees, now, histVars>>

adminSweep(amount) ==
    /\ amount <= usdc
    /\ usdc' = usdc - amount
    /\ UNCHANGED <<noteVars, betVars, cumulativeDeposits, ctf, marketVars,
                   deployedToPolymarket, govVars, feeVars, now, histVars>>

setFeeParams(c) ==
    /\ c.minWithdrawal >= c.withdrawalFeeUSDC
    /\ feeConfig' = c
    /\ UNCHANGED <<deploymentCap, signingLayerOperator, adminCancelTimelock, paused>>

setDeploymentCap(c) ==
    /\ deploymentCap' = c
    /\ UNCHANGED <<feeConfig, signingLayerOperator, adminCancelTimelock, paused>>

setSigningLayerOperator(op) ==
    /\ signingLayerOperator' = op
    /\ UNCHANGED <<feeConfig, deploymentCap, adminCancelTimelock, paused>>

setAdminCancelTimelock(t) ==
    /\ t >= TimelockFloor
    /\ adminCancelTimelock' = t
    /\ UNCHANGED <<feeConfig, deploymentCap, signingLayerOperator, paused>>

\* _pause and _unpause revert unless they change the flag.
pause ==
    /\ ~paused /\ paused' = TRUE
    /\ UNCHANGED <<feeConfig, deploymentCap, signingLayerOperator, adminCancelTimelock>>

unpause ==
    /\ paused /\ paused' = FALSE
    /\ UNCHANGED <<feeConfig, deploymentCap, signingLayerOperator, adminCancelTimelock>>

Govern ==
    /\ \/ \E c \in FeeConfigs : setFeeParams(c)
       \/ \E c \in Caps : setDeploymentCap(c)
       \/ \E op \in Operators : setSigningLayerOperator(op)
       \/ \E t \in Timelocks : setAdminCancelTimelock(t)
       \/ pause
       \/ unpause
    /\ UNCHANGED <<noteVars, betVars, cumulativeDeposits, ctf, marketVars, poolVars,
                   feeVars, now, histVars>>

\* External: blocks are produced.
Tick ==
    /\ now < MaxTime
    /\ now' = now + 1
    /\ UNCHANGED <<noteVars, betVars, cumulativeDeposits, ctf, marketVars, poolVars,
                   govVars, feeVars, histVars>>

-----------------------------------------------------------------------------
LiveNotes == {nt \in leaves : Spendable(nt)}
Slot == {{}} \cup {{nt} : nt \in LiveNotes}
Bets == {b \in Nullifier : betRecords[b].market # NoMarket}

UserNotes ==
    \/ \E u \in Users, s \in Secrets, a \in DepositAmounts : deposit(u, s, a)
    \/ \E nt \in LiveNotes, a \in WithdrawAmounts, u \in Users : withdraw(nt, a, u)
    \/ \E nt \in LiveNotes, s2, s3, s4 \in Slot : consolidate(nt, s2, s3, s4)
    \/ \E nt \in LiveNotes, m \in Markets, side \in Sides,
          a \in BetAmounts, p \in Prices : authorizeBet(nt, m, side, a, p)

Reclaim(nt, b, att) ==
    \/ creditSettlement(nt, b, att)
    \/ betCancellationCredit(nt, b, att)
    \/ naCancellationCredit(nt, b, att)
    \/ closePosition(nt, b, att)
    \/ partialFillCredit(nt, b, att)

Market ==
    \E m \in Markets :
        \/ \E p \in Payouts : CTFReports(m, p)
        \/ resolveMarket(m)
        \/ registerCondition(m)

Pool ==
    \E a \in TokenAmounts :
        \/ fundPolymarketWallet(a)
        \/ acknowledgePolymarketReturn(a)
        \/ ReceiveUSDC(a)
        \/ withdrawFees(a)
        \/ adminSweep(a)

Next ==
    \/ UserNotes
    \/ \E nt \in LiveNotes, b \in Bets, att \in Attestation : Reclaim(nt, b, att)
    \/ \E b \in Bets : adminCancelBet(b)
    \/ Market
    \/ Pool
    \/ Govern
    \/ Tick

Spec == Init /\ [][Next]_vars

-----------------------------------------------------------------------------
(* Properties.                                                             *)

(* A secret's chain of notes never forks.  Two notes of one secret that can
   still be spent publish the same nullifier, so at most one of them ever will
   be: NullifierRegistry, the nonce + 1 of the circuits and the markSpent of
   every consolidated slot together leave one current note per secret.       *)
OneCurrentNote ==
    \A x, y \in LiveNotes : x.secret = y.secret => x.nonce = y.nonce

(* An open bet can be reclaimed with whatever note its lineage holds now: the
   current note is always later than every bet made from the same secret, so
   bet_nonce < nonce in the reclaim circuits never shuts a bettor out, however
   many bets, withdrawals and merges came in between.                        *)
OpenBetReachable ==
    \A b \in Bets, nt \in LiveNotes : b[1] = nt.secret => b[2] < nt.nonce

(* No bet is paid twice, through one function or through several.  Refunds
   never exceed the stake, shares sold and settled never exceed the shares the
   record stands for, and a cancelled bet returns exactly its stake and has
   been paid for no share at all.                                            *)
BetPaidOnce ==
    \A b \in Nullifier :
        LET e == ledger[b]  r == betRecords[b] IN
        /\ e.refunded <= e.stake
        /\ e.settled + r.sold_shares <= r.expected_shares
        /\ r.expected_shares <= e.shares
        /\ e.proceeds = r.sell_proceeds
        /\ r.status = "CANCELLED_CREDITED" =>
              /\ e.refunded = e.stake
              /\ e.settled = 0 /\ r.sold_shares = 0

(* The protocol fee of a bet is at every moment provisional, refunded or
   earned, never two of them and never lost, and nothing of it stays
   provisional once the bet is terminal (FC-14).                             *)
FeeResolvedOnce ==
    \A b \in Nullifier :
        /\ ledger[b].fee =
              betProtocolFee[b] + ledger[b].feeRefunded + ledger[b].feeEarned
        /\ betRecords[b].status \in Terminal => betProtocolFee[b] = 0

(* A terminal record is final: no later call, whatever the operator signs and
   the owner does, changes the record or pays anything more on the bet.      *)
TerminalFinal ==
    [][\A b \in Nullifier : betRecords[b].status \in Terminal =>
          betRecords'[b] = betRecords[b] /\ ledger'[b] = ledger[b]]_vars

(* While the vault is paused no note is inserted or spent, no bet is paid and
   USDC leaves only as claimable fees or by the owner's sweep; market
   resolution and adminCancelBet are not gated by the pause.                 *)
PauseFreezesNotes ==
    [][paused => /\ UNCHANGED <<noteVars, histVars, betProtocolFee>>
                 /\ deployedToPolymarket' <= deployedToPolymarket]_vars

\* Notes with one nullifier are worth the dearest of them: only one is spendable.
LiveBalance(u, n) ==
    Max({0} \cup {nt.bal : nt \in {x \in LiveNotes : x.owner = u /\ NullifierOf(x) = n}})

(* Notes are backed: what an owner can still spend never exceeds what they
   deposited and were credited, less what they staked, paid in fees and
   withdrew.  The difference is value stranded by a repeated deposit secret. *)
NotesBacked ==
    \A u \in Users : SumFunction([n \in Nullifier |-> LiveBalance(u, n)]) <= supply[u]

(* feeAccumulator is strictly claimable (SC-01): with the fees already paid out
   it equals the flat fees charged plus the protocol fees earned, so a refund
   never has to take anything back from it.                                  *)
FeesClaimable ==
    feeAccumulator + feesPaid =
        flatFees + SumFunction([b \in Nullifier |-> ledger[b].feeEarned])
=============================================================================
