---------------------------- MODULE VaultProofs ----------------------------
(***************************************************************************)
(* The safety of the Vault for every set of users, secrets, markets and    *)
(* amounts and for an operator that may sign anything.  The invariant of   *)
(* the theorems is Inv; it is proved inductive action by action.  The two  *)
(* theorems about totals, of the fees and of the notes, rest on lemmas     *)
(* about sums over a finite set and on ClaimInv and BackedInv, which are   *)
(* inductive together with Inv; they assume finitely many secrets, without *)
(* which there is no sum to speak of.                                      *)
(***************************************************************************)
EXTENDS Vault, FiniteSetTheorems, WellFoundedInduction, NaturalsInduction, TLAPS

(* What a record and its ledger entry say together, status by status.      *)
RecordInv(r, e) ==
    /\ r.sold_shares <= r.expected_shares
    /\ r.expected_shares <= e.shares
    /\ e.proceeds = r.sell_proceeds
    /\ e.refunded <= e.stake
    /\ r.status # "CREDITED" => e.settled = 0
    /\ r.status = "CREDITED" => e.settled + r.sold_shares = r.expected_shares
    /\ r.status \in {"ACTIVE", "FAILED"} =>
          e.refunded = 0 /\ r.bet_amount = e.stake /\ r.sold_shares = 0
    /\ r.status = "FILLED" => e.refunded + r.bet_amount = e.stake
    /\ r.status = "CANCELLED_CREDITED" => e.refunded = e.stake /\ r.sold_shares = 0

FeeInv(r, e, pf) ==
    /\ e.fee = pf + e.feeRefunded + e.feeEarned
    /\ r.status \in Terminal => pf = 0

RecordsInv == \A b \in Nullifier : RecordInv(betRecords[b], ledger[b])
FeesInv == \A b \in Nullifier : FeeInv(betRecords[b], ledger[b], betProtocolFee[b])

(* Spent nullifiers are downward closed in the nonce, every note beyond the
   first has a spent predecessor, and a bet is made by spending a note.      *)
SpentClosed == \A n \in spent : \A k \in 0..n[2] : <<n[1], k>> \in spent
LeafAfterSpent == \A nt \in leaves : nt.nonce > 0 => <<nt.secret, nt.nonce - 1>> \in spent
BetIsSpent == \A b \in Nullifier :
    /\ betRecords[b].status # "NONE" => b \in spent
    /\ betRecords[b].status = "NONE" <=> betRecords[b].market = NoMarket

Inv == TypeOK /\ RecordsInv /\ FeesInv /\ SpentClosed /\ LeafAfterSpent /\ BetIsSpent

NoteInv == SpentClosed /\ LeafAfterSpent

-----------------------------------------------------------------------------
(* Arithmetic the solver needs spelled out.                                *)

(* Integer division of naturals is a natural (the fee, price and payout
   quotients of the contract).                                               *)
LEMMA DivNat == ASSUME NEW a \in Nat, NEW d \in Nat \ {0} PROVE a \div d \in Nat
  OBVIOUS

(* partialFillCredit never refunds more than the provisional fee.            *)
LEMMA RefundedFeeBound ==
  ASSUME NEW pf \in Nat, NEW bet \in Nat, NEW sp \in Nat, 0 < sp, sp <= bet
  PROVE  RefundedFee(pf, bet, sp) \in 0..pf
<1> DEFINE q == (pf * (bet - sp)) \div bet
<1>1. bet - sp \in Nat /\ bet \in Nat \ {0} /\ bet - sp <= bet
  OBVIOUS
<1>2. pf * (bet - sp) \in Nat
  BY <1>1
<1>3. q \in Nat
  BY <1>1, <1>2, DivNat
<1>4. q * bet <= pf * (bet - sp)
  BY <1>1, <1>2, <1>3
<1>5. pf * (bet - sp) <= pf * bet
  BY <1>1
<1>6. q * bet <= pf * bet
  BY <1>1, <1>2, <1>3, <1>4, <1>5
<1>7. q <= pf
  BY <1>1, <1>3, <1>6
<1> QED
  BY <1>3, <1>7 DEF RefundedFee

-----------------------------------------------------------------------------
(* Notes and nullifiers.                                                   *)

(* The note that _spendAndInsert appends is the successor of the note spent. *)
LEMMA SuccessorType ==
  ASSUME NEW nt \in Note, nt.nonce < MaxNonce, NEW bal \in Nat
  PROVE  /\ Successor(nt, bal) \in Note
         /\ Successor(nt, bal).secret = nt.secret
         /\ Successor(nt, bal).nonce = nt.nonce + 1
  BY NonceAssumption DEF Successor, Note

(* _spendAndInsert keeps the chain of every secret in order.                 *)
LEMMA SpendStep ==
  ASSUME TypeOK, NoteInv, NEW nt, Spendable(nt), nt.nonce < MaxNonce,
         NEW new, new \subseteq Note,
         \A y \in new : y.secret = nt.secret /\ y.nonce = nt.nonce + 1,
         SpendAndInsert(nt, new)
  PROVE  /\ leaves' \subseteq Note
         /\ spent' \subseteq Nullifier
         /\ NoteInv'
         /\ spent \subseteq spent'
         /\ NullifierOf(nt) \in spent' /\ NullifierOf(nt) \in Nullifier
<1>1. nt \in Note /\ nt.nonce \in 0..MaxNonce /\ nt.secret \in Secrets
  BY DEF TypeOK, Spendable, Note
<1>2. NullifierOf(nt) \in Nullifier
  BY <1>1 DEF NullifierOf, Nullifier
<1>3. leaves' \subseteq Note /\ spent' \subseteq Nullifier /\ spent \subseteq spent'
  BY <1>2 DEF TypeOK, SpendAndInsert
<1>4. SpentClosed'
  <2> SUFFICES ASSUME NEW n \in spent', NEW k \in 0..n[2] PROVE <<n[1], k>> \in spent'
    BY DEF SpentClosed
  <2>1. CASE n \in spent
    BY <2>1, <1>3 DEF NoteInv, SpentClosed
  <2>2. CASE n = NullifierOf(nt) /\ k = nt.nonce
    BY <2>2 DEF NullifierOf, SpendAndInsert
  <2>3. CASE n = NullifierOf(nt) /\ k # nt.nonce
    <3>1. n[1] = nt.secret /\ n[2] = nt.nonce
      BY <2>3 DEF NullifierOf
    <3>2. nt.nonce > 0 /\ k \in 0..(nt.nonce - 1)
      BY <3>1, <2>3, <1>1, NonceAssumption
    <3>3. <<nt.secret, nt.nonce - 1>> \in spent
      BY <3>2 DEF NoteInv, LeafAfterSpent, Spendable
    <3>4. \A j \in 0..(nt.nonce - 1) : <<nt.secret, j>> \in spent
      <4> DEFINE p == <<nt.secret, nt.nonce - 1>>
      <4>1. p[1] = nt.secret /\ p[2] = nt.nonce - 1
        OBVIOUS
      <4> QED
        BY <3>3, <4>1 DEF NoteInv, SpentClosed
    <3> QED
      BY <3>1, <3>2, <3>4, <1>3
  <2> QED
    BY <2>1, <2>2, <2>3 DEF SpendAndInsert
<1>5. LeafAfterSpent'
  <2> SUFFICES ASSUME NEW y \in leaves', y.nonce > 0
               PROVE  <<y.secret, y.nonce - 1>> \in spent'
    BY DEF LeafAfterSpent
  <2>1. CASE y \in leaves
    BY <2>1, <1>3 DEF NoteInv, LeafAfterSpent
  <2>2. CASE y \in new
    BY <2>2, <1>1, NonceAssumption DEF SpendAndInsert, NullifierOf
  <2> QED
    BY <2>1, <2>2 DEF SpendAndInsert
<1> QED
  BY <1>2, <1>3, <1>4, <1>5 DEF NoteInv, SpendAndInsert

(* Crediting a note, the common part of the five reclaims.                   *)
LEMMA CreditStep ==
  ASSUME TypeOK, NoteInv, NEW nt, NEW b, NEW amount \in Nat, CreditNote(nt, b, amount)
  PROVE  /\ leaves' \subseteq Note
         /\ spent' \subseteq Nullifier
         /\ NoteInv'
         /\ spent \subseteq spent'
         /\ supply' \in [Users -> Int]
<1> DEFINE new == {Successor(nt, nt.bal + amount)}
<1>1. nt \in Note /\ nt.nonce < MaxNonce /\ Spendable(nt) /\ SpendAndInsert(nt, new)
  BY DEF CreditNote, Spendable, TypeOK
<1>2. nt.bal + amount \in Nat /\ nt.owner \in Users
  BY <1>1 DEF Note
<1>3. new \subseteq Note /\ \A y \in new : y.secret = nt.secret /\ y.nonce = nt.nonce + 1
  BY <1>1, <1>2, SuccessorType
<1>4. supply' \in [Users -> Int]
  BY <1>2 DEF CreditNote, TypeOK
<1> HIDE DEF new
<1> QED
  BY <1>1, <1>3, <1>4, SpendStep

-----------------------------------------------------------------------------
(* Reclaims.                                                               *)

(* A call that credits a note and rewrites one bet keeps Inv when the new
   record, ledger entry and provisional fee fit together.                    *)
LEMMA ReclaimStep ==
  ASSUME Inv, NEW nt, NEW b \in Bets, NEW amount \in Nat, CreditNote(nt, b, amount),
         NEW r \in BetRecord, NEW e \in LedgerEntry, NEW pf \in Nat,
         betRecords' = [betRecords EXCEPT ![b] = r],
         ledger' = [ledger EXCEPT ![b] = e],
         betProtocolFee' = [betProtocolFee EXCEPT ![b] = pf],
         feeAccumulator' \in Nat,
         r.status # "NONE", r.market = betRecords[b].market,
         RecordInv(r, e), FeeInv(r, e, pf),
         UNCHANGED <<betCreatedAt, cumulativeDeposits, ctf, marketVars, poolVars,
                     govVars, feesPaid, flatFees, now>>
  PROVE  Inv'
<1>1. b \in Nullifier /\ betRecords[b].market # NoMarket
  BY DEF Bets
<1>2. /\ leaves' \subseteq Note /\ spent' \subseteq Nullifier
      /\ NoteInv' /\ spent \subseteq spent' /\ supply' \in [Users -> Int]
  BY CreditStep DEF Inv, NoteInv
<1>3. TypeOK'
  BY <1>1, <1>2 DEF Inv, TypeOK, marketVars, poolVars, govVars
<1>4. RecordsInv'
  BY <1>1 DEF Inv, TypeOK, RecordsInv
<1>5. FeesInv'
  BY <1>1 DEF Inv, TypeOK, FeesInv
<1>6. BetIsSpent'
  BY <1>1, <1>2 DEF Inv, TypeOK, BetIsSpent
<1> QED
  BY <1>2, <1>3, <1>4, <1>5, <1>6 DEF Inv, NoteInv

(* The components of Inv at one bet.                                         *)
LEMMA InvAt ==
  ASSUME Inv, NEW b \in Bets
  PROVE  /\ b \in Nullifier
         /\ betRecords[b] \in BetRecord /\ ledger[b] \in LedgerEntry
         /\ betProtocolFee[b] \in Nat
         /\ betRecords[b].market \in Markets
         /\ betRecords[b].status # "NONE"
         /\ RecordInv(betRecords[b], ledger[b])
         /\ FeeInv(betRecords[b], ledger[b], betProtocolFee[b])
  BY DEF Inv, TypeOK, Bets, RecordsInv, FeesInv, BetIsSpent, BetRecord

(* Updating a record and paying on a ledger entry keep their types.          *)
LEMMA UpdateType ==
  ASSUME NEW r \in BetRecord, NEW st \in BetStatus, NEW a1 \in Nat, NEW a2 \in Nat,
         NEW a3 \in Nat, NEW a4 \in Nat
  PROVE  Update(r, st, a1, a2, a3, a4) \in BetRecord
  BY DEF Update, BetRecord

(* A payment keeps the type of a ledger entry.                               *)
LEMMA PaidType ==
  ASSUME NEW e \in LedgerEntry, NEW a1 \in Nat, NEW a2 \in Nat, NEW a3 \in Nat,
         NEW a4 \in Nat, NEW a5 \in Nat
  PROVE  Paid(e, a1, a2, a3, a4, a5) \in LedgerEntry
  BY DEF Paid, LedgerEntry

(* creditSettlement: the shares still held settle, the fee is earned.        *)
LEMMA CreditSettlementStep ==
  ASSUME Inv, NEW nt, NEW b \in Bets, NEW att, creditSettlement(nt, b, att)
  PROVE  Inv'
<1> DEFINE rec == betRecords[b]
           held == SharesHeld(rec)
           total == held * pendingCredit[rec.market][rec.side]
           r == WithStatus(rec, "CREDITED")
           e == Paid(ledger[b], 0, 0, betProtocolFee[b], 0, held)
<1>1. /\ b \in Nullifier /\ rec \in BetRecord /\ ledger[b] \in LedgerEntry
      /\ betProtocolFee[b] \in Nat /\ rec.market \in Markets
      /\ RecordInv(rec, ledger[b]) /\ FeeInv(rec, ledger[b], betProtocolFee[b])
  BY InvAt
<1>2. held \in Nat
  BY <1>1 DEF SharesHeld, RecordInv, BetRecord
<1>3. total \in Nat
  <2>1. rec.side \in Sides
    BY <1>1 DEF BetRecord
  <2>2. pendingCredit[rec.market][rec.side] \in Nat
    BY <1>1, <2>1 DEF Inv, TypeOK
  <2> QED
    BY <1>2, <2>2
<1>4. r \in BetRecord /\ e \in LedgerEntry
  BY <1>1, <1>2, PaidType DEF WithStatus, Update, BetRecord, BetStatus, Terminal
<1>5. RecordInv(r, e)
  BY <1>1, <1>2 DEF creditSettlement, RecordInv, SharesHeld, WithStatus, Update, Paid,
     BetRecord, LedgerEntry
<1>6. FeeInv(r, e, 0)
  BY <1>1, <1>2 DEF FeeInv, Paid, LedgerEntry
<1>7. feeAccumulator' \in Nat
  BY <1>1 DEF creditSettlement, ReleaseProtocolFee, Inv, TypeOK
<1>8. r.status # "NONE" /\ r.market = rec.market
  BY DEF WithStatus, Update
<1> QED
  BY <1>1, <1>3, <1>4, <1>5, <1>6, <1>7, <1>8, ReclaimStep
     DEF creditSettlement, ReleaseProtocolFee

(* betCancellationCredit: the whole stake and the fee are refunded.          *)
LEMMA BetCancellationCreditStep ==
  ASSUME Inv, NEW nt, NEW b \in Bets, NEW att, betCancellationCredit(nt, b, att)
  PROVE  Inv'
<1> DEFINE rec == betRecords[b]
           r == WithStatus(rec, "CANCELLED_CREDITED")
           e == Paid(ledger[b], rec.bet_amount, betProtocolFee[b], 0, 0, 0)
<1>1. /\ b \in Nullifier /\ rec \in BetRecord /\ ledger[b] \in LedgerEntry
      /\ betProtocolFee[b] \in Nat /\ rec.market \in Markets
      /\ RecordInv(rec, ledger[b]) /\ FeeInv(rec, ledger[b], betProtocolFee[b])
  BY InvAt
<1>2. rec.bet_amount \in Nat /\ rec.bet_amount + betProtocolFee[b] \in Nat
  BY <1>1 DEF BetRecord
<1>3. r \in BetRecord /\ e \in LedgerEntry
  BY <1>1, <1>2, PaidType DEF WithStatus, Update, BetRecord, BetStatus, Terminal
<1>4. RecordInv(r, e)
  BY <1>1, <1>2 DEF betCancellationCredit, RecordInv, WithStatus, Update, Paid,
     BetRecord, LedgerEntry
<1>5. FeeInv(r, e, 0)
  BY <1>1, <1>2 DEF FeeInv, Paid, LedgerEntry
<1>6. r.status # "NONE" /\ r.market = rec.market
  BY DEF WithStatus, Update
<1>7. feeAccumulator' \in Nat /\ UNCHANGED <<feesPaid, flatFees>>
  BY DEF betCancellationCredit, feeVars, Inv, TypeOK
<1> QED
  BY <1>1, <1>2, <1>3, <1>4, <1>5, <1>6, <1>7, ReclaimStep DEF betCancellationCredit

(* naCancellationCredit: a void market refunds what was not sold.            *)
LEMMA NaCancellationCreditStep ==
  ASSUME Inv, NEW nt, NEW b \in Bets, NEW att, naCancellationCredit(nt, b, att)
  PROVE  Inv'
<1> DEFINE rec == betRecords[b]
           r == WithStatus(rec, "CANCELLED_CREDITED")
           e == Paid(ledger[b], rec.bet_amount, 0, betProtocolFee[b], 0, 0)
<1>1. /\ b \in Nullifier /\ rec \in BetRecord /\ ledger[b] \in LedgerEntry
      /\ betProtocolFee[b] \in Nat /\ rec.market \in Markets
      /\ RecordInv(rec, ledger[b]) /\ FeeInv(rec, ledger[b], betProtocolFee[b])
  BY InvAt
<1>2. rec.bet_amount \in Nat
  BY <1>1 DEF BetRecord
<1>3. r \in BetRecord /\ e \in LedgerEntry
  BY <1>1, <1>2, PaidType DEF WithStatus, Update, BetRecord, BetStatus, Terminal
<1>4. RecordInv(r, e)
  <2>1. rec.status \in {"ACTIVE", "FILLED", "FAILED"} /\ rec.sold_shares = 0
    BY DEF naCancellationCredit
  <2>2. ledger[b].refunded + rec.bet_amount = ledger[b].stake /\ ledger[b].settled = 0
    BY <1>1, <1>2, <2>1 DEF RecordInv, LedgerEntry
  <2> QED
    BY <1>1, <1>2, <2>1, <2>2 DEF RecordInv, WithStatus, Update, Paid,
       BetRecord, LedgerEntry
<1>5. FeeInv(r, e, 0)
  BY <1>1, <1>2 DEF FeeInv, Paid, LedgerEntry
<1>6. r.status # "NONE" /\ r.market = rec.market
  BY DEF WithStatus, Update
<1>7. feeAccumulator' \in Nat
  BY <1>1 DEF naCancellationCredit, ReleaseProtocolFee, Inv, TypeOK
<1>8. /\ CreditNote(nt, b, rec.bet_amount)
      /\ betRecords' = [betRecords EXCEPT ![b] = r]
      /\ ledger' = [ledger EXCEPT ![b] = e]
      /\ betProtocolFee' = [betProtocolFee EXCEPT ![b] = 0]
      /\ UNCHANGED <<betCreatedAt, cumulativeDeposits, ctf, marketVars, poolVars,
                     govVars, feesPaid, flatFees, now>>
  BY DEF naCancellationCredit, ReleaseProtocolFee
<1> HIDE DEF r, e
<1> QED
  BY <1>2, <1>3, <1>4, <1>5, <1>6, <1>7, <1>8, ReclaimStep

(* closePosition: cumulative sales stay within the position.                 *)
LEMMA ClosePositionStep ==
  ASSUME Inv, NEW nt, NEW b \in Bets, NEW att \in Attestation, closePosition(nt, b, att)
  PROVE  Inv'
<1> DEFINE rec == betRecords[b]
           credit == att.amountB - rec.sell_proceeds
           full == att.amountA = rec.expected_shares
           earn == IF full THEN betProtocolFee[b] ELSE 0
           pf == IF full THEN 0 ELSE betProtocolFee[b]
           st == IF full THEN "CLOSED_CREDITED" ELSE "FILLED"
           r == Update(rec, st, rec.expected_shares, rec.bet_amount,
                       att.amountA, att.amountB)
           e == Paid(ledger[b], 0, 0, earn, credit, 0)
<1>1. /\ b \in Nullifier /\ rec \in BetRecord /\ ledger[b] \in LedgerEntry
      /\ betProtocolFee[b] \in Nat /\ rec.market \in Markets
      /\ RecordInv(rec, ledger[b]) /\ FeeInv(rec, ledger[b], betProtocolFee[b])
  BY InvAt
<1>2. att.amountA \in Nat /\ att.amountB \in Nat
  BY AmountAssumption DEF Attestation
<1>3. credit \in Nat /\ att.amountA <= rec.expected_shares
  BY <1>1, <1>2 DEF closePosition, SoldAdvances, BetRecord
<1>4. earn \in Nat /\ pf \in Nat /\ st \in {"CLOSED_CREDITED", "FILLED"}
  BY <1>1
<1>5. r \in BetRecord /\ e \in LedgerEntry
  BY <1>1, <1>2, <1>3, <1>4, PaidType DEF Update, BetRecord, BetStatus, Terminal
<1>6. RecordInv(r, e)
  BY <1>1, <1>2, <1>3, <1>4 DEF closePosition, RecordInv, Update, Paid,
     BetRecord, LedgerEntry
<1>7. FeeInv(r, e, pf)
  BY <1>1, <1>3, <1>4 DEF FeeInv, Update, Paid, LedgerEntry, Terminal
<1>8. r.status # "NONE" /\ r.market = rec.market
  BY <1>4 DEF Update
<1>9. /\ feeAccumulator' \in Nat
      /\ betProtocolFee' = [betProtocolFee EXCEPT ![b] = pf]
  BY <1>1 DEF closePosition, ReleaseProtocolFee, Inv, TypeOK
<1> QED
  BY <1>1, <1>3, <1>4, <1>5, <1>6, <1>7, <1>8, <1>9, ReclaimStep DEF closePosition

(* partialFillCredit: the executed part is what settles afterwards.          *)
LEMMA PartialFillCreditStep ==
  ASSUME Inv, NEW nt, NEW b \in Bets, NEW att \in Attestation, partialFillCredit(nt, b, att)
  PROVE  Inv'
<1> DEFINE rec == betRecords[b]
           unexecuted == rec.bet_amount - att.amountB
           back == RefundedFee(betProtocolFee[b], rec.bet_amount, att.amountB)
           earned == betProtocolFee[b] - back
           r == Normalised(rec, att)
           e == Paid(ledger[b], unexecuted, back, earned, 0, 0)
<1>1. /\ b \in Nullifier /\ rec \in BetRecord /\ ledger[b] \in LedgerEntry
      /\ betProtocolFee[b] \in Nat /\ rec.market \in Markets
      /\ RecordInv(rec, ledger[b]) /\ FeeInv(rec, ledger[b], betProtocolFee[b])
  BY InvAt
<1>2. att.amountA \in Nat /\ att.amountB \in Nat /\ rec.bet_amount \in Nat
  BY <1>1, AmountAssumption DEF Attestation, BetRecord
<1>3. rec.status = "ACTIVE" /\ IsPartialFill(rec, att)
  BY DEF partialFillCredit
<1>4. back \in 0..betProtocolFee[b]
  BY <1>1, <1>2, <1>3, RefundedFeeBound DEF IsPartialFill
<1> HIDE DEF back
<1>5. unexecuted \in Nat /\ earned \in Nat /\ back \in Nat /\ unexecuted + back \in Nat
  BY <1>1, <1>2, <1>3, <1>4 DEF IsPartialFill
<1>6. r \in BetRecord /\ e \in LedgerEntry
  BY <1>1, <1>2, <1>5, PaidType DEF Normalised, Update, BetRecord, BetStatus
<1>7. RecordInv(r, e)
  BY <1>1, <1>2, <1>3, <1>5 DEF IsPartialFill, RecordInv, Normalised, Update, Paid,
     BetRecord, LedgerEntry
<1>8. FeeInv(r, e, 0)
  BY <1>1, <1>4, <1>5 DEF FeeInv, Paid, LedgerEntry
<1>9. r.status # "NONE" /\ r.market = rec.market
  BY DEF Normalised, Update
<1>10. feeAccumulator' \in Nat
  BY <1>5 DEF partialFillCredit, Inv, TypeOK, back
<1> QED
  BY <1>1, <1>5, <1>6, <1>7, <1>8, <1>9, <1>10, ReclaimStep DEF partialFillCredit, back

-----------------------------------------------------------------------------
(* Deposits, withdrawals, merges and new bets.                             *)

(* Inv depends on the notes, the nullifiers and the bets only.               *)
LEMMA NoteOnlyStep ==
  ASSUME Inv, TypeOK', NoteInv', spent \subseteq spent', UNCHANGED <<betVars, ledger>>
  PROVE  Inv'
<1>1. RecordsInv' /\ FeesInv'
  BY DEF Inv, RecordsInv, FeesInv, betVars
<1>2. BetIsSpent'
  BY DEF Inv, BetIsSpent, betVars
<1> QED
  BY <1>1, <1>2 DEF Inv, NoteInv

(* deposit appends a note of nonce 0.                                        *)
LEMMA DepositStep ==
  ASSUME Inv, NEW u \in Users, NEW s \in Secrets, NEW a \in DepositAmounts, deposit(u, s, a)
  PROVE  Inv'
<1> DEFINE nt == [secret |-> s, bal |-> a, nonce |-> 0, owner |-> u]
<1>1. a \in Nat /\ nt \in Note
  BY AmountAssumption, NonceAssumption DEF Note
<1>2. leaves' = leaves \cup {nt} /\ spent' = spent
  BY DEF deposit
<1>3. TypeOK'
  BY <1>1, <1>2 DEF deposit, Inv, TypeOK, betVars, marketVars, govVars, feeVars
<1>4. NoteInv'
  BY <1>2 DEF Inv, NoteInv, SpentClosed, LeafAfterSpent
<1> QED
  BY <1>2, <1>3, <1>4, NoteOnlyStep DEF deposit

(* withdraw spends a note and may append its successor.                      *)
LEMMA WithdrawStep ==
  ASSUME Inv, NEW nt, NEW a \in WithdrawAmounts, NEW u \in Users, withdraw(nt, a, u)
  PROVE  Inv'
<1>1. /\ nt \in Note /\ a \in Nat /\ a <= nt.bal /\ nt.nonce < MaxNonce
      /\ Spendable(nt) /\ SpendAndInsert(nt, Change(nt, a))
  BY AmountAssumption DEF withdraw, Spendable, Inv, TypeOK
<1>2. nt.bal - a \in Nat
  BY <1>1 DEF Note
<1>3. /\ Change(nt, a) \subseteq Note
      /\ \A y \in Change(nt, a) : y.secret = nt.secret /\ y.nonce = nt.nonce + 1
  BY <1>1, <1>2, SuccessorType DEF Change
<1>4. /\ leaves' \subseteq Note /\ spent' \subseteq Nullifier
      /\ NoteInv' /\ spent \subseteq spent'
  BY <1>1, <1>3, SpendStep DEF Inv, NoteInv
<1>5. usdc' \in Nat /\ feeAccumulator' \in Nat /\ flatFees' \in Nat
  BY <1>1 DEF withdraw, Inv, TypeOK, FeeConfig
<1>6. supply' \in [Users -> Int]
  BY <1>1 DEF withdraw, Inv, TypeOK
<1>7. TypeOK'
  BY <1>4, <1>5, <1>6 DEF withdraw, Inv, TypeOK, betVars, marketVars, govVars
<1> QED
  BY <1>4, <1>7, NoteOnlyStep DEF withdraw

(* consolidate spends up to four notes and appends one successor.            *)
LEMMA ConsolidateStep ==
  ASSUME Inv, NEW n1 \in LiveNotes, NEW s2 \in Slot, NEW s3 \in Slot, NEW s4 \in Slot,
         consolidate(n1, s2, s3, s4)
  PROVE  Inv'
<1> DEFINE inputs == {n1} \cup s2 \cup s3 \cup s4
           sum == n1.bal + SlotBalance(s2) + SlotBalance(s3) + SlotBalance(s4)
           marked == {NullifierOf(nt) : nt \in inputs}
<1>1. inputs \subseteq leaves /\ leaves \subseteq Note /\ n1 \in leaves
  BY DEF Slot, LiveNotes, Inv, TypeOK
<1>2. ASSUME NEW sl \in Slot PROVE SlotBalance(sl) \in Nat
  <2>1. CASE sl = {}
    BY <2>1 DEF SlotBalance
  <2>2. CASE sl # {}
    <3>1. sl \subseteq Note
      BY <1>1 DEF Slot, LiveNotes
    <3>2. (CHOOSE nt \in sl : TRUE) \in sl
      BY <2>2
    <3>3. (CHOOSE nt \in sl : TRUE) \in Note
      BY <3>1, <3>2
    <3> HIDE <3>2
    <3> QED
      BY <2>2, <3>3 DEF SlotBalance, Note
  <2> QED
    BY <2>1, <2>2
<1>3. sum \in Nat
  <2>1. n1.bal \in Nat
    BY <1>1 DEF Note
  <2> QED
    BY <2>1, <1>2
<1>4. /\ n1.nonce < MaxNonce
      /\ spent' = spent \cup marked
      /\ leaves' = leaves \cup {Successor(n1, sum)}
  BY DEF consolidate
<1>5. /\ Successor(n1, sum) \in Note
      /\ Successor(n1, sum).secret = n1.secret
      /\ Successor(n1, sum).nonce = n1.nonce + 1
  BY <1>1, <1>3, <1>4, SuccessorType
<1>6. \A nt \in inputs : /\ nt.nonce \in 0..MaxNonce /\ nt.secret \in Secrets
                         /\ NullifierOf(nt) \in Nullifier
  BY <1>1 DEF Note, NullifierOf, Nullifier
<1>7. leaves' \subseteq Note /\ spent' \subseteq Nullifier /\ spent \subseteq spent'
  BY <1>1, <1>4, <1>5, <1>6 DEF Inv, TypeOK
<1>8. SpentClosed'
  <2> SUFFICES ASSUME NEW n \in spent', NEW k \in 0..n[2] PROVE <<n[1], k>> \in spent'
    BY DEF SpentClosed
  <2>1. CASE n \in spent
    BY <2>1, <1>7 DEF Inv, SpentClosed
  <2>2. CASE n \in marked
    <3>1. PICK nt \in inputs : n = NullifierOf(nt)
      BY <2>2
    <3>2. n[1] = nt.secret /\ n[2] = nt.nonce
      BY <3>1 DEF NullifierOf
    <3>3. CASE k = nt.nonce
      BY <3>1, <3>2, <3>3, <2>2, <1>4 DEF NullifierOf
    <3>4. CASE k # nt.nonce
      <4>1. nt.nonce > 0 /\ k \in 0..(nt.nonce - 1)
        BY <3>1, <3>2, <3>4, <1>6, NonceAssumption
      <4>2. <<nt.secret, nt.nonce - 1>> \in spent
        BY <4>1, <1>1, <3>1 DEF Inv, LeafAfterSpent
      <4> DEFINE p == <<nt.secret, nt.nonce - 1>>
      <4>3. p[1] = nt.secret /\ p[2] = nt.nonce - 1
        OBVIOUS
      <4>4. <<nt.secret, k>> \in spent
        BY <4>1, <4>2, <4>3 DEF Inv, SpentClosed
      <4> QED
        BY <4>4, <3>2, <1>7
    <3> QED
      BY <3>3, <3>4
  <2> QED
    BY <2>1, <2>2, <1>4
<1>9. LeafAfterSpent'
  <2> SUFFICES ASSUME NEW y \in leaves', y.nonce > 0
               PROVE  <<y.secret, y.nonce - 1>> \in spent'
    BY DEF LeafAfterSpent
  <2>1. CASE y \in leaves
    BY <2>1, <1>7 DEF Inv, LeafAfterSpent
  <2>2. CASE y = Successor(n1, sum)
    <3>1. n1 \in inputs /\ n1.nonce \in 0..MaxNonce
      BY <1>6
    <3>2. <<n1.secret, n1.nonce>> \in spent'
      BY <3>1, <1>4 DEF NullifierOf
    <3>3. y.secret = n1.secret /\ y.nonce - 1 = n1.nonce
      BY <2>2, <1>5, <3>1, NonceAssumption
    <3> QED
      BY <3>2, <3>3
  <2> QED
    BY <2>1, <2>2, <1>4
<1>10. TypeOK'
  BY <1>7 DEF consolidate, Inv, TypeOK, betVars, marketVars, poolVars, govVars,
     feeVars, histVars
<1>11. UNCHANGED <<betVars, ledger>>
  BY DEF consolidate, histVars
<1> QED
  BY <1>7, <1>8, <1>9, <1>10, <1>11, NoteOnlyStep DEF NoteInv

(* authorizeBet opens a record under the nullifier it spends.                *)
LEMMA AuthorizeBetStep ==
  ASSUME Inv, NEW nt, NEW m \in Markets, NEW side \in Sides, NEW a \in BetAmounts,
         NEW p \in Prices, authorizeBet(nt, m, side, a, p)
  PROVE  Inv'
<1> DEFINE b == NullifierOf(nt)
           pf == ProtocolFee(a)
           fee == pf + feeConfig.relayGasFeeUSDC
           shares == ExpectedShares(a, p)
           r == [status |-> "ACTIVE", market |-> m, side |-> side,
                 expected_shares |-> shares, bet_amount |-> a,
                 sold_shares |-> 0, sell_proceeds |-> 0]
           e == [stake |-> a, fee |-> pf, shares |-> shares, refunded |-> 0,
                 feeRefunded |-> 0, feeEarned |-> 0, proceeds |-> 0, settled |-> 0]
           new == {Successor(nt, nt.bal - a - fee)}
<1>1. /\ nt \in Note /\ nt.nonce < MaxNonce /\ Spendable(nt) /\ SpendAndInsert(nt, new)
      /\ a + fee <= nt.bal
  BY DEF authorizeBet, Spendable, Inv, TypeOK
<1>2. a \in Nat /\ feeConfig \in FeeConfig /\ nt.bal \in Nat /\ nt.owner \in Users
  BY <1>1, AmountAssumption DEF Inv, TypeOK, Note
<1>3. pf \in Nat
  <2>1. a * feeConfig.betFeeBps \in Nat
    BY <1>2 DEF FeeConfig
  <2> QED
    BY <2>1, DivNat DEF ProtocolFee
<1>4. shares \in Nat
  <2>1. a * PricePrecision \in Nat /\ p \in Nat \ {0}
    BY <1>2, PriceAssumption
  <2> QED
    BY <2>1, DivNat DEF ExpectedShares
<1>5. fee \in Nat /\ nt.bal - a - fee \in Nat /\ feeConfig.relayGasFeeUSDC \in Nat
  BY <1>1, <1>2, <1>3 DEF FeeConfig
<1> HIDE DEF pf, shares
<1>6. new \subseteq Note /\ \A y \in new : y.secret = nt.secret /\ y.nonce = nt.nonce + 1
  BY <1>1, <1>5, SuccessorType
<1>7. /\ leaves' \subseteq Note /\ spent' \subseteq Nullifier
      /\ NoteInv' /\ spent \subseteq spent' /\ b \in spent' /\ b \in Nullifier
  <2> HIDE DEF new
  <2> QED
    BY <1>1, <1>6, SpendStep DEF Inv, NoteInv
<1>8. /\ betRecords' = [betRecords EXCEPT ![b] = r]
      /\ ledger' = [ledger EXCEPT ![b] = e]
      /\ betProtocolFee' = [betProtocolFee EXCEPT ![b] = pf]
      /\ betCreatedAt' = [betCreatedAt EXCEPT ![b] = now]
      /\ supply' = [supply EXCEPT ![nt.owner] = @ - a - fee]
      /\ feeAccumulator' = feeAccumulator + feeConfig.relayGasFeeUSDC
      /\ flatFees' = flatFees + feeConfig.relayGasFeeUSDC
      /\ UNCHANGED <<cumulativeDeposits, ctf, marketVars, poolVars, govVars,
                     feesPaid, now>>
  BY DEF authorizeBet, pf, shares
<1>9. r \in BetRecord /\ e \in LedgerEntry
  BY <1>2, <1>3, <1>4 DEF BetRecord, LedgerEntry, BetStatus
<1>10. RecordInv(r, e) /\ FeeInv(r, e, pf)
  BY <1>2, <1>3, <1>4 DEF RecordInv, FeeInv, Terminal
<1>11. r.status # "NONE" /\ r.market # NoMarket
  BY MarketAssumption
<1> HIDE DEF r, e, b
<1>12. betRecords' \in [Nullifier -> BetRecord] /\ ledger' \in [Nullifier -> LedgerEntry]
  BY <1>7, <1>8, <1>9 DEF Inv, TypeOK
<1>13. /\ betProtocolFee' \in [Nullifier -> Nat] /\ betCreatedAt' \in [Nullifier -> Nat]
       /\ supply' \in [Users -> Int] /\ feeAccumulator' \in Nat /\ flatFees' \in Nat
  <2>1. betProtocolFee' \in [Nullifier -> Nat] /\ betCreatedAt' \in [Nullifier -> Nat]
    BY <1>3, <1>8 DEF Inv, TypeOK
  <2>2. feeAccumulator' \in Nat /\ flatFees' \in Nat
    BY <1>5, <1>8 DEF Inv, TypeOK
  <2>3. supply' \in [Users -> Int]
    <3> HIDE DEF fee
    <3> QED
      BY <1>2, <1>5, <1>8 DEF Inv, TypeOK
  <2> QED
    BY <2>1, <2>2, <2>3
<1>14. TypeOK'
  BY <1>7, <1>8, <1>12, <1>13 DEF Inv, TypeOK, marketVars, poolVars, govVars
<1>15. RecordsInv' /\ FeesInv'
  BY <1>7, <1>8, <1>10 DEF Inv, TypeOK, RecordsInv, FeesInv
<1>16. BetIsSpent'
  BY <1>7, <1>8, <1>11 DEF Inv, TypeOK, BetIsSpent
<1> QED
  BY <1>7, <1>14, <1>15, <1>16 DEF Inv, NoteInv

(* adminCancelBet moves an ACTIVE record to FAILED.                          *)
LEMMA AdminCancelBetStep ==
  ASSUME Inv, NEW b \in Bets, adminCancelBet(b)
  PROVE  Inv'
<1> DEFINE r == WithStatus(betRecords[b], "FAILED")
<1>1. /\ b \in Nullifier /\ betRecords[b] \in BetRecord
      /\ betRecords[b].status = "ACTIVE"
      /\ RecordInv(betRecords[b], ledger[b])
      /\ FeeInv(betRecords[b], ledger[b], betProtocolFee[b])
  BY InvAt DEF adminCancelBet
<1>2. betRecords' = [betRecords EXCEPT ![b] = r]
  BY DEF adminCancelBet
<1>3. r \in BetRecord /\ r.status = "FAILED" /\ r.market = betRecords[b].market
  BY <1>1 DEF WithStatus, Update, BetRecord, BetStatus
<1>4. RecordInv(r, ledger[b]) /\ FeeInv(r, ledger[b], betProtocolFee[b])
  <2>1. /\ r.expected_shares = betRecords[b].expected_shares
        /\ r.bet_amount = betRecords[b].bet_amount
        /\ r.sold_shares = betRecords[b].sold_shares
        /\ r.sell_proceeds = betRecords[b].sell_proceeds
    BY DEF WithStatus, Update
  <2> HIDE DEF r
  <2>2. RecordInv(r, ledger[b])
    BY <1>1, <1>3, <2>1 DEF RecordInv
  <2>3. FeeInv(r, ledger[b], betProtocolFee[b])
    BY <1>1, <1>3 DEF FeeInv, Terminal
  <2> QED
    BY <2>2, <2>3
<1> HIDE DEF r
<1>5. UNCHANGED <<leaves, spent, betProtocolFee, ledger>>
  BY DEF adminCancelBet, noteVars, histVars
<1>6. TypeOK'
  BY <1>1, <1>2, <1>3 DEF adminCancelBet, Inv, TypeOK, noteVars, marketVars, poolVars,
     govVars, feeVars, histVars
<1>7. RecordsInv' /\ FeesInv'
  BY <1>1, <1>2, <1>4, <1>5 DEF Inv, TypeOK, RecordsInv, FeesInv
<1>8. BetIsSpent'
  BY <1>1, <1>2, <1>3, <1>5 DEF Inv, TypeOK, BetIsSpent
<1> QED
  BY <1>5, <1>6, <1>7, <1>8 DEF Inv, SpentClosed, LeafAfterSpent

-----------------------------------------------------------------------------
(* Steps that touch neither notes nor bets.                                *)

(* A call that leaves notes, nullifiers and bets alone keeps Inv.            *)
LEMMA FrameStep ==
  ASSUME Inv, TypeOK', UNCHANGED <<noteVars, betVars, ledger>>
  PROVE  Inv'
<1>1. NoteInv' /\ spent \subseteq spent'
  BY DEF Inv, NoteInv, SpentClosed, LeafAfterSpent, noteVars
<1> QED
  BY <1>1, NoteOnlyStep

(* resolveMarket and registerCondition touch no bet.                         *)
LEMMA MarketStep == ASSUME Inv, Market PROVE Inv'
<1>1. PICK m \in Markets :
        \/ \E p \in Payouts : CTFReports(m, p)
        \/ resolveMarket(m)
        \/ registerCondition(m)
  BY DEF Market
<1>2. CASE \E p \in Payouts : CTFReports(m, p)
  <2>1. PICK p \in Payouts : CTFReports(m, p)
    BY <1>2
  <2>2. p \in Payout
    BY PayoutAssumption
  <2>3. TypeOK'
    BY <2>1, <2>2 DEF CTFReports, Inv, TypeOK, noteVars, betVars, marketVars, poolVars,
       govVars, feeVars, histVars
  <2> QED
    BY <2>1, <2>3, FrameStep DEF CTFReports, histVars
<1>3. CASE resolveMarket(m)
  <2>1. ctf[m] \in Payout /\ ctf[m].den \in Nat \ {0}
    BY <1>3 DEF resolveMarket, Inv, TypeOK, Payout
  <2>2. PayoutPerShare(ctf[m]) \in [Sides -> Nat]
    <3>1. \A s \in Sides : ctf[m].num[s] \div ctf[m].den \in Nat
      BY <2>1, DivNat DEF Payout
    <3> QED
      BY <3>1 DEF PayoutPerShare
  <2>3. TypeOK'
    BY <1>3, <2>2 DEF resolveMarket, Inv, TypeOK, noteVars, betVars, poolVars,
       govVars, feeVars, histVars
  <2> QED
    BY <1>3, <2>3, FrameStep DEF resolveMarket, histVars
<1>4. CASE registerCondition(m)
  <2>1. TypeOK'
    BY <1>4 DEF registerCondition, Inv, TypeOK, noteVars, betVars, poolVars,
       govVars, feeVars, histVars
  <2> QED
    BY <1>4, <2>1, FrameStep DEF registerCondition, histVars
<1> QED
  BY <1>1, <1>2, <1>3, <1>4

(* Moving USDC touches no note and no bet.                                   *)
LEMMA PoolStep == ASSUME Inv, Pool PROVE Inv'
<1>1. PICK a \in TokenAmounts :
        \/ fundPolymarketWallet(a) \/ acknowledgePolymarketReturn(a)
        \/ ReceiveUSDC(a) \/ withdrawFees(a) \/ adminSweep(a)
  BY DEF Pool
<1>2. a \in Nat
  BY AmountAssumption
<1>3. /\ usdc' \in Nat /\ deployedToPolymarket' \in Nat
      /\ feeAccumulator' \in Nat /\ feesPaid' \in Nat /\ flatFees' \in Nat
  BY <1>1, <1>2 DEF fundPolymarketWallet, acknowledgePolymarketReturn, ReceiveUSDC,
     withdrawFees, adminSweep, Inv, TypeOK, feeVars
<1>4. UNCHANGED <<noteVars, betVars, cumulativeDeposits, ctf, marketVars, govVars, now,
                  histVars>>
  BY <1>1 DEF fundPolymarketWallet, acknowledgePolymarketReturn, ReceiveUSDC,
     withdrawFees, adminSweep
<1>5. TypeOK'
  BY <1>3, <1>4 DEF Inv, TypeOK, noteVars, betVars, marketVars, govVars, histVars
<1> QED
  BY <1>4, <1>5, FrameStep DEF histVars

(* The owner's setters touch no note and no bet.                             *)
LEMMA GovernStep == ASSUME Inv, Govern PROVE Inv'
<1>1. /\ feeConfig' \in FeeConfig /\ deploymentCap' \in Nat
      /\ signingLayerOperator' \in Operators /\ adminCancelTimelock' \in Nat
      /\ paused' \in BOOLEAN
  BY FeeAssumption, AmountAssumption DEF Govern, setFeeParams, setDeploymentCap,
     setSigningLayerOperator, setAdminCancelTimelock, pause, unpause, Inv, TypeOK
<1>2. UNCHANGED <<noteVars, betVars, cumulativeDeposits, ctf, marketVars, poolVars,
                  feeVars, now, histVars>>
  BY DEF Govern
<1>3. TypeOK'
  BY <1>1, <1>2 DEF Inv, TypeOK, noteVars, betVars, marketVars, poolVars, feeVars,
     histVars
<1> QED
  BY <1>2, <1>3, FrameStep DEF histVars

(* A new block touches nothing but the clock.                                *)
LEMMA TickStep == ASSUME Inv, Tick PROVE Inv'
<1>1. TypeOK'
  BY DEF Tick, Inv, TypeOK, noteVars, betVars, marketVars, poolVars, govVars, feeVars,
     histVars
<1> QED
  BY <1>1, FrameStep DEF Tick, histVars

(* Inv is a state predicate of the variables.                                *)
LEMMA StutterStep == ASSUME Inv, UNCHANGED vars PROVE Inv'
<1>1. TypeOK'
  BY DEF vars, Inv, TypeOK, noteVars, betVars, marketVars, poolVars, govVars, feeVars,
     histVars
<1> QED
  BY <1>1, FrameStep DEF vars, histVars

-----------------------------------------------------------------------------
(* The freshly initialized proxy satisfies Inv.                              *)
LEMMA InitInv == Init => Inv
<1> SUFFICES ASSUME Init PROVE Inv
  OBVIOUS
<1>1. NoBet \in BetRecord /\ NoBet.status = "NONE" /\ NoBet.market = NoMarket
  BY DEF NoBet, BetRecord, BetStatus, Sides
<1>2. NoLedger \in LedgerEntry
  BY DEF NoLedger, LedgerEntry
<1>3. RecordInv(NoBet, NoLedger) /\ FeeInv(NoBet, NoLedger, 0)
  BY DEF NoBet, NoLedger, RecordInv, FeeInv, Terminal
<1>4. NoPayout \in Payout
  BY DEF NoPayout, Payout
<1>5. TypeOK
  <2>1. /\ leaves \subseteq Note /\ spent \subseteq Nullifier
        /\ marketResolved \subseteq Markets /\ conditionIdOf \subseteq Markets
    BY DEF Init
  <2>2. /\ betRecords \in [Nullifier -> BetRecord] /\ betProtocolFee \in [Nullifier -> Nat]
        /\ betCreatedAt \in [Nullifier -> Nat] /\ ledger \in [Nullifier -> LedgerEntry]
    BY <1>1, <1>2 DEF Init
  <2>3. /\ cumulativeDeposits \in [Users -> Nat] /\ supply \in [Users -> Int]
        /\ ctf \in [Markets -> Payout] /\ pendingCredit \in [Markets -> [Sides -> Nat]]
    BY <1>4 DEF Init
  <2>4. /\ feeConfig \in FeeConfig /\ deploymentCap \in Nat /\ adminCancelTimelock \in Nat
        /\ signingLayerOperator \in Operators
    BY FeeAssumption, AmountAssumption DEF Init
  <2>5. /\ feeAccumulator \in Nat /\ usdc \in Nat /\ deployedToPolymarket \in Nat
        /\ paused \in BOOLEAN /\ now \in Nat /\ feesPaid \in Nat /\ flatFees \in Nat
    BY DEF Init
  <2> QED
    BY <2>1, <2>2, <2>3, <2>4, <2>5 DEF TypeOK
<1>6. RecordsInv /\ FeesInv
  BY <1>3 DEF Init, RecordsInv, FeesInv
<1>7. SpentClosed /\ LeafAfterSpent
  BY DEF Init, SpentClosed, LeafAfterSpent
<1>8. BetIsSpent
  BY <1>1 DEF Init, BetIsSpent
<1> QED
  BY <1>5, <1>6, <1>7, <1>8 DEF Inv

(* Inv is inductive: every call of the contract keeps it.                    *)
LEMMA NextInv == Inv /\ [Next]_vars => Inv'
<1> SUFFICES ASSUME Inv, [Next]_vars PROVE Inv'
  OBVIOUS
<1>1. CASE UserNotes
  <2>1. ASSUME NEW nt \in LiveNotes, NEW m \in Markets, NEW side \in Sides,
               NEW a \in BetAmounts, NEW p \in Prices, authorizeBet(nt, m, side, a, p)
        PROVE  Inv'
    BY <2>1, AuthorizeBetStep
  <2>2. ASSUME NEW nt \in LiveNotes, NEW s2 \in Slot, NEW s3 \in Slot, NEW s4 \in Slot,
               consolidate(nt, s2, s3, s4)
        PROVE  Inv'
    BY <2>2, ConsolidateStep
  <2>3. ASSUME NEW nt \in LiveNotes, NEW a \in WithdrawAmounts, NEW u \in Users,
               withdraw(nt, a, u)
        PROVE  Inv'
    BY <2>3, WithdrawStep
  <2>4. ASSUME NEW u \in Users, NEW s \in Secrets, NEW a \in DepositAmounts,
               deposit(u, s, a)
        PROVE  Inv'
    BY <2>4, DepositStep
  <2> QED
    BY <1>1, <2>1, <2>2, <2>3, <2>4 DEF UserNotes
<1>2. ASSUME NEW nt \in LiveNotes, NEW b \in Bets, NEW att \in Attestation,
             Reclaim(nt, b, att)
      PROVE  Inv'
  BY <1>2, CreditSettlementStep, BetCancellationCreditStep, NaCancellationCreditStep,
     ClosePositionStep, PartialFillCreditStep DEF Reclaim
<1>3. ASSUME NEW b \in Bets, adminCancelBet(b) PROVE Inv'
  BY <1>3, AdminCancelBetStep
<1>4. CASE Market
  BY <1>4, MarketStep
<1>5. CASE Pool
  BY <1>5, PoolStep
<1>6. CASE Govern
  BY <1>6, GovernStep
<1>7. CASE Tick
  BY <1>7, TickStep
<1>8. CASE UNCHANGED vars
  BY <1>8, StutterStep
<1> QED
  BY <1>1, <1>2, <1>3, <1>4, <1>5, <1>6, <1>7, <1>8 DEF Next

(* Inv holds of every reachable state.                                       *)
LEMMA SpecInv == Spec => []Inv
  BY InitInv, NextInv, PTL DEF Spec

(* Type correctness of the contract's state, for every instance.             *)
THEOREM TypeCorrect == Spec => []TypeOK
  BY SpecInv, PTL DEF Inv

(* A secret's chain never forks (NullifierRegistry and the nonce + 1 of the
   circuits), and every open bet stays within reach of the current note.     *)
THEOREM NotesNeverFork == Spec => []OneCurrentNote
<1>1. ASSUME Inv, NEW x \in LiveNotes, NEW y \in LiveNotes, x.secret = y.secret,
             x.nonce < y.nonce
      PROVE  FALSE
  <2> DEFINE p == <<y.secret, y.nonce - 1>>
  <2>1. x.nonce \in Nat /\ y.nonce \in Nat /\ x.nonce \in 0..(y.nonce - 1)
    BY <1>1, NonceAssumption DEF Inv, TypeOK, LiveNotes, Note
  <2>2. p \in spent /\ p[1] = y.secret /\ p[2] = y.nonce - 1
    BY <1>1, <2>1 DEF Inv, LeafAfterSpent, LiveNotes
  <2>3. <<y.secret, x.nonce>> \in spent
    BY <1>1, <2>1, <2>2 DEF Inv, SpentClosed
  <2> QED
    BY <1>1, <2>3 DEF LiveNotes, Spendable, NullifierOf
<1>2. Inv => OneCurrentNote
  <2> SUFFICES ASSUME Inv, NEW x \in LiveNotes, NEW y \in LiveNotes, x.secret = y.secret
               PROVE  x.nonce = y.nonce
    BY DEF OneCurrentNote
  <2>1. x.nonce \in Int /\ y.nonce \in Int
    BY NonceAssumption DEF Inv, TypeOK, LiveNotes, Note
  <2>2. ~(x.nonce < y.nonce) /\ ~(y.nonce < x.nonce)
    BY <1>1
  <2> QED
    BY <2>1, <2>2
<1> QED
  BY <1>2, SpecInv, PTL

(* Reclaiming an open bet needs bet_nonce < nonce; the current note of the
   bet's secret always satisfies it.                                         *)
THEOREM OpenBetsStayReachable == Spec => []OpenBetReachable
<1>1. Inv => OpenBetReachable
  <2> SUFFICES ASSUME Inv, NEW b \in Bets, NEW nt \in LiveNotes,
                      b[1] = nt.secret, ~(b[2] < nt.nonce)
               PROVE  FALSE
    BY DEF OpenBetReachable
  <2>1. b \in spent /\ b[2] \in Nat /\ nt.nonce \in 0..b[2]
    <3>1. b \in Nullifier /\ b \in spent
      BY InvAt DEF Inv, BetIsSpent
    <3>2. b[2] \in 0..MaxNonce /\ nt.nonce \in 0..MaxNonce
      BY <3>1 DEF Nullifier, LiveNotes, Inv, TypeOK, Note
    <3> QED
      BY <3>1, <3>2, NonceAssumption
  <2>2. <<nt.secret, nt.nonce>> \in spent
    BY <2>1 DEF Inv, SpentClosed
  <2> QED
    BY <2>2 DEF LiveNotes, Spendable, NullifierOf
<1> QED
  BY <1>1, SpecInv, PTL

(* No bet is paid twice, whatever attestations the operator signs: refunds,
   sales and settlement of one bet never overlap.                            *)
THEOREM BetsPaidOnce == Spec => []BetPaidOnce
<1>1. Inv => BetPaidOnce
  <2> SUFFICES ASSUME Inv, NEW b \in Nullifier
               PROVE  LET e == ledger[b]  r == betRecords[b] IN
                      /\ e.refunded <= e.stake
                      /\ e.settled + r.sold_shares <= r.expected_shares
                      /\ r.expected_shares <= e.shares
                      /\ e.proceeds = r.sell_proceeds
                      /\ r.status = "CANCELLED_CREDITED" =>
                            /\ e.refunded = e.stake
                            /\ e.settled = 0 /\ r.sold_shares = 0
    BY DEF BetPaidOnce
  <2>1. /\ RecordInv(betRecords[b], ledger[b])
        /\ betRecords[b] \in BetRecord /\ ledger[b] \in LedgerEntry
    BY DEF Inv, TypeOK, RecordsInv
  <2> QED
    BY <2>1 DEF RecordInv, BetRecord, LedgerEntry
<1> QED
  BY <1>1, SpecInv, PTL

(* The protocol fee of every bet is provisional, refunded or earned, exactly
   once (FC-14, SC-01).                                                      *)
THEOREM FeesResolvedOnce == Spec => []FeeResolvedOnce
<1>1. Inv => FeeResolvedOnce
  BY DEF Inv, FeesInv, FeeInv, FeeResolvedOnce
<1> QED
  BY <1>1, SpecInv, PTL

(* A terminal bet never changes again and is never paid again.               *)
THEOREM TerminalIsFinal == Spec => TerminalFinal
<1> DEFINE Kept == \A b \in Nullifier : betRecords[b].status \in Terminal =>
                      betRecords'[b] = betRecords[b] /\ ledger'[b] = ledger[b]
<1>1. Inv /\ [Next]_vars => Kept
  <2> SUFFICES ASSUME Inv, [Next]_vars PROVE Kept
    OBVIOUS
  <2>1. ASSUME NEW nt \in LiveNotes, NEW m \in Markets, NEW side \in Sides,
               NEW a \in BetAmounts, NEW p \in Prices, authorizeBet(nt, m, side, a, p)
        PROVE  Kept
    <3>1. NullifierOf(nt) \notin spent
      BY DEF LiveNotes, Spendable
    <3>2. \A b \in Nullifier : betRecords[b].status \in Terminal => b # NullifierOf(nt)
      BY <3>1 DEF Inv, BetIsSpent, Terminal
    <3> QED
      BY <2>1, <3>2 DEF authorizeBet, Inv, TypeOK
  <2>2. ASSUME NEW nt \in LiveNotes, NEW b \in Bets, NEW att \in Attestation,
               Reclaim(nt, b, att)
        PROVE  Kept
    <3>1. betRecords[b].status \notin Terminal
      BY <2>2 DEF Reclaim, creditSettlement, betCancellationCredit,
         naCancellationCredit, closePosition, partialFillCredit, Terminal
    <3>2. \A c \in Nullifier : c # b =>
            betRecords'[c] = betRecords[c] /\ ledger'[c] = ledger[c]
      BY <2>2 DEF Reclaim, creditSettlement, betCancellationCredit,
         naCancellationCredit, closePosition, partialFillCredit, Inv, TypeOK
    <3> QED
      BY <3>1, <3>2
  <2>3. ASSUME NEW b \in Bets, adminCancelBet(b) PROVE Kept
    <3>1. betRecords[b].status \notin Terminal
      BY <2>3 DEF adminCancelBet, Terminal
    <3> QED
      BY <2>3, <3>1 DEF adminCancelBet, histVars, Inv, TypeOK
  <2>4. CASE UNCHANGED <<betRecords, ledger>>
    BY <2>4
  <2>5. ASSUME UserNotes,
               ~(\E nt \in LiveNotes, m \in Markets, side \in Sides,
                    a \in BetAmounts, p \in Prices : authorizeBet(nt, m, side, a, p))
        PROVE  UNCHANGED <<betRecords, ledger>>
    BY <2>5 DEF UserNotes, deposit, withdraw, consolidate, betVars, histVars
  <2>6. ASSUME Market \/ Pool \/ Govern \/ Tick \/ UNCHANGED vars
        PROVE  UNCHANGED <<betRecords, ledger>>
    BY <2>6 DEF Market, CTFReports, resolveMarket, registerCondition, Pool,
       fundPolymarketWallet, acknowledgePolymarketReturn, ReceiveUSDC, withdrawFees,
       adminSweep, Govern, Tick, vars, betVars, histVars
  <2> HIDE DEF Kept
  <2> QED
    BY <2>1, <2>2, <2>3, <2>4, <2>5, <2>6 DEF Next
<1> QED
  BY <1>1, SpecInv, PTL DEF Spec, TerminalFinal

-----------------------------------------------------------------------------
(* Sums over a finite set.                                                 *)

\* A set of naturals that holds 0 and each successor of a member holds them all.
LEMMA Induct ==
    ASSUME NEW T, 0 \in T, \A n \in Nat : n \in T => n + 1 \in T
    PROVE  \A n \in Nat : n \in T
<1> SUFFICES ASSUME NEW c \in Nat, c \notin T PROVE FALSE
  OBVIOUS
<1> DEFINE R == {ss \in Nat \X Nat : ss[1] < ss[2]}
           U == {n \in Nat : n \notin T}
<1>1. IsWellFoundedOn(R, Nat)
  BY NatLessThanWellFounded DEF OpToRel
<1>2. U \in SUBSET Nat /\ U # {}
  OBVIOUS
<1>3. PICK n \in U : \A m \in U : ~(<<m, n>> \in R)
  BY <1>1, <1>2, WFMin
<1>4. n \in Nat /\ n # 0 /\ n \notin T
  OBVIOUS
<1>5. n - 1 \in Nat /\ n - 1 < n /\ (n - 1) + 1 = n
  BY <1>4
<1>6. n - 1 \in T
  BY <1>3, <1>5
<1> QED BY <1>4, <1>5, <1>6

\* The element that a fold takes out of a set first.
Pick(s) == CHOOSE x \in s : TRUE

\* it holds the partial sums of f over the subsets of S.
IsSum(it, f, S) ==
    /\ it[{}] = 0
    /\ \A s \in SUBSET S : s # {} => it[s] = f[Pick(s)] + it[s \ {Pick(s)}]

\* A set of subsets of S that holds a set whenever it holds the set without the element
\* picked holds them all.
LEMMA SubsetInduct ==
    ASSUME NEW S, IsFiniteSet(S), NEW T, {} \in T,
           \A s \in SUBSET S : s # {} /\ s \ {Pick(s)} \in T => s \in T
    PROVE  S \in T
<1> SUFFICES ASSUME S \notin T PROVE FALSE
  OBVIOUS
<1> DEFINE U == {s \in SUBSET S : s \notin T}
<1>1. PICK R : R = StrictSubsetOrdering(S) /\ IsWellFoundedOn(R, SUBSET S)
  <2>1. FiniteSubsetsOf(S) = SUBSET S
    BY FS_FiniteSubsetsOfFinite
  <2>2. IsWellFoundedOn(StrictSubsetOrdering(S), FiniteSubsetsOf(S))
    BY FS_StrictSubsetOrderingWellFounded, Zenon
  <2> QED BY <2>1, <2>2
<1>2. U \subseteq SUBSET S /\ U # {}
  OBVIOUS
<1> HIDE DEF U
<1>3. PICK s \in U : \A t \in U : ~(<<t, s>> \in R)
  BY <1>1, <1>2, WFMin, Zenon
<1> USE DEF U
<1>4. s \in SUBSET S /\ s \notin T /\ s # {}
  OBVIOUS
<1>5. Pick(s) \in s
  BY <1>4 DEF Pick
<1>6. PICK t : t = s \ {Pick(s)}
  OBVIOUS
<1>7. t \in SUBSET S /\ <<t, s>> \in R
  BY <1>1, <1>4, <1>5, <1>6 DEF StrictSubsetOrdering
<1>8. t \in T
  BY <1>3, <1>7
<1> QED BY <1>4, <1>6, <1>8

\* A fold by addition is such a sum.
LEMMA SumIs ==
    ASSUME NEW S, IsFiniteSet(S), NEW f
    PROVE  \E it : IsSum(it, f, S) /\ SumFunctionOnSet(f, S) = it[S]
<1> DEFINE Sub(n) == {s \in SUBSET S : Cardinality(s) <= n}
           Def(it, s) == IF s = {} THEN 0 ELSE f[Pick(s)] + it[s \ {Pick(s)}]
           Fits(n, it) == it = [s \in Sub(n) |-> Def(it, s)]
           T == {n \in Nat : \E it : Fits(n, it)}
<1>0. \A s \in SUBSET S : /\ Cardinality(s) \in Nat /\ (Cardinality(s) = 0 <=> s = {})
                          /\ s # {} => Pick(s) \in s /\ s \ {Pick(s)} \in SUBSET S
                                       /\ Cardinality(s \ {Pick(s)}) = Cardinality(s) - 1
  <2> SUFFICES ASSUME NEW s \in SUBSET S
               PROVE  /\ Cardinality(s) \in Nat /\ (Cardinality(s) = 0 <=> s = {})
                      /\ s # {} => Pick(s) \in s /\ s \ {Pick(s)} \in SUBSET S
                                   /\ Cardinality(s \ {Pick(s)}) = Cardinality(s) - 1
    OBVIOUS
  <2>1. IsFiniteSet(s)
    BY FS_Subset
  <2>2. Cardinality(s) \in Nat /\ (Cardinality(s) = 0 <=> s = {})
    BY <2>1, FS_CardinalityType, FS_EmptySet
  <2>3. s # {} => Pick(s) \in s
    BY DEF Pick
  <2> QED BY <2>1, <2>2, <2>3, FS_RemoveElement
<1>1. 0 \in T
  <2> DEFINE g == [s \in Sub(0) |-> 0]
  <2>1. ASSUME NEW s \in Sub(0) PROVE s = {}
    <3>1. Cardinality(s) \in Nat /\ Cardinality(s) <= 0 /\ (Cardinality(s) = 0 => s = {})
      BY <1>0
    <3> QED BY <3>1
  <2>2. Fits(0, g)
    BY <2>1
  <2> QED BY <2>2
<1>2. ASSUME NEW n \in Nat, n \in T PROVE n + 1 \in T
  <2>1. PICK it : Fits(n, it)
    BY <1>2
  <2> DEFINE g == [s \in Sub(n + 1) |-> Def(it, s)]
  <2>2. ASSUME NEW s \in Sub(n + 1) PROVE Def(it, s) = Def(g, s)
    <3>1. CASE s = {}
      BY <3>1
    <3>2. CASE s # {}
      <4>1. PICK t : t = s \ {Pick(s)}
        OBVIOUS
      <4>2. t \in Sub(n) /\ t \in Sub(n + 1)
        BY <1>0, <3>2, <4>1
      <4>3. it[t] = Def(it, t) /\ g[t] = Def(it, t)
        BY <2>1, <4>2
      <4> HIDE DEF g, Sub
      <4> QED BY <3>2, <4>1, <4>3
    <3> QED BY <3>1, <3>2
  <2> HIDE DEF Def, Sub
  <2>3. g = [s \in Sub(n + 1) |-> Def(g, s)]
    BY <2>2
  <2> HIDE DEF g
  <2>4. Fits(n + 1, g)
    BY <2>3
  <2> HIDE DEF Fits
  <2> QED BY <2>4
<1> HIDE DEF T
<1>3. Cardinality(S) \in T
  BY <1>0, <1>1, <1>2, Induct
<1>4. PICK it : Fits(Cardinality(S), it)
  BY <1>3 DEF T
<1>5. Sub(Cardinality(S)) = SUBSET S
  BY FS_Subset
<1>6. it = [s \in SUBSET S |-> Def(it, s)]
  BY <1>4, <1>5
<1>7. PICK jt : /\ jt = [s \in SUBSET S |-> Def(jt, s)]
                /\ SumFunctionOnSet(f, S) = jt[S]
  <2> DEFINE jt == CHOOSE g : g = [s \in SUBSET S |-> Def(g, s)]
  <2>1. jt = [s \in SUBSET S |-> Def(jt, s)]
    BY <1>6
  <2>2. SumFunctionOnSet(f, S) = jt[S]
    BY DEF SumFunctionOnSet, FoldFunctionOnSet, MapThenFoldSet, Pick
  <2> QED BY <2>1, <2>2
<1>8. IsSum(jt, f, S)
  BY <1>7 DEF IsSum
<1> QED BY <1>7, <1>8

\* A sum of naturals is one.
LEMMA SumNat ==
    ASSUME NEW S, IsFiniteSet(S), NEW f \in [S -> Nat]
    PROVE  SumFunction(f) \in Nat
<1>1. PICK it : IsSum(it, f, S) /\ SumFunctionOnSet(f, S) = it[S]
  BY SumIs
<1> DEFINE T == {s \in SUBSET S : it[s] \in Nat}
<1>2. {} \in T
  BY <1>1 DEF IsSum
<1>3. ASSUME NEW s \in SUBSET S, s # {}, s \ {Pick(s)} \in T PROVE s \in T
  <2>1. Pick(s) \in S
    BY <1>3 DEF Pick
  <2>2. f[Pick(s)] \in Nat /\ it[s] = f[Pick(s)] + it[s \ {Pick(s)}]
    BY <1>1, <1>3, <2>1 DEF IsSum
  <2> QED BY <1>3, <2>2
<1> HIDE DEF T
<1>4. S \in T
  BY <1>2, <1>3, SubsetInduct
<1> QED BY <1>1, <1>4 DEF T, SumFunction

\* Changing one summand changes the sum by as much.
LEMMA SumChange ==
    ASSUME NEW S, IsFiniteSet(S), NEW f \in [S -> Nat], NEW x \in S, NEW v \in Nat
    PROVE  SumFunction([f EXCEPT ![x] = v]) = (SumFunction(f) - f[x]) + v
<1> DEFINE g == [f EXCEPT ![x] = v]
<1>1. g \in [S -> Nat] /\ g[x] = v /\ \A y \in S : y # x => g[y] = f[y]
  OBVIOUS
<1> HIDE DEF g
<1>2. PICK it : IsSum(it, f, S) /\ SumFunctionOnSet(f, S) = it[S]
  BY SumIs
<1>3. PICK jt : IsSum(jt, g, S) /\ SumFunctionOnSet(g, S) = jt[S]
  BY SumIs
<1> DEFINE T == {s \in SUBSET S : it[s] \in Nat /\ jt[s] = IF x \in s THEN (it[s] - f[x]) + v ELSE it[s]}
<1>4. {} \in T
  BY <1>2, <1>3 DEF IsSum
<1>5. ASSUME NEW s \in SUBSET S, s # {}, s \ {Pick(s)} \in T PROVE s \in T
  <2>1. Pick(s) \in S /\ Pick(s) \in s
    BY <1>5 DEF Pick
  <2>2. PICK y, t : y = Pick(s) /\ t = s \ {y}
    OBVIOUS
  <2>3. it[s] = f[y] + it[t] /\ jt[s] = g[y] + jt[t]
    BY <1>2, <1>3, <1>5, <2>2 DEF IsSum
  <2>4. y \in S /\ y \in s /\ f[y] \in Nat /\ f[x] \in Nat /\ (x \in t <=> x \in s /\ x # y)
    BY <2>1, <2>2
  <2>5. it[t] \in Nat /\ jt[t] = IF x \in t THEN (it[t] - f[x]) + v ELSE it[t]
    BY <1>5, <2>2
  <2>6. CASE y = x
    BY <1>1, <2>3, <2>4, <2>5, <2>6
  <2>7. CASE y # x
    <3>1. g[y] = f[y]
      BY <1>1, <2>4, <2>7
    <3> QED BY <2>3, <2>4, <2>5, <2>7, <3>1
  <2> QED BY <2>6, <2>7
<1> HIDE DEF T
<1>6. S \in T
  BY <1>4, <1>5, SubsetInduct
<1> QED BY <1>1, <1>2, <1>3, <1>6 DEF T, SumFunction, g

\* No summand is larger, nor is the sum.
LEMMA SumMonotone ==
    ASSUME NEW S, IsFiniteSet(S), NEW f \in [S -> Nat], NEW g \in [S -> Nat],
           \A x \in S : f[x] <= g[x]
    PROVE  SumFunction(f) <= SumFunction(g)
<1>1. PICK it : IsSum(it, f, S) /\ SumFunctionOnSet(f, S) = it[S]
  BY SumIs
<1>2. PICK jt : IsSum(jt, g, S) /\ SumFunctionOnSet(g, S) = jt[S]
  BY SumIs
<1> DEFINE T == {s \in SUBSET S : it[s] \in Nat /\ jt[s] \in Nat /\ it[s] <= jt[s]}
<1>3. {} \in T
  BY <1>1, <1>2 DEF IsSum
<1>4. ASSUME NEW s \in SUBSET S, s # {}, s \ {Pick(s)} \in T PROVE s \in T
  <2>1. PICK y, t : y = Pick(s) /\ t = s \ {y}
    OBVIOUS
  <2>2. y \in S /\ f[y] \in Nat /\ g[y] \in Nat /\ f[y] <= g[y]
    BY <1>4, <2>1 DEF Pick
  <2>3. it[s] = f[y] + it[t] /\ jt[s] = g[y] + jt[t]
    BY <1>1, <1>2, <1>4, <2>1 DEF IsSum
  <2>4. it[t] \in Nat /\ jt[t] \in Nat /\ it[t] <= jt[t]
    BY <1>4, <2>1
  <2> QED BY <2>2, <2>3, <2>4
<1> HIDE DEF T
<1>5. S \in T
  BY <1>3, <1>4, SubsetInduct
<1> QED BY <1>1, <1>2, <1>5 DEF T, SumFunction

\* The sum of nothing but zeros.
LEMMA SumOfZeros ==
    ASSUME NEW S, IsFiniteSet(S)
    PROVE  SumFunction([x \in S |-> 0]) = 0
<1> DEFINE f == [x \in S |-> 0]
<1>1. PICK it : IsSum(it, f, S) /\ SumFunctionOnSet(f, S) = it[S]
  BY SumIs
<1> DEFINE T == {s \in SUBSET S : it[s] = 0}
<1>2. {} \in T
  BY <1>1 DEF IsSum
<1>3. ASSUME NEW s \in SUBSET S, s # {}, s \ {Pick(s)} \in T PROVE s \in T
  <2>1. Pick(s) \in S
    BY <1>3 DEF Pick
  <2>2. f[Pick(s)] = 0 /\ it[s] = f[Pick(s)] + it[s \ {Pick(s)}]
    BY <1>1, <1>3, <2>1 DEF IsSum
  <2> QED BY <1>3, <2>2
<1> HIDE DEF T
<1>4. S \in T
  BY <1>2, <1>3, SubsetInduct
<1> QED BY <1>1, <1>4 DEF T, SumFunction

\* Nullifiers are as many as secrets and nonces.
LEMMA NullifiersFinite == IsFiniteSet(Secrets) => IsFiniteSet(Nullifier)
<1>1. IsFiniteSet(0..MaxNonce)
  BY NonceAssumption, FS_Interval
<1> QED BY <1>1, FS_Product DEF Nullifier

-----------------------------------------------------------------------------
(* Fees.                                                                   *)

\* A bet that was not made has earned no fee, and what is earned is claimable or paid.
FreshInv == \A b \in Nullifier : betRecords[b].status = "NONE" => ledger[b].feeEarned = 0

ClaimInv == FreshInv /\ FeesClaimable

\* The fee earned by each bet.
EarnedBy(l) == [b \in Nullifier |-> l[b].feeEarned]

\* What a bet earns, and the flat fee charged with it, become claimable.
LEMMA EarnStep ==
    ASSUME IsFiniteSet(Secrets), Inv, FeesClaimable, NEW b \in Nullifier, NEW d \in Nat, NEW flat \in Nat,
           NEW e, e.feeEarned = ledger[b].feeEarned + d,
           ledger' = [ledger EXCEPT ![b] = e],
           feeAccumulator' = (feeAccumulator + d) + flat, flatFees' = flatFees + flat,
           feesPaid' = feesPaid
    PROVE  FeesClaimable'
<1>1. PICK f : f = EarnedBy(ledger)
  OBVIOUS
<1>2. /\ f \in [Nullifier -> Nat] /\ \A n \in Nullifier : f[n] = ledger[n].feeEarned
      /\ feeAccumulator \in Nat /\ feesPaid \in Nat /\ flatFees \in Nat
      /\ ledger \in [Nullifier -> LedgerEntry]
  BY <1>1 DEF Inv, TypeOK, LedgerEntry, EarnedBy
<1>3. PICK v \in Nat : v = f[b] + d
  BY <1>2
<1>4. EarnedBy(ledger') = [f EXCEPT ![b] = v]
  <2>1. ASSUME NEW n \in Nullifier PROVE ledger'[n].feeEarned = [f EXCEPT ![b] = v][n]
    BY <1>2, <1>3
  <2> QED BY <1>2, <2>1 DEF EarnedBy
<1>5. SumFunction([f EXCEPT ![b] = v]) = (SumFunction(f) - f[b]) + v /\ SumFunction(f) \in Nat
  BY <1>2, NullifiersFinite, SumChange, SumNat
<1>6. feeAccumulator + feesPaid = flatFees + SumFunction(f)
  BY <1>1 DEF FeesClaimable, EarnedBy
<1>7. PICK s \in Nat, t \in Int : /\ s = SumFunction(f) /\ t = SumFunction(EarnedBy(ledger')) /\ t = s + d
  BY <1>2, <1>3, <1>4, <1>5
<1>8. feeAccumulator' + feesPaid' = flatFees' + t
  BY <1>2, <1>6, <1>7
<1> QED BY <1>7, <1>8 DEF FeesClaimable, EarnedBy

\* A call that pays on a bet keeps ClaimInv when it releases what the bet earns.
LEMMA ReclaimClaim ==
    ASSUME IsFiniteSet(Secrets), Inv, ClaimInv, NEW b \in Nullifier, NEW d \in Nat,
           NEW e, e.feeEarned = ledger[b].feeEarned + d, ledger' = [ledger EXCEPT ![b] = e],
           feeAccumulator' = feeAccumulator + d, flatFees' = flatFees, feesPaid' = feesPaid,
           NEW r, r.status # "NONE", betRecords' = [betRecords EXCEPT ![b] = r]
    PROVE  ClaimInv'
<1>1. PICK flat \in Nat : /\ feeAccumulator' = (feeAccumulator + d) + flat
                          /\ flatFees' = flatFees + flat
  <2>1. feeAccumulator + d = (feeAccumulator + d) + 0 /\ flatFees = flatFees + 0
    BY DEF Inv, TypeOK
  <2> QED BY <2>1
<1>2. FeesClaimable
  BY DEF ClaimInv
<1>3. FeesClaimable'
  BY <1>1, <1>2, EarnStep
<1>4. FreshInv'
  BY DEF ClaimInv, FreshInv, Inv, TypeOK
<1> QED BY <1>3, <1>4 DEF ClaimInv

\* So does each of the five reclaims.
LEMMA ReclaimKeepsClaim ==
    ASSUME IsFiniteSet(Secrets), Inv, ClaimInv, NEW nt, NEW b \in Bets, NEW att \in Attestation,
           Reclaim(nt, b, att)
    PROVE  ClaimInv'
<1>1. /\ b \in Nullifier /\ betProtocolFee[b] \in Nat /\ betRecords[b] \in BetRecord
      /\ feeAccumulator \in Nat /\ betRecords[b].status # "NONE"
  BY InvAt DEF Inv, TypeOK
<1>2. ASSUME NEW d \in Nat, NEW x1, NEW x2, NEW x3, NEW x4, NEW r, r.status # "NONE",
             ledger' = [ledger EXCEPT ![b] = Paid(@, x1, x2, d, x3, x4)],
             feeAccumulator' = feeAccumulator + d, flatFees' = flatFees, feesPaid' = feesPaid,
             betRecords' = [betRecords EXCEPT ![b] = r]
      PROVE  ClaimInv'
  <2>1. PICK e : e = Paid(ledger[b], x1, x2, d, x3, x4)
    OBVIOUS
  <2>2. e.feeEarned = ledger[b].feeEarned + d
    BY <2>1 DEF Paid
  <2>3. ledger' = [ledger EXCEPT ![b] = e]
    BY <1>2, <2>1
  <2> QED BY <1>1, <1>2, <2>2, <2>3, ReclaimClaim
<1>3. ASSUME NEW s, NEW n1, NEW n2, NEW n3, NEW n4, s # "NONE"
      PROVE  Update(betRecords[b], s, n1, n2, n3, n4).status # "NONE"
  BY <1>3 DEF Update
<1>4. CASE creditSettlement(nt, b, att)
  <2>1. PICK r : r = WithStatus(betRecords[b], "CREDITED")
    OBVIOUS
  <2>2. r.status # "NONE" /\ betRecords' = [betRecords EXCEPT ![b] = r]
    BY <1>4, <2>1 DEF creditSettlement, WithStatus, Update
  <2> QED BY <1>1, <1>2, <1>4, <2>2 DEF creditSettlement, ReleaseProtocolFee
<1>5. CASE betCancellationCredit(nt, b, att)
  <2>1. PICK r : r = WithStatus(betRecords[b], "CANCELLED_CREDITED")
    OBVIOUS
  <2>2. r.status # "NONE" /\ betRecords' = [betRecords EXCEPT ![b] = r]
    BY <1>5, <2>1 DEF betCancellationCredit, WithStatus, Update
  <2>3. feeAccumulator' = feeAccumulator + 0 /\ flatFees' = flatFees /\ feesPaid' = feesPaid
    BY <1>1, <1>5 DEF betCancellationCredit, feeVars
  <2> QED BY <1>2, <1>5, <2>2, <2>3 DEF betCancellationCredit
<1>6. CASE naCancellationCredit(nt, b, att)
  <2>1. PICK r : r = WithStatus(betRecords[b], "CANCELLED_CREDITED")
    OBVIOUS
  <2>2. r.status # "NONE" /\ betRecords' = [betRecords EXCEPT ![b] = r]
    BY <1>6, <2>1 DEF naCancellationCredit, WithStatus, Update
  <2> QED BY <1>1, <1>2, <1>6, <2>2 DEF naCancellationCredit, ReleaseProtocolFee
<1>7. CASE closePosition(nt, b, att)
  <2> DEFINE rec == betRecords[b]
             full == att.amountA = rec.expected_shares
  <2>1. PICK r : r = Update(rec, IF full THEN "CLOSED_CREDITED" ELSE "FILLED",
                            rec.expected_shares, rec.bet_amount, att.amountA, att.amountB)
    OBVIOUS
  <2>2. r.status # "NONE" /\ betRecords' = [betRecords EXCEPT ![b] = r]
    BY <1>7, <2>1 DEF closePosition, Update
  <2>3. PICK d \in Nat : d = IF full THEN betProtocolFee[b] ELSE 0
    BY <1>1
  <2>4. feeAccumulator' = feeAccumulator + d /\ flatFees' = flatFees /\ feesPaid' = feesPaid
    BY <1>1, <1>7, <2>3 DEF closePosition, ReleaseProtocolFee
  <2>5. ledger' = [ledger EXCEPT ![b] = Paid(@, 0, 0, d, att.amountB - rec.sell_proceeds, 0)]
    BY <1>7, <2>3 DEF closePosition
  <2> HIDE DEF full, rec
  <2> QED BY <1>2, <2>2, <2>4, <2>5
<1>8. CASE partialFillCredit(nt, b, att)
  <2>1. PICK r : r = Normalised(betRecords[b], att)
    OBVIOUS
  <2>2. r.status # "NONE" /\ betRecords' = [betRecords EXCEPT ![b] = r]
    BY <1>8, <2>1 DEF partialFillCredit, Normalised, Update
  <2>3. PICK q, d : /\ q = RefundedFee(betProtocolFee[b], betRecords[b].bet_amount, att.amountB)
                    /\ d = betProtocolFee[b] - q
    OBVIOUS
  <2>4. d \in Nat
    <3>1. att.amountB \in Nat /\ 0 < att.amountB /\ att.amountB <= betRecords[b].bet_amount
      BY <1>8, AmountAssumption DEF partialFillCredit, IsPartialFill, Attestation
    <3> QED BY <1>1, <2>3, <3>1, RefundedFeeBound DEF BetRecord
  <2> QED BY <1>2, <1>8, <2>2, <2>3, <2>4 DEF partialFillCredit
<1> QED BY <1>4, <1>5, <1>6, <1>7, <1>8 DEF Reclaim

\* A new bet earns nothing yet; its flat fee is claimable at once.
LEMMA AuthorizeClaim ==
    ASSUME IsFiniteSet(Secrets), Inv, ClaimInv, NEW nt \in LiveNotes, NEW m \in Markets,
           NEW side \in Sides, NEW a \in BetAmounts, NEW p \in Prices, authorizeBet(nt, m, side, a, p)
    PROVE  ClaimInv'
<1>1. PICK b \in Nullifier : b = NullifierOf(nt)
  BY DEF LiveNotes, Inv, TypeOK, Note, NullifierOf, Nullifier
<1>2. ledger[b].feeEarned = 0
  <2>1. b \notin spent
    BY <1>1 DEF LiveNotes, Spendable
  <2> QED BY <2>1 DEF Inv, BetIsSpent, ClaimInv, FreshInv
<1>3. PICK e : ledger' = [ledger EXCEPT ![b] = e] /\ e.feeEarned = 0
  <2> DEFINE e == [stake |-> a, fee |-> ProtocolFee(a), shares |-> ExpectedShares(a, p),
                   refunded |-> 0, feeRefunded |-> 0, feeEarned |-> 0, proceeds |-> 0,
                   settled |-> 0]
  <2>1. ledger' = [ledger EXCEPT ![b] = e]
    BY <1>1 DEF authorizeBet
  <2>2. e.feeEarned = 0
    OBVIOUS
  <2> HIDE DEF e
  <2> QED BY <2>1, <2>2
<1>4. PICK r : betRecords' = [betRecords EXCEPT ![b] = r] /\ r.status # "NONE"
  <2> DEFINE r == [status |-> "ACTIVE", market |-> m, side |-> side,
                   expected_shares |-> ExpectedShares(a, p), bet_amount |-> a,
                   sold_shares |-> 0, sell_proceeds |-> 0]
  <2>1. betRecords' = [betRecords EXCEPT ![b] = r]
    BY <1>1 DEF authorizeBet
  <2>2. r.status # "NONE"
    OBVIOUS
  <2> HIDE DEF r
  <2> QED BY <2>1, <2>2
<1>5. PICK flat \in Nat, d \in Nat :
         /\ d = 0 /\ e.feeEarned = ledger[b].feeEarned + d
         /\ feeAccumulator' = (feeAccumulator + d) + flat /\ flatFees' = flatFees + flat
         /\ feesPaid' = feesPaid
  <2>1. feeConfig.relayGasFeeUSDC \in Nat /\ feeAccumulator \in Nat
    BY DEF Inv, TypeOK, FeeConfig
  <2> QED BY <1>2, <1>3, <2>1 DEF authorizeBet
<1>6. FeesClaimable'
  BY <1>3, <1>5, EarnStep DEF ClaimInv
<1>7. FreshInv'
  BY <1>3, <1>4 DEF ClaimInv, FreshInv, Inv, TypeOK
<1> QED BY <1>6, <1>7 DEF ClaimInv

\* Steps that touch no bet move the fees between the three counters.
LEMMA CountersClaim ==
    ASSUME Inv, ClaimInv, UNCHANGED ledger,
           \A b \in Nullifier : betRecords'[b].status = "NONE" => betRecords[b].status = "NONE",
           NEW d \in Int, NEW q \in Int, feeAccumulator' = (feeAccumulator + d) - q,
           flatFees' = flatFees + d, feesPaid' = feesPaid + q, IsFiniteSet(Secrets)
    PROVE  ClaimInv'
<1>1. FreshInv'
  BY DEF ClaimInv, FreshInv
<1>2. PICK s : s = SumFunction(EarnedBy(ledger))
  OBVIOUS
<1>3. s \in Nat
  <2>1. EarnedBy(ledger) \in [Nullifier -> Nat]
    BY DEF Inv, TypeOK, LedgerEntry, EarnedBy
  <2> QED BY <1>2, <2>1, NullifiersFinite, SumNat
<1>4. feeAccumulator \in Int /\ feesPaid \in Int /\ flatFees \in Int
  BY DEF Inv, TypeOK
<1>5. feeAccumulator + feesPaid = flatFees + s
  BY <1>2 DEF ClaimInv, FeesClaimable, EarnedBy
<1>6. feeAccumulator' + feesPaid' = flatFees' + s
  BY <1>3, <1>4, <1>5
<1>7. FeesClaimable'
  BY <1>2, <1>6 DEF FeesClaimable, EarnedBy
<1> QED BY <1>1, <1>7 DEF ClaimInv

\* ClaimInv is inductive with Inv.
LEMMA NextClaim ==
    ASSUME IsFiniteSet(Secrets), Inv, ClaimInv, [Next]_vars
    PROVE  ClaimInv'
<1>1. /\ feeAccumulator \in Int /\ feesPaid \in Int /\ flatFees \in Int
      /\ feeConfig.withdrawalFeeUSDC \in Int /\ betRecords \in [Nullifier -> BetRecord]
  BY DEF Inv, TypeOK, FeeConfig
<1>2. ASSUME NEW nt \in LiveNotes, NEW m \in Markets, NEW side \in Sides,
             NEW a \in BetAmounts, NEW p \in Prices, authorizeBet(nt, m, side, a, p)
      PROVE  ClaimInv'
  BY <1>2, AuthorizeClaim
<1>3. ASSUME NEW nt \in LiveNotes, NEW b \in Bets, NEW att \in Attestation, Reclaim(nt, b, att)
      PROVE  ClaimInv'
  BY <1>3, ReclaimKeepsClaim
<1>4. ASSUME NEW nt \in LiveNotes, NEW a \in WithdrawAmounts, NEW u \in Users, withdraw(nt, a, u)
      PROVE  ClaimInv'
  <2>1. PICK d \in Int, q \in Int :
           /\ q = 0 /\ d = feeConfig.withdrawalFeeUSDC
           /\ feeAccumulator' = (feeAccumulator + d) - q /\ flatFees' = flatFees + d
           /\ feesPaid' = feesPaid + q /\ ledger' = ledger /\ betRecords' = betRecords
    BY <1>1, <1>4 DEF withdraw, betVars
  <2> QED BY <1>1, <2>1, CountersClaim
<1>5. ASSUME NEW a \in TokenAmounts, withdrawFees(a)
      PROVE  ClaimInv'
  <2>1. PICK d \in Int, q \in Int :
           /\ q = a /\ d = 0
           /\ feeAccumulator' = (feeAccumulator + d) - q /\ flatFees' = flatFees + d
           /\ feesPaid' = feesPaid + q /\ ledger' = ledger /\ betRecords' = betRecords
    BY <1>1, <1>5, AmountAssumption DEF withdrawFees, betVars, histVars
  <2> QED BY <1>1, <2>1, CountersClaim
<1>6. ASSUME NEW b \in Bets, adminCancelBet(b)
      PROVE  ClaimInv'
  <2>1. PICK z \in Int : /\ feeAccumulator' = (feeAccumulator + z) - z /\ feesPaid' = feesPaid + z
                         /\ flatFees' = flatFees + z /\ ledger' = ledger
    <3>1. UNCHANGED <<feeAccumulator, feesPaid, flatFees, ledger>>
      BY <1>6 DEF adminCancelBet, feeVars, histVars
    <3>2. /\ (feeAccumulator + 0) - 0 = feeAccumulator /\ feesPaid + 0 = feesPaid
          /\ flatFees + 0 = flatFees
      BY <1>1
    <3> QED BY <3>1, <3>2
  <2>2. \A n \in Nullifier : betRecords'[n].status = "NONE" => betRecords[n].status = "NONE"
    BY <1>1, <1>6 DEF adminCancelBet, WithStatus, Update
  <2> QED BY <1>1, <2>1, <2>2, CountersClaim
<1>7. CASE UNCHANGED <<feeAccumulator, feesPaid, flatFees, ledger, betRecords>>
  <2>1. PICK z \in Int : /\ feeAccumulator' = (feeAccumulator + z) - z /\ feesPaid' = feesPaid + z
                         /\ flatFees' = flatFees + z
    <3>1. /\ (feeAccumulator + 0) - 0 = feeAccumulator /\ feesPaid + 0 = feesPaid
          /\ flatFees + 0 = flatFees
      BY <1>1
    <3> QED BY <1>7, <3>1
  <2> QED BY <1>1, <1>7, <2>1, CountersClaim
<1>8. ASSUME NEW u \in Users, NEW s \in Secrets, NEW a \in DepositAmounts, deposit(u, s, a)
      PROVE  ClaimInv'
  BY <1>7, <1>8 DEF deposit, feeVars, betVars
<1>9. ASSUME NEW n1 \in LiveNotes, NEW s2 \in Slot, NEW s3 \in Slot, NEW s4 \in Slot,
             consolidate(n1, s2, s3, s4)
      PROVE  ClaimInv'
  BY <1>7, <1>9 DEF consolidate, feeVars, betVars, histVars
<1>10. CASE Market
  BY <1>7, <1>10 DEF Market, CTFReports, resolveMarket, registerCondition, feeVars, betVars, histVars
<1>11. CASE Govern \/ Tick \/ UNCHANGED vars
  BY <1>7, <1>11 DEF Govern, Tick, vars, feeVars, betVars, histVars
<1>12. ASSUME NEW a \in TokenAmounts,
              \/ fundPolymarketWallet(a) \/ acknowledgePolymarketReturn(a)
              \/ ReceiveUSDC(a) \/ adminSweep(a)
       PROVE  ClaimInv'
  BY <1>7, <1>12 DEF fundPolymarketWallet, acknowledgePolymarketReturn, ReceiveUSDC, adminSweep,
     feeVars, betVars, histVars
<1>13. CASE UserNotes
  BY <1>2, <1>4, <1>8, <1>9, <1>13 DEF UserNotes
<1>14. CASE Pool
  BY <1>5, <1>12, <1>14 DEF Pool
<1> QED BY <1>3, <1>6, <1>10, <1>11, <1>13, <1>14 DEF Next

\* No fee is claimable before a bet.
LEMMA InitClaim == ASSUME IsFiniteSet(Secrets), Init PROVE ClaimInv
<1>1. EarnedBy(ledger) = [b \in Nullifier |-> 0]
  BY DEF Init, EarnedBy, NoLedger
<1>2. FeesClaimable
  BY <1>1, NullifiersFinite, SumOfZeros DEF Init, FeesClaimable, EarnedBy
<1>3. FreshInv
  BY DEF Init, FreshInv, NoLedger
<1> QED BY <1>2, <1>3 DEF ClaimInv

(* The fee accumulator is strictly claimable, for every number of bets and notes and any
   operator: it is what was charged and earned, less what was withdrawn (_releaseProtocolFee,
   withdrawFees, SC-01).                                                                    *)
THEOREM FeesStayClaimable ==
    ASSUME IsFiniteSet(Secrets)
    PROVE  Spec => []FeesClaimable
<1>1. Init => Inv /\ ClaimInv
  BY InitInv, InitClaim
<1>2. (Inv /\ ClaimInv) /\ [Next]_vars => (Inv /\ ClaimInv)'
  BY NextInv, NextClaim
<1>3. Inv /\ ClaimInv => FeesClaimable
  BY DEF ClaimInv
<1> QED BY <1>1, <1>2, <1>3, PTL DEF Spec

(* While the vault is paused no note moves and no bet is paid, whatever is called
   (whenNotPaused).                                                               *)
THEOREM PauseFreezes == Spec => PauseFreezesNotes
<1> DEFINE Frozen == paused => /\ UNCHANGED <<noteVars, histVars, betProtocolFee>>
                               /\ deployedToPolymarket' <= deployedToPolymarket
<1>1. Inv /\ [Next]_vars => Frozen
  <2> SUFFICES ASSUME Inv, [Next]_vars, paused PROVE Frozen
    OBVIOUS
  <2>1. deployedToPolymarket \in Int
    BY DEF Inv, TypeOK
  <2>2. ~UserNotes
    BY DEF UserNotes, deposit, withdraw, consolidate, authorizeBet
  <2>3. \A nt, b, att : ~Reclaim(nt, b, att)
    BY DEF Reclaim, creditSettlement, betCancellationCredit, naCancellationCredit,
       closePosition, partialFillCredit, CreditNote
  <2>4. ASSUME NEW b \in Bets, adminCancelBet(b) PROVE Frozen
    BY <2>1, <2>4 DEF adminCancelBet, poolVars
  <2>5. CASE Market
    BY <2>1, <2>5 DEF Market, CTFReports, resolveMarket, registerCondition, poolVars, betVars
  <2>6. CASE Pool
    <3>1. PICK a \in TokenAmounts : acknowledgePolymarketReturn(a) \/ ReceiveUSDC(a)
                                    \/ withdrawFees(a) \/ adminSweep(a)
      BY <2>6 DEF Pool, fundPolymarketWallet
    <3>2. a \in Nat
      BY AmountAssumption
    <3> QED BY <2>1, <3>1, <3>2 DEF acknowledgePolymarketReturn, ReceiveUSDC, withdrawFees,
            adminSweep, betVars
  <2>7. CASE Govern \/ Tick \/ UNCHANGED vars
    BY <2>1, <2>7 DEF Govern, Tick, vars, poolVars, betVars
  <2> QED BY <2>2, <2>3, <2>4, <2>5, <2>6, <2>7 DEF Next
<1>2. Spec => []Inv
  BY SpecInv
<1> QED BY <1>1, <1>2, PTL DEF Spec, PauseFreezesNotes

-----------------------------------------------------------------------------
(* Notes.                                                                  *)

\* w is at least what each note of u in ns is worth.
Covers(w, u, ns) == \A nt \in ns : nt.owner = u => nt.bal <= w[NullifierOf(nt)]

\* What u can spend is bounded per nullifier, and in total by u's supply.
BackedInv == \A u \in Users : \E w \in [Nullifier -> Nat] :
    Covers(w, u, LiveNotes) /\ SumFunction(w) <= supply[u]

\* To spend what is at one nullifier takes it from the sum.
LEMMA Drain ==
    ASSUME IsFiniteSet(Nullifier), NEW w \in [Nullifier -> Nat], NEW k \in Nullifier,
           NEW v \in Nat, v <= w[k]
    PROVE  \E z \in [Nullifier -> Nat] :
              /\ SumFunction(z) <= SumFunction(w) - v
              /\ \A n \in Nullifier : n # k => z[n] = w[n]
<1>0. PICK t \in Nat : t = 0
  OBVIOUS
<1>1. PICK z \in [Nullifier -> Nat] : z = [w EXCEPT ![k] = t]
  OBVIOUS
<1>2. SumFunction(z) = (SumFunction(w) - w[k]) + t /\ SumFunction(w) \in Nat /\ w[k] \in Nat
  <2>1. SumFunction([w EXCEPT ![k] = t]) = (SumFunction(w) - w[k]) + t
    BY SumChange
  <2> QED BY <1>1, <2>1, SumNat
<1>3. SumFunction(z) <= SumFunction(w) - v
  BY <1>0, <1>2
<1>4. \A n \in Nullifier : n # k => z[n] = w[n]
  BY <1>1
<1> QED BY <1>3, <1>4

\* A new note adds what it is worth.
LEMMA Fill ==
    ASSUME IsFiniteSet(Nullifier), NEW w \in [Nullifier -> Nat], NEW k \in Nullifier, NEW v \in Nat
    PROVE  \E z \in [Nullifier -> Nat] :
              /\ SumFunction(z) = SumFunction(w) + v
              /\ v <= z[k]
              /\ \A n \in Nullifier : w[n] <= z[n]
<1>1. PICK t \in Nat : t = w[k] + v
  OBVIOUS
<1>2. PICK z \in [Nullifier -> Nat] : z = [w EXCEPT ![k] = t]
  OBVIOUS
<1>3. SumFunction(z) = (SumFunction(w) - w[k]) + t /\ SumFunction(w) \in Nat /\ w[k] \in Nat
  <2>1. SumFunction([w EXCEPT ![k] = t]) = (SumFunction(w) - w[k]) + t
    BY SumChange
  <2> QED BY <1>2, <2>1, SumNat
<1>4. SumFunction(z) = SumFunction(w) + v
  BY <1>1, <1>3
<1>5. v <= z[k]
  BY <1>1, <1>2, <1>3
<1>6. \A n \in Nullifier : w[n] <= z[n]
  BY <1>1, <1>2, <1>3
<1> QED BY <1>4, <1>5, <1>6

\* The nullifier of a note, and of its successor.
LEMMA NullifierType ==
    ASSUME Inv, NEW nt \in LiveNotes
    PROVE  /\ nt \in Note /\ NullifierOf(nt) \in Nullifier /\ nt.owner \in Users /\ nt.bal \in Nat
           /\ NullifierOf(nt) \notin spent
           /\ nt.nonce < MaxNonce => \A y \in Nat : NullifierOf(Successor(nt, y)) \in Nullifier
BY NonceAssumption DEF Inv, TypeOK, LiveNotes, Spendable, Note, NullifierOf, Nullifier, Successor

\* Spending a note for a successor that is worth no more than it and what is credited.
LEMMA SpendBacked ==
    ASSUME IsFiniteSet(Secrets), Inv, BackedInv, NEW nt \in LiveNotes, nt.nonce < MaxNonce,
           NEW y \in Nat, NEW new, new \subseteq {Successor(nt, y)}, SpendAndInsert(nt, new),
           NEW d \in Int, y <= nt.bal + d, supply' = [supply EXCEPT ![nt.owner] = @ + d]
    PROVE  BackedInv'
<1>1. IsFiniteSet(Nullifier)
  BY NullifiersFinite
<1>2. PICK k \in Nullifier, j \in Nullifier : k = NullifierOf(nt) /\ j = NullifierOf(Successor(nt, y))
  BY NullifierType
<1>3. nt.bal \in Nat /\ nt.owner \in Users /\ supply \in [Users -> Int]
  BY NullifierType DEF Inv, TypeOK
<1>4. ASSUME NEW x \in LiveNotes'
      PROVE  x = Successor(nt, y) \/ (x \in LiveNotes /\ NullifierOf(x) \in Nullifier /\ NullifierOf(x) # k)
  <2>1. x \in leaves \cup new /\ NullifierOf(x) \notin spent \cup {NullifierOf(nt)}
    BY DEF LiveNotes, Spendable, SpendAndInsert
  <2> QED BY <1>2, <2>1, NullifierType DEF LiveNotes, Spendable
<1>5. Successor(nt, y).bal = y
  BY DEF Successor
<1>6. ASSUME NEW u \in Users
      PROVE  \E z \in [Nullifier -> Nat] : Covers(z, u, LiveNotes') /\ SumFunction(z) <= supply'[u]
  <2>1. PICK w \in [Nullifier -> Nat] : Covers(w, u, LiveNotes) /\ SumFunction(w) <= supply[u]
    BY DEF BackedInv
  <2>2. CASE u # nt.owner
    <3>1. supply'[u] = supply[u]
      BY <2>2
    <3>2. Covers(w, u, LiveNotes')
      BY <1>4, <2>1, <2>2 DEF Covers, Successor
    <3> QED BY <2>1, <3>1, <3>2
  <2>3. CASE u = nt.owner
    <3>1. nt.bal <= w[k]
      BY <1>2, <2>1, <2>3 DEF Covers
    <3>2. PICK z1 \in [Nullifier -> Nat] : /\ SumFunction(z1) <= SumFunction(w) - nt.bal
                                           /\ \A n \in Nullifier : n # k => z1[n] = w[n]
      BY <1>1, <1>3, <3>1, Drain
    <3>3. PICK z \in [Nullifier -> Nat] : /\ SumFunction(z) = SumFunction(z1) + y
                                          /\ y <= z[j]
                                          /\ \A n \in Nullifier : z1[n] <= z[n]
      BY <1>1, Fill
    <3>4. SumFunction(z) \in Nat /\ SumFunction(z1) \in Nat /\ SumFunction(w) \in Nat
      BY <1>1, SumNat
    <3>5. SumFunction(z) <= supply[u] + d
      BY <1>3, <2>1, <3>2, <3>3, <3>4
    <3>6. supply'[u] = supply[u] + d
      BY <1>3, <2>3
    <3>7. ASSUME NEW x \in LiveNotes', x.owner = u PROVE x.bal <= z[NullifierOf(x)]
      <4>1. CASE x = Successor(nt, y)
        BY <1>2, <1>5, <3>3, <4>1
      <4>2. CASE x \in LiveNotes /\ NullifierOf(x) \in Nullifier /\ NullifierOf(x) # k
        <5>1. PICK n \in Nullifier : n = NullifierOf(x) /\ n # k
          BY <4>2
        <5>2. x.bal <= w[n] /\ w[n] = z1[n] /\ z1[n] <= z[n] /\ x.bal \in Nat
          BY <2>1, <3>2, <3>3, <3>7, <4>2, <5>1, NullifierType DEF Covers
        <5>3. w[n] \in Nat /\ z1[n] \in Nat /\ z[n] \in Nat
          OBVIOUS
        <5> QED BY <5>1, <5>2, <5>3
      <4> QED BY <1>4, <4>1, <4>2
    <3> QED BY <3>5, <3>6, <3>7 DEF Covers
  <2> QED BY <2>2, <2>3
<1> QED BY <1>6 DEF BackedInv

\* To spend the note of a slot, if any, takes what it is worth from the sum.
LEMMA DrainSlot ==
    ASSUME IsFiniteSet(Nullifier), Inv, NEW w \in [Nullifier -> Nat], NEW sl \in Slot,
           \A nt \in sl : nt.bal <= w[NullifierOf(nt)]
    PROVE  /\ SlotBalance(sl) \in Nat
           /\ \E z \in [Nullifier -> Nat] :
                 /\ SumFunction(z) <= SumFunction(w) - SlotBalance(sl)
                 /\ \A n \in Nullifier : (\A nt \in sl : NullifierOf(nt) # n) => z[n] = w[n]
<1>1. CASE sl = {}
  <2>1. SlotBalance(sl) = 0
    BY <1>1 DEF SlotBalance
  <2>2. SumFunction(w) \in Nat
    BY SumNat
  <2>3. SumFunction(w) <= SumFunction(w) - SlotBalance(sl)
    BY <2>1, <2>2
  <2> QED BY <2>1, <2>3
<1>2. CASE sl # {}
  <2>1. PICK x \in LiveNotes : sl = {x}
    BY <1>2 DEF Slot
  <2>2. (CHOOSE nt \in sl : TRUE) = x
    BY <2>1
  <2>3. SlotBalance(sl) = x.bal
    BY <1>2, <2>2 DEF SlotBalance
  <2>4. PICK k \in Nullifier : k = NullifierOf(x) /\ x.bal \in Nat /\ x.bal <= w[k]
    BY <2>1, NullifierType
  <2>5. PICK z \in [Nullifier -> Nat] : /\ SumFunction(z) <= SumFunction(w) - x.bal
                                        /\ \A n \in Nullifier : n # k => z[n] = w[n]
    BY <2>4, Drain
  <2> QED BY <2>1, <2>3, <2>4, <2>5
<1> QED BY <1>1, <1>2

\* Merging notes of different nullifiers: the sum of what was at them is at one.
LEMMA ConsolidateBacked ==
    ASSUME IsFiniteSet(Secrets), Inv, BackedInv, NEW n1 \in LiveNotes, NEW s2 \in Slot,
           NEW s3 \in Slot, NEW s4 \in Slot, consolidate(n1, s2, s3, s4)
    PROVE  BackedInv'
<1>1. IsFiniteSet(Nullifier)
  BY NullifiersFinite
<1>2. PICK inputs : inputs = {n1} \cup s2 \cup s3 \cup s4
  OBVIOUS
<1>3. PICK b2, b3, b4 : b2 = SlotBalance(s2) /\ b3 = SlotBalance(s3) /\ b4 = SlotBalance(s4)
  OBVIOUS
<1>4. PICK sum : sum = n1.bal + b2 + b3 + b4
  OBVIOUS
<1>5. /\ \A nt \in inputs : nt.owner = n1.owner
      /\ n1.nonce < MaxNonce
      /\ spent' = spent \cup {NullifierOf(nt) : nt \in inputs}
      /\ leaves' = leaves \cup {Successor(n1, sum)} /\ supply' = supply
  BY <1>2, <1>3, <1>4 DEF consolidate, histVars
<1>6. /\ \A nt \in s2 \cup s3 \cup s4 : NullifierOf(nt) # NullifierOf(n1)
      /\ \A x \in s2, y \in s3 : NullifierOf(x) # NullifierOf(y)
      /\ \A x \in s2, y \in s4 : NullifierOf(x) # NullifierOf(y)
      /\ \A x \in s3, y \in s4 : NullifierOf(x) # NullifierOf(y)
  <2>1. DistinctNullifiers(n1, <<s2, s3, s4>>)
    BY DEF consolidate
  <2>2. PICK sl : sl = <<s2, s3, s4>>
    OBVIOUS
  <2>3. DOMAIN sl = 1..3 /\ sl[1] = s2 /\ sl[2] = s3 /\ sl[3] = s4
    BY <2>2
  <2>4. /\ \A i \in 1..3 : \A nt \in sl[i] : NullifierOf(nt) # NullifierOf(n1)
        /\ \A i, j \in 1..3 : i # j => \A x \in sl[i], y \in sl[j] : NullifierOf(x) # NullifierOf(y)
    BY <2>1, <2>2, <2>3 DEF DistinctNullifiers
  <2> QED BY <2>3, <2>4
<1>7. /\ n1.bal \in Nat /\ n1.owner \in Users
      /\ inputs \subseteq LiveNotes
  BY <1>2, NullifierType DEF Slot
<1>8. PICK k \in Nullifier : k = NullifierOf(n1)
  BY NullifierType
<1>9. ASSUME NEW x \in LiveNotes'
      PROVE  x = Successor(n1, sum) \/ (x \in LiveNotes /\ \A nt \in inputs : NullifierOf(nt) # NullifierOf(x))
  BY <1>5 DEF LiveNotes, Spendable
<1>10. ASSUME NEW u \in Users
       PROVE  \E z \in [Nullifier -> Nat] : Covers(z, u, LiveNotes') /\ SumFunction(z) <= supply'[u]
  <2>1. PICK w \in [Nullifier -> Nat] : Covers(w, u, LiveNotes) /\ SumFunction(w) <= supply[u]
    BY DEF BackedInv
  <2>2. CASE u # n1.owner
    BY <1>5, <1>9, <2>1, <2>2 DEF Covers, Successor
  <2>3. CASE u = n1.owner
    <3>1. \A nt \in inputs : nt.bal <= w[NullifierOf(nt)] /\ NullifierOf(nt) \in Nullifier
      BY <1>5, <1>7, <2>1, <2>3, NullifierType DEF Covers
    <3>2. PICK w1 \in [Nullifier -> Nat] : /\ SumFunction(w1) <= SumFunction(w) - n1.bal
                                           /\ \A n \in Nullifier : n # k => w1[n] = w[n]
      BY <1>1, <1>2, <1>7, <1>8, <3>1, Drain
    <3>3. \A nt \in s2 : nt.bal <= w1[NullifierOf(nt)]
      BY <1>2, <1>6, <1>8, <3>1, <3>2
    <3>4. b2 \in Nat /\ \E z \in [Nullifier -> Nat] :
             /\ SumFunction(z) <= SumFunction(w1) - b2
             /\ \A n \in Nullifier : (\A nt \in s2 : NullifierOf(nt) # n) => z[n] = w1[n]
      BY <1>1, <1>3, <3>3, DrainSlot
    <3>5. PICK w2 \in [Nullifier -> Nat] :
             /\ SumFunction(w2) <= SumFunction(w1) - b2
             /\ \A n \in Nullifier : (\A nt \in s2 : NullifierOf(nt) # n) => w2[n] = w1[n]
      BY <3>4
    <3>6. \A nt \in s3 : nt.bal <= w2[NullifierOf(nt)]
      BY <1>2, <1>6, <1>8, <3>1, <3>2, <3>5
    <3>7. b3 \in Nat /\ \E z \in [Nullifier -> Nat] :
             /\ SumFunction(z) <= SumFunction(w2) - b3
             /\ \A n \in Nullifier : (\A nt \in s3 : NullifierOf(nt) # n) => z[n] = w2[n]
      BY <1>1, <1>3, <3>6, DrainSlot
    <3>8. PICK w3 \in [Nullifier -> Nat] :
             /\ SumFunction(w3) <= SumFunction(w2) - b3
             /\ \A n \in Nullifier : (\A nt \in s3 : NullifierOf(nt) # n) => w3[n] = w2[n]
      BY <3>7
    <3>9. \A nt \in s4 : nt.bal <= w3[NullifierOf(nt)]
      BY <1>2, <1>6, <1>8, <3>1, <3>2, <3>5, <3>8
    <3>10. b4 \in Nat /\ \E z \in [Nullifier -> Nat] :
              /\ SumFunction(z) <= SumFunction(w3) - b4
              /\ \A n \in Nullifier : (\A nt \in s4 : NullifierOf(nt) # n) => z[n] = w3[n]
      BY <1>1, <1>3, <3>9, DrainSlot
    <3>11. PICK w4 \in [Nullifier -> Nat] :
              /\ SumFunction(w4) <= SumFunction(w3) - b4
              /\ \A n \in Nullifier : (\A nt \in s4 : NullifierOf(nt) # n) => w4[n] = w3[n]
      BY <3>10
    <3>12. PICK y \in Nat : y = sum
      BY <1>4, <1>7, <3>4, <3>7, <3>10
    <3>13. PICK j \in Nullifier : j = NullifierOf(Successor(n1, y))
      BY <1>5, NullifierType
    <3>14. PICK z \in [Nullifier -> Nat] : /\ SumFunction(z) = SumFunction(w4) + y
                                           /\ y <= z[j]
                                           /\ \A n \in Nullifier : w4[n] <= z[n]
      BY <1>1, Fill
    <3>15. SumFunction(z) <= supply[u]
      <4>1. /\ SumFunction(z) \in Nat /\ SumFunction(w) \in Nat /\ SumFunction(w1) \in Nat
            /\ SumFunction(w2) \in Nat /\ SumFunction(w3) \in Nat /\ SumFunction(w4) \in Nat
            /\ supply[u] \in Int
        BY <1>1, SumNat DEF Inv, TypeOK
      <4> QED BY <1>4, <1>7, <2>1, <3>2, <3>4, <3>5, <3>7, <3>8, <3>10, <3>11, <3>12, <3>14, <4>1
    <3>16. ASSUME NEW x \in LiveNotes', x.owner = u PROVE x.bal <= z[NullifierOf(x)]
      <4>1. CASE x = Successor(n1, y)
        <5>1. x.bal = y
          BY <4>1 DEF Successor
        <5> QED BY <3>13, <3>14, <4>1, <5>1
      <4>2. CASE x \in LiveNotes /\ \A nt \in inputs : NullifierOf(nt) # NullifierOf(x)
        <5>1. PICK n \in Nullifier : n = NullifierOf(x) /\ \A nt \in inputs : NullifierOf(nt) # n
          BY <4>2, NullifierType
        <5>2. w1[n] = w[n] /\ w2[n] = w1[n] /\ w3[n] = w2[n] /\ w4[n] = w3[n]
          BY <1>2, <1>8, <3>2, <3>5, <3>8, <3>11, <5>1
        <5>3. x.bal <= w[n] /\ x.bal \in Nat
          BY <2>1, <3>16, <4>2, <5>1, NullifierType DEF Covers
        <5>4. w4[n] <= z[n] /\ w4[n] \in Nat /\ z[n] \in Nat
          BY <3>14
        <5> QED BY <5>1, <5>2, <5>3, <5>4
      <4> QED BY <1>9, <3>12, <4>1, <4>2
    <3> QED BY <1>5, <3>15, <3>16 DEF Covers
  <2> QED BY <2>2, <2>3
<1> QED BY <1>10 DEF BackedInv

\* deposit adds a note and as much supply.
LEMMA DepositBacked ==
    ASSUME IsFiniteSet(Secrets), Inv, BackedInv, NEW u \in Users, NEW s \in Secrets,
           NEW a \in DepositAmounts, deposit(u, s, a)
    PROVE  BackedInv'
<1>1. IsFiniteSet(Nullifier)
  BY NullifiersFinite
<1>2. PICK nt : /\ nt = [secret |-> s, bal |-> a, nonce |-> 0, owner |-> u]
                /\ leaves' = leaves \cup {nt} /\ spent' = spent
                /\ supply' = [supply EXCEPT ![u] = @ + a]
  BY DEF deposit
<1>3. PICK j \in Nullifier, y \in Nat : j = NullifierOf(nt) /\ nt.owner = u /\ nt.bal = y /\ y = a
  <2>1. a \in Nat
    BY AmountAssumption
  <2>2. nt.secret = s /\ nt.nonce = 0 /\ nt.owner = u /\ nt.bal = a
    BY <1>2
  <2>3. NullifierOf(nt) \in Nullifier
    BY <2>2, NonceAssumption DEF NullifierOf, Nullifier
  <2> QED BY <2>1, <2>2, <2>3
<1>4. ASSUME NEW x \in LiveNotes' PROVE x = nt \/ x \in LiveNotes
  BY <1>2 DEF LiveNotes, Spendable
<1>5. supply \in [Users -> Int]
  BY DEF Inv, TypeOK
<1>6. ASSUME NEW v \in Users
      PROVE  \E z \in [Nullifier -> Nat] : Covers(z, v, LiveNotes') /\ SumFunction(z) <= supply'[v]
  <2>1. PICK w \in [Nullifier -> Nat] : Covers(w, v, LiveNotes) /\ SumFunction(w) <= supply[v]
    BY DEF BackedInv
  <2>2. CASE v # u
    <3>1. supply'[v] = supply[v]
      BY <1>2, <2>2
    <3>2. Covers(w, v, LiveNotes')
      BY <1>3, <1>4, <2>1, <2>2 DEF Covers
    <3> QED BY <2>1, <3>1, <3>2
  <2>3. CASE v = u
    <3>1. PICK z \in [Nullifier -> Nat] : /\ SumFunction(z) = SumFunction(w) + y
                                          /\ y <= z[j]
                                          /\ \A n \in Nullifier : w[n] <= z[n]
      BY <1>1, Fill
    <3>2. SumFunction(z) <= supply[v] + y
      <4>1. SumFunction(z) \in Nat /\ SumFunction(w) \in Nat /\ supply[v] \in Int
        BY <1>1, <1>5, SumNat
      <4> QED BY <2>1, <3>1, <4>1
    <3>3. supply'[v] = supply[v] + y
      BY <1>2, <1>3, <1>5, <2>3
    <3>4. ASSUME NEW x \in LiveNotes', x.owner = v PROVE x.bal <= z[NullifierOf(x)]
      <4>1. CASE x = nt
        BY <1>3, <3>1, <4>1
      <4>2. CASE x \in LiveNotes
        <5>1. PICK n \in Nullifier : n = NullifierOf(x)
          BY <4>2, NullifierType
        <5>2. x.bal <= w[n] /\ x.bal \in Nat
          BY <2>1, <3>4, <4>2, <5>1, NullifierType DEF Covers
        <5>3. w[n] <= z[n] /\ w[n] \in Nat /\ z[n] \in Nat
          BY <3>1
        <5> QED BY <5>1, <5>2, <5>3
      <4> QED BY <1>4, <4>1, <4>2
    <3> QED BY <3>2, <3>3, <3>4 DEF Covers
  <2> QED BY <2>2, <2>3
<1> QED BY <1>6 DEF BackedInv

\* withdraw takes from the supply what leaves, or goes to fees.
LEMMA WithdrawBacked ==
    ASSUME IsFiniteSet(Secrets), Inv, BackedInv, NEW nt \in LiveNotes, NEW a \in WithdrawAmounts,
           NEW u \in Users, withdraw(nt, a, u)
    PROVE  BackedInv'
<1>1. /\ nt.bal \in Nat /\ nt.nonce < MaxNonce /\ a \in Nat /\ a <= nt.bal /\ u = nt.owner
      /\ SpendAndInsert(nt, Change(nt, a)) /\ supply' = [supply EXCEPT ![u] = @ - a]
      /\ supply \in [Users -> Int]
  BY NullifierType, AmountAssumption DEF withdraw, Inv, TypeOK
<1>2. PICK y \in Nat, d \in Int : y = nt.bal - a /\ d = -a /\ y <= nt.bal + d
  BY <1>1
<1>3. PICK new : new = Change(nt, a) /\ new \subseteq {Successor(nt, y)}
  BY <1>2 DEF Change
<1>4. supply' = [supply EXCEPT ![nt.owner] = @ + d]
  <2>1. supply[u] - a = supply[u] + d
    BY <1>1, <1>2
  <2> QED BY <1>1, <2>1
<1> QED BY <1>1, <1>2, <1>3, <1>4, SpendBacked

\* authorizeBet takes the stake and the fees from the supply.
LEMMA AuthorizeBacked ==
    ASSUME IsFiniteSet(Secrets), Inv, BackedInv, NEW nt \in LiveNotes, NEW m \in Markets,
           NEW side \in Sides, NEW a \in BetAmounts, NEW p \in Prices, authorizeBet(nt, m, side, a, p)
    PROVE  BackedInv'
<1>1. PICK fee : fee = ProtocolFee(a) + feeConfig.relayGasFeeUSDC
  OBVIOUS
<1>2. fee \in Nat
  <2>1. a \in Nat /\ feeConfig.betFeeBps \in Nat /\ feeConfig.relayGasFeeUSDC \in Nat
    BY AmountAssumption DEF Inv, TypeOK, FeeConfig
  <2>2. a * feeConfig.betFeeBps \in Nat
    BY <2>1
  <2>3. ProtocolFee(a) \in Nat
    BY <2>2, DivNat DEF ProtocolFee
  <2> QED BY <1>1, <2>1, <2>3
<1>3. /\ nt.bal \in Nat /\ nt.nonce < MaxNonce /\ a \in Nat /\ a + fee <= nt.bal /\ nt.owner \in Users
      /\ SpendAndInsert(nt, {Successor(nt, nt.bal - a - fee)})
      /\ supply' = [supply EXCEPT ![nt.owner] = @ - a - fee] /\ supply \in [Users -> Int]
  BY <1>1, NullifierType, AmountAssumption DEF authorizeBet, Inv, TypeOK
<1>4. PICK y \in Nat, d \in Int : y = nt.bal - a - fee /\ d = -(a + fee) /\ y <= nt.bal + d
  BY <1>2, <1>3
<1>5. PICK new : new = {Successor(nt, y)} /\ SpendAndInsert(nt, new)
  BY <1>3, <1>4
<1>6. supply' = [supply EXCEPT ![nt.owner] = @ + d]
  <2>1. supply[nt.owner] - a - fee = supply[nt.owner] + d
    BY <1>2, <1>3, <1>4
  <2> QED BY <1>3, <2>1
<1> QED BY <1>3, <1>4, <1>5, <1>6, SpendBacked

\* A reclaim adds to the supply what it adds to the note.
LEMMA CreditBacked ==
    ASSUME IsFiniteSet(Secrets), Inv, BackedInv, NEW nt \in LiveNotes, NEW b, NEW amount \in Nat,
           CreditNote(nt, b, amount)
    PROVE  BackedInv'
<1>1. nt.bal \in Nat /\ nt.nonce < MaxNonce /\ supply' = [supply EXCEPT ![nt.owner] = @ + amount]
  BY NullifierType DEF CreditNote
<1>2. PICK y \in Nat, d \in Int : y = nt.bal + amount /\ d = amount /\ y <= nt.bal + d
  BY <1>1
<1>3. PICK new : new = {Successor(nt, y)} /\ SpendAndInsert(nt, new)
  BY <1>2 DEF CreditNote
<1> QED BY <1>1, <1>2, <1>3, SpendBacked

\* So does each of the five reclaims.
LEMMA ReclaimBacked ==
    ASSUME IsFiniteSet(Secrets), Inv, BackedInv, NEW nt \in LiveNotes, NEW b \in Bets,
           NEW att \in Attestation, Reclaim(nt, b, att)
    PROVE  BackedInv'
<1> DEFINE rec == betRecords[b]
<1>1. /\ rec \in BetRecord /\ betProtocolFee[b] \in Nat /\ rec.market \in Markets
      /\ RecordInv(rec, ledger[b])
  BY InvAt
<1>2. /\ att.amountA \in Nat /\ att.amountB \in Nat /\ rec.bet_amount \in Nat
      /\ rec.sell_proceeds \in Nat
  BY <1>1, AmountAssumption DEF Attestation, BetRecord
<1>3. CASE creditSettlement(nt, b, att)
  <2>1. SharesHeld(rec) \in Nat
    BY <1>1 DEF SharesHeld, RecordInv, BetRecord
  <2>2. pendingCredit[rec.market][rec.side] \in Nat
    <3>1. rec.side \in Sides
      BY <1>1 DEF BetRecord
    <3> QED BY <1>1, <3>1 DEF Inv, TypeOK
  <2>3. PICK amount \in Nat : amount = SharesHeld(rec) * pendingCredit[rec.market][rec.side]
    BY <2>1, <2>2
  <2>4. CreditNote(nt, b, amount)
    BY <1>3, <2>3 DEF creditSettlement
  <2> QED BY <2>4, CreditBacked
<1>4. CASE betCancellationCredit(nt, b, att)
  <2>1. PICK amount \in Nat : amount = rec.bet_amount + betProtocolFee[b]
    BY <1>1, <1>2
  <2>2. CreditNote(nt, b, amount)
    BY <1>4, <2>1 DEF betCancellationCredit
  <2> QED BY <2>2, CreditBacked
<1>5. CASE naCancellationCredit(nt, b, att)
  <2>1. CreditNote(nt, b, rec.bet_amount)
    BY <1>5 DEF naCancellationCredit
  <2> QED BY <1>2, <2>1, CreditBacked
<1>6. CASE closePosition(nt, b, att)
  <2>1. PICK amount \in Nat : amount = att.amountB - rec.sell_proceeds
    BY <1>2, <1>6 DEF closePosition, SoldAdvances
  <2>2. CreditNote(nt, b, amount)
    BY <1>6, <2>1 DEF closePosition
  <2> QED BY <2>2, CreditBacked
<1>7. CASE partialFillCredit(nt, b, att)
  <2>1. PICK back : back = RefundedFee(betProtocolFee[b], rec.bet_amount, att.amountB)
    OBVIOUS
  <2>2. 0 < att.amountB /\ att.amountB <= rec.bet_amount
    BY <1>7 DEF partialFillCredit, IsPartialFill
  <2>3. back \in Nat
    BY <1>1, <1>2, <2>1, <2>2, RefundedFeeBound
  <2>4. PICK amount \in Nat : amount = (rec.bet_amount - att.amountB) + back
    BY <1>2, <2>2, <2>3
  <2>5. CreditNote(nt, b, amount)
    BY <1>7, <2>1, <2>4 DEF partialFillCredit
  <2> QED BY <2>5, CreditBacked
<1> QED BY <1>3, <1>4, <1>5, <1>6, <1>7 DEF Reclaim

\* BackedInv is inductive with Inv.
LEMMA NextBacked ==
    ASSUME IsFiniteSet(Secrets), Inv, BackedInv, [Next]_vars
    PROVE  BackedInv'
<1>1. CASE UNCHANGED <<leaves, spent, supply>>
  <2>1. LiveNotes' = LiveNotes
    BY <1>1 DEF LiveNotes, Spendable
  <2> QED BY <1>1, <2>1 DEF BackedInv, Covers
<1>2. CASE UserNotes
  <2>1. ASSUME NEW nt \in LiveNotes, NEW m \in Markets, NEW side \in Sides,
               NEW a \in BetAmounts, NEW p \in Prices, authorizeBet(nt, m, side, a, p)
        PROVE  BackedInv'
    BY <2>1, AuthorizeBacked
  <2>2. ASSUME NEW n1 \in LiveNotes, NEW s2 \in Slot, NEW s3 \in Slot, NEW s4 \in Slot,
               consolidate(n1, s2, s3, s4)
        PROVE  BackedInv'
    BY <2>2, ConsolidateBacked
  <2>3. ASSUME NEW nt \in LiveNotes, NEW a \in WithdrawAmounts, NEW u \in Users, withdraw(nt, a, u)
        PROVE  BackedInv'
    BY <2>3, WithdrawBacked
  <2>4. ASSUME NEW u \in Users, NEW s \in Secrets, NEW a \in DepositAmounts, deposit(u, s, a)
        PROVE  BackedInv'
    BY <2>4, DepositBacked
  <2> QED BY <1>2, <2>1, <2>2, <2>3, <2>4 DEF UserNotes
<1>3. ASSUME NEW nt \in LiveNotes, NEW b \in Bets, NEW att \in Attestation, Reclaim(nt, b, att)
      PROVE  BackedInv'
  BY <1>3, ReclaimBacked
<1>4. ASSUME NEW b \in Bets, adminCancelBet(b) PROVE BackedInv'
  BY <1>1, <1>4 DEF adminCancelBet, noteVars, histVars
<1>5. CASE Market
  BY <1>1, <1>5 DEF Market, CTFReports, resolveMarket, registerCondition, noteVars, histVars
<1>6. CASE Pool
  BY <1>1, <1>6 DEF Pool, fundPolymarketWallet, acknowledgePolymarketReturn, ReceiveUSDC,
     withdrawFees, adminSweep, noteVars, histVars
<1>7. CASE Govern \/ Tick \/ UNCHANGED vars
  BY <1>1, <1>7 DEF Govern, Tick, vars, noteVars, histVars
<1> QED BY <1>2, <1>3, <1>4, <1>5, <1>6, <1>7 DEF Next

\* There are no notes at first.
LEMMA InitBacked == ASSUME IsFiniteSet(Secrets), Init PROVE BackedInv
<1>1. PICK w : w = [n \in Nullifier |-> 0]
  OBVIOUS
<1>2. w \in [Nullifier -> Nat] /\ SumFunction(w) = 0
  BY <1>1, NullifiersFinite, SumOfZeros
<1>3. LiveNotes = {} /\ \A u \in Users : supply[u] = 0
  BY DEF Init, LiveNotes
<1>4. ASSUME NEW u \in Users PROVE Covers(w, u, LiveNotes) /\ SumFunction(w) <= supply[u]
  BY <1>2, <1>3 DEF Covers
<1> QED BY <1>2, <1>4 DEF BackedInv

\* A bounded set of naturals with 0 in it has a maximum.
LEMMA MaxIs ==
    ASSUME NEW A \in SUBSET Nat, 0 \in A, NEW c \in Nat, \A x \in A : x <= c
    PROVE  Max(A) \in Nat /\ Max(A) <= c
<1> DEFINE R == {ss \in Nat \X Nat : ss[1] < ss[2]}
           U == {n \in Nat : \A x \in A : x <= n}
<1>1. IsWellFoundedOn(R, Nat)
  BY NatLessThanWellFounded DEF OpToRel
<1>2. U \subseteq Nat /\ U # {}
  OBVIOUS
<1>3. PICK n \in U : \A m \in U : ~(<<m, n>> \in R)
  <2> HIDE DEF U, R
  <2> QED BY <1>1, <1>2, WFMin, Zenon
<1>4. n \in Nat /\ \A x \in A : x <= n
  OBVIOUS
<1>5. n \in A
  <2> SUFFICES ASSUME n \notin A PROVE FALSE
    OBVIOUS
  <2>1. n # 0
    OBVIOUS
  <2>2. PICK m \in Nat : m = n - 1 /\ m < n
    BY <1>4, <2>1
  <2>3. \A x \in A : x <= m
    BY <1>4, <2>2
  <2> QED BY <1>3, <1>4, <2>2, <2>3
<1>6. Max(A) \in A
  BY <1>4, <1>5 DEF Max
<1> QED BY <1>6

\* What can be spent of one nullifier is at most what covers it.
LEMMA LiveBalanceIs ==
    ASSUME Inv, NEW w \in [Nullifier -> Nat], NEW u \in Users, Covers(w, u, LiveNotes),
           NEW n \in Nullifier
    PROVE  LiveBalance(u, n) \in Nat /\ LiveBalance(u, n) <= w[n]
<1>1. PICK A : A = {0} \cup {nt.bal : nt \in {x \in LiveNotes : x.owner = u /\ NullifierOf(x) = n}}
  OBVIOUS
<1>2. PICK c \in Nat : c = w[n]
  OBVIOUS
<1>3. A \in SUBSET Nat /\ 0 \in A /\ \A x \in A : x <= c
  BY <1>1, <1>2, NullifierType DEF Covers
<1> QED BY <1>1, <1>2, <1>3, MaxIs DEF LiveBalance

(* Notes are backed, for every number of users, notes and bets: whatever is
   spent, merged, credited or withdrawn, what an owner can still spend stays
   within what they deposited and were credited (_spendAndInsert, the balance
   constraints of the spend circuits, markSpent of every consolidated slot). *)
THEOREM NotesStayBacked ==
    ASSUME IsFiniteSet(Secrets)
    PROVE  Spec => []NotesBacked
<1>1. Init => Inv /\ BackedInv
  BY InitInv, InitBacked
<1>2. (Inv /\ BackedInv) /\ [Next]_vars => (Inv /\ BackedInv)'
  BY NextInv, NextBacked
<1>3. Inv /\ BackedInv => NotesBacked
  <2> SUFFICES ASSUME Inv, BackedInv, NEW u \in Users
               PROVE  SumFunction([n \in Nullifier |-> LiveBalance(u, n)]) <= supply[u]
    BY DEF NotesBacked
  <2>1. PICK w \in [Nullifier -> Nat] : Covers(w, u, LiveNotes) /\ SumFunction(w) <= supply[u]
    BY DEF BackedInv
  <2>2. PICK f : f = [n \in Nullifier |-> LiveBalance(u, n)]
    OBVIOUS
  <2>3. f \in [Nullifier -> Nat] /\ \A n \in Nullifier : f[n] <= w[n]
    BY <2>1, <2>2, LiveBalanceIs
  <2>4. IsFiniteSet(Nullifier)
    BY NullifiersFinite
  <2>5. /\ SumFunction(f) <= SumFunction(w) /\ SumFunction(f) \in Nat /\ SumFunction(w) \in Nat
        /\ supply[u] \in Int
    BY <2>3, <2>4, SumMonotone, SumNat DEF Inv, TypeOK
  <2> QED BY <2>1, <2>2, <2>5
<1> QED BY <1>1, <1>2, <1>3, PTL DEF Spec

=============================================================================
