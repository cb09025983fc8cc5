------------------------------- MODULE Wallet -------------------------------
(***************************************************************************)
(* The frontend's note cache against the chain: notes.ts and the flows that *)
(* spend notes (deposit, bet, merge, withdraw, settle, refund, partial-fill *)
(* credit, position close, "Settle & Withdraw"), for one wallet open in     *)
(* several tabs that share the browser's storage.                          *)
(*                                                                         *)
(* A lineage is a deposit index: its notes share a secret and differ in the *)
(* nonce.  A bet is named by the note it spent.  A flow picks its notes, then *)
(* proves and relays, then waits for the confirmation and updates the cache; *)
(* other tabs, the operator and a reload come in between.  The Vault, the   *)
(* operator's attestations and the market are external: a share costs one   *)
(* unit, sells for one and pays Payout when it wins.                       *)
(*                                                                         *)
(* A mishap is a reload, a wipe or a confirmation that does not come back.  *)
(* Faults: "down"     the relay does not tell the number of deposits;       *)
(*         "twoTabs"  two tabs deposit at the same time;                    *)
(*         "midFlow"  a wipe or the end of a Restore replaces the cache of a  *)
(*                    tab whose claim or bet is in flight;                  *)
(*         "rpc"      the registry of spent notes cannot be read;           *)
(*         "noStore"  the browser's database cannot be read or written;     *)
(*         "lag"      the relay counts the deposits of its index, which is  *)
(*                    CONFIRMATIONS blocks behind the chain.                *)
(* reconcileSpentStatus is one step: the list it saves at the end is the    *)
(* cached one, which the other flows of the tab change in place.  Only a    *)
(* Restore or a wipe inside it would be undone by the late save.            *)
(***************************************************************************)
EXTENDS Integers, Sequences, FiniteSets, SequencesExt, FiniteSetsExt

CONSTANTS
    MaxTabs,         \* the tabs the wallet may be open in
    Indices,         \* the deposit indices in use, 0..k
    DepositAmount,
    Stakes,
    Sides,           \* the outcomes bet on
    ProtocolFee,     \* charged on a bet
    Payout,          \* per winning share
    Withdrawals,     \* the amounts asked for on the withdraw page
    MinWithdrawal,
    MAX_CONSOLIDATE_INPUTS,
    MaxLag,          \* how many events a Restore may miss
    MaxBets, MaxWithdrawals,
    MaxWidth,        \* bounds the tabs with the deposits, and with the mishaps
    Faults

ASSUME WalletAssumption ==
    /\ Max(Indices) \in Nat /\ Indices = 0..Max(Indices)
    /\ MaxTabs \in Nat \ {0} /\ MaxLag \in Nat
    /\ Sides \subseteq {"YES", "NO"}
    /\ Stakes \subseteq Nat \ {0} /\ Withdrawals \subseteq Nat \ {0}
    /\ DepositAmount \in Nat \ {0} /\ ProtocolFee \in Nat /\ Payout \in Nat \ {0}
    /\ MinWithdrawal \in Nat /\ MinWithdrawal > 1 /\ MaxWidth \in Nat
    /\ MAX_CONSOLIDATE_INPUTS \in Nat \ {0}
    /\ Faults \subseteq {"down", "lag", "twoTabs", "midFlow", "rpc", "noStore"}

VARIABLES
    log,         \* external: the Vault's events about this wallet, in order
    tip,         \* external: lineage -> its last note
    bets,        \* external: bet -> Vault.betRecords and the signed attestations
    market,      \* external: "open" or the winning outcome
    mem,         \* tab -> cachedNotes
    disk,        \* the encrypted copy in IndexedDB, shared by the tabs
    counter,     \* the deposit-index counter in localStorage
    op,          \* tab -> the flow in progress
    locked,      \* history: lineages deposited to again
    tabs,        \* how many tabs are open
    mishaps      \* how many there were

chain == <<log, tip, bets, market>>
cache == <<mem, disk, counter>>
bounds == <<tabs, mishaps>>
Sessions == 1..MaxTabs
vars == <<chain, cache, op, locked, bounds>>

NoNote == [n |-> -1, bal |-> 0, live |-> FALSE]

\* The entries of the cache.  A cash note that is marked spent is dropped:
\* nothing reads it again.  A receipt marked spent may be unmarked.
Cash(i, n, bal) == [kind |-> "CASH", i |-> i, n |-> n, bal |-> bal]
Receipt(i, n, side, spent) ==
    [kind |-> "BET_RECEIPT", i |-> i, n |-> n, side |-> side, spent |-> spent]

Flows == {"deposit", "bet", "withdraw", "consolidate", "settle", "betCancel", "partial",
          "close"}
NoOp == [flow |-> "none"]
\* ins: the notes spent, slot 0 first; amt: what the flow takes or credits;
\* for: what a merge is for; open: the lineages the withdraw page keeps alive
Flow(f, ins, b, amt, side, for, open) ==
    [flow |-> f, ins |-> ins, bet |-> b, amt |-> amt, side |-> side, for |-> for,
     open |-> open, sent |-> FALSE]
NoBet == <<>>
Credits == {"settle", "betCancel", "partial", "close"}
Terminal == {"CREDITED", "CANCELLED_CREDITED", "CLOSED_CREDITED"}

TypeOK ==
    /\ \A i \in Indices : /\ tip[i].n \in -1..Len(log) /\ tip[i].bal \in Nat
                          /\ tip[i].live \in BOOLEAN
    /\ \A b \in DOMAIN bets : /\ bets[b].status \in {"ACTIVE", "FILLED"} \cup Terminal
                              /\ 0 <= bets[b].sold /\ bets[b].sold <= bets[b].shares
    /\ market \in {"open", "YES", "NO"}
    /\ \A m \in {disk} \cup Range(mem) : \A x \in m :
          /\ x.i \in Indices /\ x.n \in Nat
          /\ \/ x.kind = "CASH" /\ x.bal \in Nat
             \/ x.kind = "BET_RECEIPT" /\ <<x.i, x.n>> \in DOMAIN bets
    /\ counter \in Nat /\ locked \subseteq Indices
    /\ \A s \in Sessions : op[s].flow \in Flows \cup {"none"}
    /\ tabs \in Sessions /\ mishaps \in 0..MaxWidth

Init ==
    /\ log = <<>> /\ tip = [i \in Indices |-> NoNote] /\ bets = <<>> /\ market = "open"
    /\ mem = [s \in Sessions |-> {}] /\ disk = {} /\ counter = 0
    /\ op = [s \in Sessions |-> NoOp]
    /\ locked = {}
    /\ tabs \in Sessions /\ mishaps = 0

\* The map f with the entry of k written.
Put(f, k, v) == [x \in DOMAIN f \cup {k} |-> IF x = k THEN v ELSE f[x]]

-----------------------------------------------------------------------------
(* Reads of the cache.                                                     *)

getFreeNotes(m) == {x \in m : x.kind = "CASH"}
getOpenBetReceipts(m) == {x \in m : x.kind = "BET_RECEIPT" /\ ~x.spent}
OpenDeposits(m) == {x.i : x \in getOpenBetReceipts(m)}
Total(ns) == MapThenSumSet(LAMBDA x : x.bal, ns)
\* The sum of a merge's inputs, by their slots.
Merged(amounts) == FoldLeft(LAMBDA x, y : x + y, 0, amounts)
getCashBalance(m) == Total(getFreeNotes(m))
LargestFirst(ns) ==
    CHOOSE order \in [1..Cardinality(ns) -> ns] :
        \A j, k \in 1..Cardinality(ns) :
            j < k => order[j] # order[k] /\ order[j].bal >= order[k].bal
\* The sum of the k largest notes.
TopSum(ns, k) ==
    LET order == LargestFirst(ns)
        sum[j \in 0..Cardinality(ns)] == IF j = 0 THEN 0 ELSE sum[j - 1] + order[j].bal
    IN  sum[Min({k, Cardinality(ns)})]
combinableBalance(m) == TopSum(getFreeNotes(m), MAX_CONSOLIDATE_INPUTS)
getCurrentCashNote(m) == LargestFirst(getFreeNotes(m))[1]

\* The last note of the bet's own lineage: only its secret opens the bet.
getFreeNoteForDeposit(m, i) ==
    LET own == {x \in getFreeNotes(m) : x.i = i} IN
    {x \in own : \A y \in own : y.n <= x.n}

\* Mutant: slot 0 stays the largest note.
SlotZeroLargest(picked, openDeposits, preferred) == picked
SlotZero(picked, openDeposits, preferred) ==
    LET opens == {k \in DOMAIN picked : picked[k].i \in openDeposits}
        own == {k \in DOMAIN picked : picked[k].i = preferred}
        k == CHOOSE k \in (IF opens # {} THEN opens ELSE own) : TRUE
    IN  IF opens = {} /\ own = {} THEN picked
        ELSE <<picked[k]>> \o RemoveAt(picked, k)

\* The shortest run of the largest notes that covers the amount; <<>> if none does.
Covering(pool, amount) ==
    LET order == LargestFirst(pool)
        lens == {k \in 1..Min({Cardinality(pool), MAX_CONSOLIDATE_INPUTS}) :
                    TopSum(pool, k) >= amount}
    IN  IF lens = {} THEN <<>> ELSE SubSeq(order, 1, Min(lens))

\* At most one lineage with an open position takes part, and it goes on.
selectNotesForAmount(m, amount, openDeposits, preferred) ==
    LET all == getFreeNotes(m)
        clear == {x \in all : x.i \notin openDeposits}
        open == all \ clear
        pool == IF TopSum(clear, MAX_CONSOLIDATE_INPUTS) >= amount \/ open = {}
                THEN clear ELSE clear \cup {LargestFirst(open)[1]}
    IN  SlotZero(Covering(pool, amount), openDeposits, preferred)

-----------------------------------------------------------------------------
(* What the chain and the operator answer.                                 *)

SpentOnChain(i, n) == n < tip[i].n \/ (n = tip[i].n /\ ~tip[i].live)
\* A receipt without a side is read as a YES bet.
pendingCredit(side) == IF market # "open" /\ (market = "NO") = (side = "NO")
                       THEN Payout ELSE 0
BetOf(r) == <<r.i, r.n>>
\* What the operator signed about the order, and about a sale.
fetchAttestation(b, type) ==
    IF type = "SOLD" THEN bets[b].soldAtt > 0 ELSE bets[b].outcome = type
betDidFill(b) == bets[b].status = "FILLED" \/ fetchAttestation(b, "FILLED")
Unsold(b) == bets[b].shares - bets[b].sold
Settleable(b) ==
    betDidFill(b) /\ bets[b].status \in {"ACTIVE", "FILLED"} /\ Unsold(b) > 0
\* checkSettlementStatus: the receipts ready to settle, and the lost ones
Ready(r) == Settleable(BetOf(r)) /\ pendingCredit(r.side) > 0
Lost(r) == Settleable(BetOf(r)) /\ market # "open" /\ pendingCredit(r.side) = 0
\* Mutant: the shares that were sold are claimed too.
ClaimAmountAll(r) == bets[BetOf(r)].shares * pendingCredit(r.side)
ClaimAmount(r) == Unsold(BetOf(r)) * pendingCredit(r.side)
\* What a partial fill pays back: the rest of the stake and its part of the fee.
Refund(stake, fee, spent) == (stake - spent) + (fee * (stake - spent)) \div stake

-----------------------------------------------------------------------------
(* Writes of the cache.                                                    *)

\* Every failure of the browser's database is swallowed.
writeEncrypted(m) == disk' \in {m} \cup (IF "noStore" \in Faults THEN {disk} ELSE {})
readEncrypted == {disk} \cup (IF "noStore" \in Faults THEN {{}} ELSE {})

\* saveAll: the tab's list replaces the stored one.
Save(s, m) == mem' = [mem EXCEPT ![s] = m] /\ writeEncrypted(m)
SaveIfChanged(s, m) == IF m = mem[s] THEN UNCHANGED <<mem, disk>> ELSE Save(s, m)

markNoteSpent(m, keys) == {x \in m : ~(x.kind = "CASH" /\ <<x.i, x.n>> \in keys)}
markBetReceiptSpent(m, keys) ==
    {IF x.kind = "BET_RECEIPT" /\ BetOf(x) \in keys THEN [x EXCEPT !.spent = TRUE] ELSE x :
        x \in m}

addNote(m, x) == m \cup {x}
\* The receipt of a bet is rewritten, or added when it is missing.
replaceNote(m, b, side) ==
    IF \E x \in m : x.kind = "BET_RECEIPT" /\ BetOf(x) = b THEN m
    ELSE addNote(m, Receipt(b[1], b[2], side, FALSE))

fetchSpentNullifiers(m) == {x \in m : x.kind = "CASH" /\ SpentOnChain(x.i, x.n)}
Healed(m) ==
    {IF x.kind = "BET_RECEIPT" /\ bets[BetOf(x)].status \notin Terminal
     THEN [x EXCEPT !.spent = FALSE] ELSE x : x \in m}
\* reconcileSpentStatus: the chain decides which notes are spent.  A read that fails
\* marks nothing.
Reconciled(m) == markNoteSpent(m, {BetOf(x) : x \in fetchSpentNullifiers(m)})
Reconciles(m) == {Reconciled(m)} \cup (IF "rpc" \in Faults THEN {m} ELSE {})

-----------------------------------------------------------------------------
(* The relay and the Vault.                                                *)

Keys(o) == {BetOf(o.ins[k]) : k \in DOMAIN o.ins}
\* The balance of the note a flow leaves.
NewBalance(o) ==
    CASE o.flow = "deposit"     -> o.amt
      [] o.flow = "bet"         -> o.ins[1].bal - o.amt - ProtocolFee
      [] o.flow = "withdraw"    -> o.ins[1].bal - o.amt
      [] o.flow = "consolidate" -> Merged([k \in DOMAIN o.ins |-> o.ins[k].bal])
      [] OTHER                  -> o.ins[1].bal + o.amt

\* external: a note is spent, and every one is the last of its lineage, with that balance
Spendable(o) ==
    /\ 1 \in DOMAIN o.ins
    /\ \A k \in DOMAIN o.ins :
         /\ o.ins[k].i \in Indices
         /\ tip[o.ins[k].i] = [n |-> o.ins[k].n, bal |-> o.ins[k].bal, live |-> TRUE]

\* external: the conditions of the Vault's entry points
VaultAllows(o) ==
    \/ o.flow \in {"bet", "consolidate"}
    \/ o.flow = "withdraw" /\ o.amt >= MinWithdrawal
    \/ /\ o.flow \in Credits
       /\ LET b == bets[o.bet] IN
          \/ /\ o.flow = "settle" /\ market # "open" /\ b.status \in {"ACTIVE", "FILLED"}
             /\ betDidFill(o.bet) /\ o.amt = Unsold(o.bet) * pendingCredit(b.side)
          \/ o.flow = "betCancel" /\ b.status = "ACTIVE" /\ b.outcome = "FAILED"
          \/ o.flow = "partial" /\ b.status = "ACTIVE" /\ b.outcome = "PARTIAL"
          \/ /\ o.flow = "close" /\ b.status \in {"ACTIVE", "FILLED"}
             /\ market = "open" /\ b.sold < b.soldAtt /\ b.soldAtt <= b.shares

\* external: the bet's record after the call
BetAfter(o) ==
    LET b == bets[o.bet] IN
    CASE o.flow = "settle"    -> [b EXCEPT !.status = "CREDITED"]
      [] o.flow = "betCancel" -> [b EXCEPT !.status = "CANCELLED_CREDITED"]
      [] o.flow = "partial"   -> [b EXCEPT !.status = "FILLED", !.shares = b.filled,
                                           !.stake = b.filled]
      [] o.flow = "close"     -> [b EXCEPT !.sold = b.soldAtt, !.status =
                                     IF b.soldAtt = b.shares THEN "CLOSED_CREDITED"
                                     ELSE "FILLED"]

\* external: Vault.authorizeBet's record
NewBet(o) == [status |-> "ACTIVE", stake |-> o.amt, fee |-> ProtocolFee, shares |-> o.amt,
              sold |-> 0, side |-> o.side, outcome |-> "none", filled |-> 0, soldAtt |-> 0]

Finishes(o) ==
    \/ o.flow \in {"settle", "betCancel"}
    \/ o.flow = "close" /\ bets[o.bet].soldAtt >= bets[o.bet].shares

\* external: what the event carries: nullifiers, the bet, an amount (but for a credit),
\* and whether a withdrawal leaves a note or a close leaves shares
Event(o) ==
    [ev |-> o.flow, ins |-> [k \in DOMAIN o.ins |-> BetOf(o.ins[k])], bet |-> o.bet,
     amt |-> IF o.flow \in Credits \ {"close"} THEN 0 ELSE o.amt,
     rest |-> IF o.flow = "close" THEN ~Finishes(o) ELSE NewBalance(o) > 0]

\* external: the Vault executes the flow's transaction; its circuit checks the range of
\* the balance
Executes(o) ==
    /\ Spendable(o) /\ VaultAllows(o) /\ NewBalance(o) \in Nat
    /\ tip' = [i \in Indices |->
          IF i = o.ins[1].i /\ ~(o.flow = "withdraw" /\ NewBalance(o) = 0)
          THEN [n |-> o.ins[1].n + 1, bal |-> NewBalance(o), live |-> TRUE]
          ELSE IF \E k \in DOMAIN o.ins : o.ins[k].i = i
          THEN [tip[i] EXCEPT !.live = FALSE, !.bal = 0]
          ELSE tip[i]]
    /\ bets' = CASE o.flow = "bet" -> Put(bets, BetOf(o.ins[1]), NewBet(o))
                 [] o.flow \in Credits -> [bets EXCEPT ![o.bet] = BetAfter(o)]
                 [] OTHER -> bets
    /\ log' = Append(log, Event(o))
    /\ UNCHANGED market

\* The merge failed: Settle & Withdraw drains the largest of the notes instead.
AfterFailure(o) ==
    IF o.flow = "consolidate" /\ o.for = "clear"
    THEN LET note == LargestFirst(Range(o.ins))[1] IN
         Flow("withdraw", <<note>>, NoBet, note.bal, "none", "none", {})
    ELSE NoOp

\* The relay answers with the transaction it sent, which is mined, or with an error.
post(s, o) ==
    \/ Executes(o) /\ op' = [op EXCEPT ![s] = [o EXCEPT !.sent = TRUE]]
    \/ op' = [op EXCEPT ![s] = AfterFailure(o)] /\ UNCHANGED chain
\* The flow proves and relays; a signature the user refuses is an error like the others.
Sends(s, o) == post(s, o) /\ UNCHANGED <<counter, locked, bounds>>

Idle(s) == op[s].flow = "none"
\* A flow that waited for a merge.
relayMerged(s) ==
    /\ ~Idle(s) /\ op[s].flow # "deposit" /\ ~op[s].sent
    /\ Sends(s, op[s]) /\ UNCHANGED <<mem, disk>>

\* external: Vault.deposit; a lineage that was used before gets a second first note
Deposits(o) ==
    LET i == o.ins[1].i IN
    /\ IF tip[i] = NoNote
       THEN tip' = [tip EXCEPT ![i] = [n |-> 0, bal |-> o.amt, live |-> TRUE]]
            /\ UNCHANGED locked
       ELSE locked' = locked \cup {i} /\ UNCHANGED tip
    /\ log' = Append(log, Event(o))
    /\ UNCHANGED <<bets, market>>

\* The deposit is proved, approved and submitted from the user's own account.
doDeposit(s) ==
    /\ op[s].flow = "deposit" /\ ~op[s].sent
    /\ Deposits(op[s])
    /\ op' = [op EXCEPT ![s].sent = TRUE]
    /\ UNCHANGED <<cache, bounds>>

\* The user rejects the transaction.
depositRejected(s) ==
    /\ op[s].flow = "deposit" /\ ~op[s].sent
    /\ op' = [op EXCEPT ![s] = NoOp]
    /\ UNCHANGED <<chain, cache, locked, bounds>>

-----------------------------------------------------------------------------
(* A flow begins: the notes it will spend are chosen.                      *)

\* The portfolio page's load and its polls.
reconcileSpentStatus(s) ==
    /\ Save(s, Reconciled(mem[s]))
    /\ mem'[s] # mem[s]
    /\ UNCHANGED <<chain, counter, op, locked, bounds>>

Deposited == Cardinality({k \in DOMAIN log : log[k].ev = "deposit"})
\* GET /recovery-data: the events the relay's index may have got to.
IndexHeads == Max({0, Len(log) - MaxLag})..Len(log)
CountedDeposits(k) == Cardinality({j \in 1..k : log[j].ev = "deposit"})
getSafeNextDepositIndex ==
    {Max({counter, Deposited})} \cup (IF "down" \in Faults THEN {counter} ELSE {})
        \cup {Max({counter, CountedDeposits(k)}) : k \in IF "lag" \in Faults THEN IndexHeads ELSE {}}

depositStarts(s) ==
    /\ Idle(s)
    /\ \A t \in Sessions : op[t].flow = "deposit" => "twoTabs" \in Faults
    /\ \E from \in getSafeNextDepositIndex :
         LET fresh == {i \in Indices : i >= from /\ i + tabs <= MaxWidth /\ ~SpentOnChain(i, 0)} IN
         /\ fresh # {}
         /\ op' = [op EXCEPT ![s] = Flow("deposit", <<Cash(Min(fresh), 0, 0)>>, NoBet,
                                         DepositAmount, "none", "none", {})]
    /\ UNCHANGED <<chain, cache, locked, bounds>>

\* Places the bet on the largest note, or merges first.
betStarts(s) ==
    \E m \in Reconciles(mem[s]) :
    /\ Idle(s) /\ Cardinality(DOMAIN bets) < MaxBets /\ getFreeNotes(m) # {}
    /\ \E stake \in Stakes, side \in Sides :
         LET cost == stake + ProtocolFee
             note == getCurrentCashNote(m)
             picked == selectNotesForAmount(m, cost, OpenDeposits(m), -1)
         IN  /\ cost <= combinableBalance(mem[s])
             /\ IF note.bal >= cost
                THEN Sends(s, Flow("bet", <<note>>, NoBet, stake, side, "none", {}))
                ELSE /\ picked # <<>>
                     /\ Sends(s, Flow("consolidate", picked, NoBet, stake, side, "bet", {}))
    /\ SaveIfChanged(s, m)

\* A lineage with an open position keeps one unit.
effectiveWithdrawal(note, amt, open) ==
    IF note.i \in open /\ amt >= note.bal /\ note.bal > 1 THEN note.bal - 1 ELSE amt

safeMax(m) ==
    LET free == getFreeNotes(m)
        clear == {x \in free : x.i \notin OpenDeposits(m)}
        own(i) == Total({x \in free : x.i = i})
    IN  Max({TopSum(clear, MAX_CONSOLIDATE_INPUTS)} \cup
            {own(i) + TopSum(clear, MAX_CONSOLIDATE_INPUTS - 1) : i \in OpenDeposits(m)})

\* What the page lets through.  The Vault's liquidity is not modelled.
withdrawable(m, amt) ==
    /\ MinWithdrawal <= amt /\ amt <= getCashBalance(m)
    /\ amt <= combinableBalance(m) /\ amt <= safeMax(m)

Withdrawn == Cardinality({k \in DOMAIN log : log[k].ev = "withdraw"})
\* The withdraw page: its note and its open positions were read before it reconciles.
withdrawStarts(s) ==
    \E m \in Reconciles(mem[s]) :
    LET open == OpenDeposits(mem[s])
        note == getCurrentCashNote(mem[s])
    IN  /\ Idle(s) /\ Withdrawn < MaxWithdrawals /\ getFreeNotes(mem[s]) # {}
        /\ \E amt \in Withdrawals :
             /\ withdrawable(mem[s], amt)
             /\ LET picked == selectNotesForAmount(m, amt, open, note.i) IN
                IF amt <= note.bal
                THEN Sends(s, Flow("withdraw", <<note>>, NoBet,
                                    effectiveWithdrawal(note, amt, open), "none", "none", open))
                ELSE /\ Len(picked) > 1
                     /\ Sends(s, Flow("consolidate", picked, NoBet, amt, "none", "withdraw",
                                       open))
        /\ SaveIfChanged(s, m)

\* The last phase of Settle & Withdraw: whole lineages without an open position.
withdrawClearLineages(s) ==
    \E m \in Reconciles(mem[s]) :
    LET open == OpenDeposits(m)
        clear == {x \in getFreeNotes(m) : x.i \notin open}
        target == TopSum(clear, MAX_CONSOLIDATE_INPUTS)
        note == LargestFirst(clear)[1]
    IN  /\ Idle(s) /\ Withdrawn < MaxWithdrawals /\ clear # {} /\ target > 0
        /\ IF target > note.bal
           THEN Sends(s, Flow("consolidate", selectNotesForAmount(m, target, open, note.i),
                               NoBet, target, "none", "clear", {}))
           ELSE Sends(s, Flow("withdraw", <<note>>, NoBet, note.bal, "none", "none", {}))
        /\ SaveIfChanged(s, m)

\* Settle & Withdraw retires lost bets and bets the chain has finished.
retireReceipts(s) ==
    LET done == {r \in getOpenBetReceipts(mem[s]) :
                    Lost(r) \/ bets[BetOf(r)].status \in Terminal}
    IN  /\ Idle(s) /\ done # {}
        /\ Save(s, markBetReceiptSpent(mem[s], {BetOf(r) : r \in done}))
        /\ UNCHANGED <<chain, counter, op, locked, bounds>>

\* A credit of a bet goes to the last note of the bet's lineage.
CreditStarts(s, r, flow, amt) ==
    /\ Idle(s)
    /\ \E note \in getFreeNoteForDeposit(mem[s], r.i) :
         Sends(s, Flow(flow, <<note>>, BetOf(r), amt, r.side, "none", {}))
    /\ UNCHANGED <<mem, disk>>

settlePosition(s) ==
    \E r \in getOpenBetReceipts(mem[s]) :
        Ready(r) /\ CreditStarts(s, r, "settle", ClaimAmount(r))

\* The batch of lost positions, closed with a credit of nothing.
closeLosses(s) ==
    \E r \in getOpenBetReceipts(mem[s]) : Lost(r) /\ CreditStarts(s, r, "settle", 0)

\* Claim refund: the modal asks for the attestation, not for the status.
BetCancelRefund(s) ==
    \E r \in getOpenBetReceipts(mem[s]) :
        /\ fetchAttestation(BetOf(r), "FAILED")
        /\ CreditStarts(s, r, "betCancel", bets[BetOf(r)].stake + bets[BetOf(r)].fee)

creditFailedReclaim(s) ==
    \E r \in getOpenBetReceipts(mem[s]) :
        LET b == bets[BetOf(r)] IN
        /\ fetchAttestation(BetOf(r), "FAILED") /\ b.status \notin Terminal
        /\ CreditStarts(s, r, "betCancel", b.stake + b.fee)

finalizePartialFill(s) ==
    \E r \in getOpenBetReceipts(mem[s]) :
        LET b == bets[BetOf(r)] IN
        /\ fetchAttestation(BetOf(r), "PARTIAL") /\ b.status = "ACTIVE"
        /\ CreditStarts(s, r, "partial", Refund(b.stake, b.fee, b.filled))

finalizeClose(s) ==
    \E r \in getOpenBetReceipts(mem[s]) :
        LET b == bets[BetOf(r)] IN
        /\ fetchAttestation(BetOf(r), "SOLD") /\ b.status # "CLOSED_CREDITED"
        /\ CreditStarts(s, r, "close", b.soldAtt)

-----------------------------------------------------------------------------
(* The transaction is confirmed and the cache follows.                     *)

Output(o) == Cash(o.ins[1].i, IF o.flow = "deposit" THEN 0 ELSE o.ins[1].n + 1, NewBalance(o))

Cached(m, o) ==
    LET kept == markNoteSpent(m, Keys(o))
        next == IF o.flow = "withdraw" /\ NewBalance(o) = 0 THEN kept
                ELSE addNote(kept, Output(o))
    IN  CASE o.flow = "bet" -> addNote(next, Receipt(o.ins[1].i, o.ins[1].n, o.side, FALSE))
          [] o.flow = "partial" -> replaceNote(next, o.bet, o.side)
          [] Finishes(o) -> markBetReceiptSpent(next, {o.bet})
          [] OTHER -> next

\* After a merge, the flow it was for goes on with the merged note.
NextFlow(o) ==
    LET note == Output(o) IN
    CASE o.flow = "consolidate" /\ o.for = "bet" ->
            Flow("bet", <<note>>, NoBet, o.amt, o.side, "none", {})
      [] o.flow = "consolidate" /\ o.for = "withdraw" ->
            Flow("withdraw", <<note>>, NoBet, effectiveWithdrawal(note, o.amt, o.open),
                 "none", "none", o.open)
      [] o.flow = "consolidate" /\ o.for = "clear" ->
            Flow("withdraw", <<note>>, NoBet, note.bal, "none", "none", {})
      [] OTHER -> NoOp

recordDepositIndexUsed(i) == counter' = Max({counter, i + 1})

depositConfirmed(s) ==
    /\ op[s].flow = "deposit" /\ op[s].sent
    /\ recordDepositIndexUsed(op[s].ins[1].i)
    /\ Save(s, addNote(mem[s], Output(op[s])))
    /\ op' = [op EXCEPT ![s] = NoOp]
    /\ UNCHANGED <<chain, locked, bounds>>

confirmed(s) ==
    LET o == op[s] IN
    /\ ~Idle(s) /\ o.flow # "deposit" /\ o.sent
    /\ Save(s, Cached(mem[s], o))
    /\ op' = [op EXCEPT ![s] = NextFlow(o)]
    /\ UNCHANGED <<chain, counter, locked, bounds>>

\* The wait times out or cannot reach the chain; the transaction is mined all the same.
waitForTransactionConfirmation(s) ==
    /\ mishaps + tabs < MaxWidth /\ mishaps' = mishaps + 1
    /\ ~Idle(s) /\ op[s].sent
    /\ op' = [op EXCEPT ![s] = AfterFailure(op[s])]
    /\ UNCHANGED <<chain, cache, locked, tabs>>

-----------------------------------------------------------------------------
(* The browser.                                                            *)

\* A reload ends the flow; the page's first load reconciles, and brings hidden receipts of
\* open bets back, once a session.
hydrateCache(s) ==
    /\ mishaps + tabs < MaxWidth /\ mishaps' = mishaps + 1
    /\ \E m \in readEncrypted : Save(s, Healed(Reconciled(m)))
    /\ op' = [op EXCEPT ![s] = NoOp]
    /\ UNCHANGED <<chain, counter, locked, tabs>>

isMoneyOpInFlight(s) ==
    \/ op[s].flow \in {"deposit", "withdraw"}
    \/ op[s].flow = "consolidate" /\ op[s].for = "withdraw"

\* Everything the browser stores is wiped.
resetAllLocalState(s) ==
    mem' = [mem EXCEPT ![s] = {}] /\ writeEncrypted({}) /\ counter' = 0
\* The wallet stays disconnected for eight seconds and moves no money.
WalletConnect(s) ==
    /\ mishaps + tabs < MaxWidth /\ mishaps' = mishaps + 1 /\ ~isMoneyOpInFlight(s)
    /\ Idle(s) \/ "midFlow" \in Faults
    /\ resetAllLocalState(s)
    /\ UNCHANGED <<chain, op, locked, tabs>>

-----------------------------------------------------------------------------
(* Restore: the notes replayed from the chain's events.                    *)

\* The element of a set of one: what is computed from a value evaluated once.
Only(S) == CHOOSE x \in S : TRUE

\* The replay of one lineage: its last note, its receipts, what they stand for, and
\* (known) the balances that merges took in.
Lineage(i, k, known) ==
    [i |-> i, n |-> 0, bal |-> log[k].amt, live |-> TRUE, receipts |-> {},
     shares |-> <<>>, known |-> known]
Mine(st, e) == st.live /\ \E k \in DOMAIN e.ins : e.ins[k] = <<st.i, st.n>>
Receipts(st, b, spent) ==
    {IF BetOf(r) = b THEN [r EXCEPT !.spent = spent] ELSE r : r \in st.receipts}
Onward(st, bal) == [st EXCEPT !.n = @ + 1, !.bal = bal]

\* Mutant: the fee is not deducted.
replayBetFree(st, e) ==
    [Onward(st, st.bal - e.amt) EXCEPT !.receipts = @ \cup {Receipt(st.i, st.n, "none", FALSE)},
                                       !.shares = Put(@, <<st.i, st.n>>, e.amt)]
\* The event's outcome is not copied to the receipt.
replayBet(st, e) ==
    [Onward(st, st.bal - e.amt - ProtocolFee) EXCEPT
        !.receipts = @ \cup {Receipt(st.i, st.n, "none", FALSE)},
        !.shares = Put(@, <<st.i, st.n>>, e.amt)]

replayCredit(st, e) ==
    LET gain == IF e.ev = "settle" THEN st.shares[e.bet] * pendingCredit("none")
                ELSE st.shares[e.bet] + ProtocolFee
    IN  [Onward(st, st.bal + gain) EXCEPT !.receipts = Receipts(st, e.bet, TRUE)]

\* The refund is the difference between what was committed and the record's stake.
replayPartial(st, e) ==
    [Onward(st, st.bal + Refund(st.shares[e.bet], ProtocolFee, bets[e.bet].stake)) EXCEPT
        !.shares[e.bet] = bets[e.bet].shares]

replayClose(st, e) ==
    [Onward(st, st.bal + e.amt) EXCEPT
        !.receipts = IF e.rest THEN @ ELSE Receipts(st, e.bet, TRUE),
        !.shares[e.bet] = IF e.rest THEN @ - e.amt ELSE @]

replayWithdraw(st, e) ==
    IF e.rest THEN Onward(st, st.bal - e.amt) ELSE [st EXCEPT !.live = FALSE, !.bal = 0]

\* Mutant: every input of a merge ends, slot 0 too.
replayConsolidateEnds(st, e, final) ==
    [st EXCEPT !.live = FALSE, !.known = Put(st.known, <<st.i, st.n>>, st.bal)]
\* Slot 0 goes on with the sum of the inputs known so far; the others end here, and
\* so does every lineage in the pass that only collects the balances.
replayConsolidate(st, e, final) ==
    LET known == Put(st.known, <<st.i, st.n>>, st.bal)
        taken == [k \in DOMAIN e.ins |->
                     IF e.ins[k] \in DOMAIN known THEN known[e.ins[k]] ELSE 0]
    IN  IF final /\ e.ins[1] = <<st.i, st.n>>
        THEN [Onward(st, Merged(taken)) EXCEPT !.known = known]
        ELSE [st EXCEPT !.live = FALSE, !.known = known]

replayEvent(st, e, final) ==
    IF e.ev = "deposit" \/ ~Mine(st, e) THEN st
    ELSE CASE e.ev = "bet"                     -> replayBet(st, e)
           [] e.ev \in {"settle", "betCancel"} -> replayCredit(st, e)
           [] e.ev = "partial"                 -> replayPartial(st, e)
           [] e.ev = "close"                   -> replayClose(st, e)
           [] e.ev = "withdraw"                -> replayWithdraw(st, e)
           [] e.ev = "consolidate"             -> replayConsolidate(st, e, final)

\* The position of the deposit whose commitment the index's secret opens.
depositOf(events, i) ==
    {k \in DOMAIN events : events[k].ev = "deposit" /\ events[k].ins[1][1] = i
       /\ \A j \in 1..(k-1) : events[j].ev = "deposit" => events[j].ins[1][1] # i}
replayLineage(events, i, k, known, final) ==
    LET after[j \in 0..Len(events)] ==
            IF j = 0 THEN Lineage(i, k, known)
            ELSE Only({replayEvent(st, events[j], final) : st \in {after[j - 1]}})
    IN  after[Len(events)]

\* One pass over the lineages in the order of their indices.
Found(acc, st) ==
    [known |-> st.known,
     notes |-> acc.notes \cup st.receipts
                \cup (IF st.live /\ st.bal > 0 THEN {Cash(st.i, st.n, st.bal)} ELSE {})]
Visit(events, acc, i, final) ==
    IF depositOf(events, i) = {} THEN acc
    ELSE Only({Found(acc, st) :
            st \in {replayLineage(events, i, Min(depositOf(events, i)), acc.known, final)}})
Pass(events, known, final) ==
    LET after[j \in 0..(Max(Indices) + 1)] ==
            IF j = 0 THEN [known |-> known, notes |-> {}]
            ELSE Only({Visit(events, acc, j - 1, final) : acc \in {after[j - 1]}})
    IN  after[Max(Indices) + 1]

recoverNotes(events) ==
    Only({Pass(events, first.known, TRUE).notes : first \in {Pass(events, <<>>, FALSE)}})

\* The events in the order of the chain: from the relay's index, which runs behind, or
\* page by page from the chain, which was read earlier.  The index is first asked to catch
\* up, and serves what it has when that fails, too.
RecoveryEvents(k) == SubSeq(log, 1, k)

\* Restore: what was recovered from the first k events replaces the cache.
handleRecover(s, k) ==
    /\ Idle(s) \/ "midFlow" \in Faults
    /\ UNCHANGED <<chain, counter, op, locked, bounds>>
    /\ Save(s, recoverNotes(RecoveryEvents(k)))

-----------------------------------------------------------------------------
(* The operator and the market.                                            *)

\* external: the operator signs what became of an order
attests ==
    /\ \E b \in DOMAIN bets, o \in {"FILLED", "FAILED", "PARTIAL"} :
         /\ bets[b].outcome = "none"
         /\ o = "PARTIAL" => bets[b].stake > 1
         /\ bets' = [bets EXCEPT ![b].outcome = o,
                                 ![b].filled = CASE o = "FILLED" -> bets[b].stake
                                                 [] o = "FAILED" -> 0
                                                 [] OTHER -> bets[b].stake \div 2]
    /\ UNCHANGED <<log, tip, market, cache, op, locked, bounds>>

\* external: the operator signs a sale of the whole position or of one share
attestsSale ==
    /\ market = "open"
    /\ \E b \in DOMAIN bets : \E k \in {1, bets[b].shares} :
         /\ betDidFill(b) /\ bets[b].status \notin Terminal /\ bets[b].soldAtt = 0
         /\ bets' = [bets EXCEPT ![b].soldAtt = k]
    /\ UNCHANGED <<log, tip, market, cache, op, locked, bounds>>

\* external: resolveMarket
resolves ==
    /\ market = "open" /\ market' \in {"YES", "NO"}
    /\ UNCHANGED <<log, tip, bets, cache, op, locked, bounds>>

-----------------------------------------------------------------------------
Next ==
    \/ \E s \in 1..tabs : reconcileSpentStatus(s)
    \/ \E s \in 1..tabs : depositStarts(s)
    \/ \E s \in 1..tabs : betStarts(s)
    \/ \E s \in 1..tabs : withdrawStarts(s)
    \/ \E s \in 1..tabs : withdrawClearLineages(s)
    \/ \E s \in 1..tabs : retireReceipts(s)
    \/ \E s \in 1..tabs : settlePosition(s)
    \/ \E s \in 1..tabs : closeLosses(s)
    \/ \E s \in 1..tabs : BetCancelRefund(s)
    \/ \E s \in 1..tabs : creditFailedReclaim(s)
    \/ \E s \in 1..tabs : finalizePartialFill(s)
    \/ \E s \in 1..tabs : finalizeClose(s)
    \/ \E s \in 1..tabs : relayMerged(s)
    \/ \E s \in 1..tabs : doDeposit(s)
    \/ \E s \in 1..tabs : depositRejected(s)
    \/ \E s \in 1..tabs : depositConfirmed(s)
    \/ \E s \in 1..tabs : confirmed(s)
    \/ \E s \in 1..tabs : waitForTransactionConfirmation(s)
    \/ \E s \in 1..tabs : hydrateCache(s)
    \/ \E s \in 1..tabs : WalletConnect(s)
    \/ \E s \in 1..tabs : \E k \in IndexHeads : handleRecover(s, k)
    \/ attests
    \/ attestsSale
    \/ resolves

Claimable(b) ==
    /\ bets[b].status \notin Terminal
    /\ \/ Settleable(b) /\ pendingCredit(bets[b].side) > 0
       \/ bets[b].outcome = "FAILED"
\* The owner keeps asking: a claim whenever one is offered, which the relay does not
\* refuse for ever, and a Restore when a claim is missing.  Flows come to an end.
Claims(s, claim) == claim /\ op'[s].flow \in Credits
Restores(s) ==
    /\ s <= tabs /\ Idle(s)
    /\ \E b \in DOMAIN bets : Claimable(b) /\
         \/ ~\E r \in getOpenBetReceipts(mem[s]) : BetOf(r) = b
         \/ Cash(b[1], tip[b[1]].n, tip[b[1]].bal) \notin mem[s]
    /\ handleRecover(s, Len(log))
Fairness ==
    /\ SF_vars(\E s \in Sessions : Restores(s))
    /\ SF_vars(\E s \in Sessions : Claims(s, settlePosition(s) \/ creditFailedReclaim(s)))
    /\ \A s \in Sessions :
        WF_vars(confirmed(s) \/ depositConfirmed(s) \/ relayMerged(s) \/ depositRejected(s))

Spec == Init /\ [][Next]_vars /\ Fairness

-----------------------------------------------------------------------------
(* Properties.                                                             *)

(* What the wallet offers to spend is what the chain holds: a cached cash note
   is either spent on chain, which reconcileSpentStatus finds out, or it is the
   last note of its lineage with exactly that balance.  It covers the balance
   every flow computes for the note it leaves and the whole replay of Restore,
   also when a snapshot older than the last transaction overwrites the cache.  *)
NotesOpen ==
    \A m \in {disk} \cup Range(mem) : \A x \in getFreeNotes(m) :
        SpentOnChain(x.i, x.n) \/ tip[x.i] = [n |-> x.n, bal |-> x.bal, live |-> TRUE]

(* A bet that can still pay keeps a note to be paid into: neither a withdrawal,
   nor a merge, nor Settle & Withdraw ends a lineage that holds one, from whatever
   tab and with whatever stale cache it is started (selectNotesForAmount,
   drain-to-dust, withdrawClearLineages).                                     *)
Owed(b) == /\ bets[b].status \notin Terminal
           /\ market = "open" \/ bets[b].side = market \/ ~betDidFill(b)
NoStranding == \A b \in DOMAIN bets : Owed(b) => tip[b[1]].live

(* No deposit goes to an index that was used before: its first note would have the
   nullifier of the earlier deposit's, and only one of them could be spent.  It is
   what getSafeNextDepositIndex promises, and it needs a relay that counts every
   deposit that was mined ("down" and "lag" break it).                        *)
IndexFresh == locked = {}

(* A Restore that read the whole log leaves nothing out: every lineage's last
   note with money in it and the receipt of every open bet is in the cache.   *)
Complete(s) ==
    /\ \A i \in Indices : tip[i].live /\ tip[i].bal > 0 => Cash(i, tip[i].n, tip[i].bal) \in mem'[s]
    /\ \A b \in DOMAIN bets : bets[b].status \notin Terminal =>
          \E r \in getOpenBetReceipts(mem'[s]) : BetOf(r) = b
RestoreComplete ==
    [][\A s \in Sessions : Complete(s) \/ ~handleRecover(s, Len(log))]_vars

(* Every winning or failed bet is paid in the end, whatever was lost on the way: a
   cache overwritten by another tab, wiped or reloaded, a claim whose confirmation
   never came back.  A bet stays claimable until it is paid, so there are always
   moments without a claimable bet.  A lineage whose last note is empty is left
   out: Restore does not find it (RestoreFindsCreditNote).                    *)
ClaimsLand == []<>(\A b \in DOMAIN bets : Claimable(b) => tip[b[1]].bal = 0)

(* What the notice about a credit that cannot land promises: Restore brings the
   missing note back (CreditCannotLand.tsx).                                  *)
RestoreFindsCreditNote ==
    [][\A s \in Sessions : handleRecover(s, Len(log)) =>
          \A b \in DOMAIN bets : Owed(b) /\ tip[b[1]].live =>
              getFreeNoteForDeposit(mem'[s], b[1]) # {}]_vars
=============================================================================
