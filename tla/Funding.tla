------------------------------ MODULE Funding ------------------------------
(***************************************************************************)
(* How the signing layer moves capital between the Vault and Polymarket's  *)
(* deposit wallet: per-bet funding (jitFunding.ts), the base buffer        *)
(* (bufferManager.ts), the wallet executor (depositWalletExecutor.ts) and  *)
(* the operator's reclaim script (reclaimToVault.ts), a process of its own *)
(* that shares nothing with the service but the chain.                     *)
(*                                                                         *)
(* Funding takes three awaited calls (read the wallet's pUSD, have the     *)
(* Vault send the missing USDC, wrap it), so an action is one of them.     *)
(* The tasks on the funding chain (one per bet and one of the buffer       *)
(* manager) run one at a time.  Of the settlement's redemption and of the  *)
(* SELLs there is here what they do to the same balances (Settlement and   *)
(* PositionClose have the rest), one redemption at a time.                 *)
(*                                                                         *)
(* At most MaxFaults times in all: a balance read throws (rpc), the wait   *)
(* for a mined transaction's receipt throws (receipt), a transaction is    *)
(* held up, perhaps for ever, and the wait for it has no timeout (hang), a *)
(* wallet batch fails without effect (batch), a batch times out and may be *)
(* mined later (timeout), the service restarts (restart) or the script     *)
(* dies (crash).                                                           *)
(***************************************************************************)
EXTENDS Integers, FiniteSets, FiniteSetsExt, Sequences

CONSTANTS
    Bets,
    Stakes,      \* bet amounts
    Proceeds,    \* what a bet's shares pay when they win or are sold
    Others,      \* bound on the money of others that reaches the Vault during a redemption
    Buffer,      \* the buffer manager's task
    Low, Target, \* bufferLowWaterUsdc (0: disabled) and bufferTargetUsdc
    Liquidity,   \* USDC of the Vault at the start
    Cap,         \* deploymentCap
    Retries,     \* WALLET_BUSY_MAX_RETRIES
    MaxReclaims, \* bound on the runs of the reclaim script
    MaxFaults,
    Faults

ASSUME FundingAssumption ==
    /\ Stakes \subseteq Nat \ {0} /\ Buffer \notin Bets
    /\ Low \in Nat /\ Target \in Nat /\ Liquidity \in Nat /\ Cap \in Nat
    /\ Proceeds \subseteq Nat /\ Others \in Nat
    /\ Retries \in Nat \ {0} /\ MaxReclaims \in Nat /\ MaxFaults \in Nat
    /\ Faults \subseteq {"rpc", "receipt", "hang", "batch", "timeout", "restart", "crash"}

Tasks == Bets \cup {Buffer}

VARIABLES
    executor,   \* "relayer", "eoa" or "none": the executor the configuration selects
    stake,      \* bet -> its amount
    bets,       \* bet -> "new", "asked", "funded", "unfunded", "spent" or "closed"
    queue,      \* fundingChain: the tasks on the chain, the first one running
    jobs,       \* what each task on the chain is about to do
    running,    \* _running
    vaultUsdc, dwUsdc, dwPusd,  \* external: balances of the Vault and the deposit wallet
    deployed,   \* external: Vault.deployedToPolymarket
    paid,       \* external: pUSD that the open positions were bought for
    late,       \* external: the batch that timed out and may still be mined, or NoBatch
    script,     \* the reclaim script's next step
    redemption, \* the redemption pipeline's next step
    reclaims, faults,
    extra,      \* history: pUSD from late batches, redemptions and SELLs
    gains       \* history: the bets' profits, and what was acknowledged beyond a return

service == <<bets, queue, jobs, running, redemption>>
balances == <<vaultUsdc, dwUsdc, dwPusd, paid>>
money   == <<balances, deployed, late, extra, gains>>
tool    == <<script, reclaims>>
setup   == <<executor, stake>>
vars == <<setup, service, money, tool, faults>>

Batch(kind, n) == [kind |-> kind, n |-> n]
NoBatch == Batch("none", 0)
Step(pc, n, attempt) == [pc |-> pc, n |-> n, attempt |-> attempt]
Start == Step("read", 0, 1)
Ended == Step("idle", 0, 1)
Jobs == [pc : {"read", "fund", "wait", "wrap"}, n : Nat, attempt : 1..Retries]
Batches == [kind : {"wrap", "unwrap", "sweep", "return"}, n : Nat]
ScriptSteps == [pc : {"idle", "offramp", "balance", "sweep", "deployed", "ack"},
                n : Nat, attempt : 1..Retries]

TypeOK ==
    /\ executor \in {"relayer", "eoa", "none"}
    /\ stake \in [Bets -> Stakes]
    /\ bets \in [Bets -> {"new", "asked", "funded", "unfunded", "spent", "closed"}]
    /\ queue \in Seq(Tasks)
    /\ jobs \in [Tasks -> Jobs]
    /\ running \in BOOLEAN
    /\ {vaultUsdc, dwUsdc, dwPusd, deployed, paid, extra, gains} \subseteq Nat
    /\ late \in Batches \cup {NoBatch}
    /\ script \in ScriptSteps /\ redemption \in ScriptSteps
    /\ reclaims \in 0..MaxReclaims /\ faults \in 0..MaxFaults

\* The first tick is on the chain when the service starts (startBufferManager).
Init ==
    /\ executor \in {"relayer", "eoa", "none"}
    /\ stake \in [Bets -> Stakes]
    /\ bets = [b \in Bets |-> "new"]
    /\ running = (Low > 0)
    /\ queue = IF running THEN <<Buffer>> ELSE <<>>
    /\ jobs = [t \in Tasks |-> Start]
    /\ vaultUsdc = Liquidity /\ dwUsdc = 0 /\ dwPusd = 0 /\ deployed = 0
    /\ paid = 0 /\ late = NoBatch /\ extra = 0 /\ gains = 0
    /\ script = Ended /\ redemption = Ended /\ reclaims = 0 /\ faults = 0

Fault(f) == f \in Faults /\ faults < MaxFaults /\ faults' = faults + 1
NoFault == UNCHANGED faults
Smaller(x, y) == IF x < y THEN x ELSE y
Larger(x, y) == IF x > y THEN x ELSE y

-----------------------------------------------------------------------------
(* The funding chain and the buffer manager's tick.                        *)

\* Mutant: a task does not wait for the ones before it.
HasTurnAtOnce(t) == \E i \in DOMAIN queue : queue[i] = t

\* runOnFundingChain: a task runs when the ones before it have settled.
HasTurn(t) == queue # <<>> /\ Head(queue) = t

\* runTick: a tick is skipped while the previous one is unfinished, or when the
\* buffer manager is disabled.
Ticks == Low > 0 /\ ~running
WithTick(q) == IF Ticks THEN Append(q, Buffer) ELSE q

Without(t) ==
    LET i == CHOOSE j \in DOMAIN queue : queue[j] = t
    IN  SubSeq(queue, 1, i - 1) \o SubSeq(queue, i + 1, Len(queue))

\* The buffer check ends, in either way (`finally`).
tickDone(ok) ==
    /\ queue' = Without(Buffer) /\ UNCHANGED bets
    /\ running' = FALSE

\* Mutant: a failing request is not taken off the chain.
betAnsweredStuck(b, ok) ==
    /\ bets' = IF ok THEN [bets EXCEPT ![b] = "funded"] ELSE bets
    /\ queue' = WithTick(IF ok THEN Without(b) ELSE queue)
    /\ running' = (running \/ Ticks)

\* The end of ensureDepositWalletFunded: the bet has its answer, and the buffer
\* manager is nudged.
betAnswered(b, ok) ==
    /\ bets' = [bets EXCEPT ![b] = IF ok THEN "funded" ELSE "unfunded"]
    /\ queue' = WithTick(Without(b))
    /\ running' = (running \/ Ticks)

Done(t, ok) ==
    /\ IF t = Buffer THEN tickDone(ok) ELSE betAnswered(t, ok)
    /\ jobs' = [jobs EXCEPT ![t] = Start]
    /\ UNCHANGED redemption
Goto(t, step) ==
    jobs' = [jobs EXCEPT ![t] = step] /\ UNCHANGED <<bets, queue, running, redemption>>

\* submitFAKOrder, submitLimitOrder: the bet needs its amount in the wallet.
ensureDepositWalletFunded(b) ==
    /\ bets[b] = "new"
    /\ bets' = [bets EXCEPT ![b] = "asked"]
    /\ queue' = Append(queue, b)
    /\ UNCHANGED <<setup, jobs, running, redemption, money, tool, faults>>

\* The safety poll of startBufferManager
pollTick ==
    /\ Ticks
    /\ queue' = WithTick(queue) /\ running' = TRUE
    /\ UNCHANGED <<setup, bets, jobs, redemption, money, tool, faults>>

\* What is missing when the wallet holds `balance`: the bet's shortfall, or the gap
\* up to the (clamped) target once the buffer is below low water.
Missing(t, balance) ==
    IF t = Buffer THEN IF balance >= Low THEN 0 ELSE Larger(Low, Target) - balance
    ELSE IF balance >= stake[t] THEN 0 ELSE stake[t] - balance

readBalance(t) ==
    /\ HasTurn(t) /\ jobs[t].pc = "read"
    /\ \/ Missing(t, dwPusd) = 0 /\ Done(t, TRUE) /\ NoFault
       \/ Missing(t, dwPusd) > 0 /\ Goto(t, Step("fund", Missing(t, dwPusd), 1)) /\ NoFault
       \/ Fault("rpc") /\ Done(t, FALSE)
    /\ UNCHANGED <<setup, money, tool>>

\* Vault.fundPolymarketWallet reverts beyond the cap or the liquidity.
Fundable(n) == n <= vaultUsdc /\ deployed + n <= Cap
FundWallet(n) ==
    /\ vaultUsdc' = vaultUsdc - n /\ dwUsdc' = dwUsdc + n /\ deployed' = deployed + n
    /\ UNCHANGED <<dwPusd, paid, late, extra, gains>>

\* The transaction is mined and waited for, or reverts.
FundingMined(t) ==
    LET n == jobs[t].n IN
    \/ /\ Fundable(n) /\ FundWallet(n)
       /\ \/ Goto(t, Step("wrap", n, 1)) /\ NoFault
          \/ Fault("receipt") /\ Done(t, FALSE)
    \/ ~Fundable(n) /\ Done(t, FALSE) /\ NoFault /\ UNCHANGED money

fundPolymarketWallet(t) ==
    /\ HasTurn(t) /\ jobs[t].pc = "fund"
    /\ \/ FundingMined(t)
       \/ Fault("hang") /\ Goto(t, Step("wait", jobs[t].n, 1)) /\ UNCHANGED money
    /\ UNCHANGED <<setup, tool>>

\* A transaction that was held up is mined in the end.  Nothing makes it: behind a gap
\* of the nonces it is not.
heldUpMined(t) ==
    /\ HasTurn(t) /\ jobs[t].pc = "wait"
    /\ FundingMined(t)
    /\ UNCHANGED <<setup, tool>>

-----------------------------------------------------------------------------
(* The deposit wallet's executor.                                          *)

\* External: what a batch needs and does.
Covered(batch) == batch.n <= IF batch.kind \in {"unwrap", "return"} THEN dwPusd ELSE dwUsdc
Mine(batch) ==
    /\ dwUsdc' = CASE batch.kind = "unwrap" -> dwUsdc + batch.n
                   [] batch.kind = "return" -> dwUsdc
                   [] OTHER -> dwUsdc - batch.n
    /\ dwPusd' = CASE batch.kind = "wrap" -> dwPusd + batch.n
                   [] batch.kind = "sweep" -> dwPusd
                   [] OTHER -> dwPusd - batch.n
    /\ vaultUsdc' = IF batch.kind \in {"sweep", "return"} THEN vaultUsdc + batch.n ELSE vaultUsdc
    /\ UNCHANGED <<deployed, paid, gains>>

\* executeBatch returned: the batch is mined.
BatchMined(batch) ==
    /\ executor # "none" /\ (executor = "relayer" => late = NoBatch)
    /\ Covered(batch) /\ Mine(batch) /\ UNCHANGED <<late, extra>> /\ NoFault

\* The relayer answers that a batch of the wallet is unfinished: wait and retry.
WalletBusy(attempt) == executor = "relayer" /\ late # NoBatch /\ attempt < Retries

\* executeBatch threw: no executor, busy too long, the calls revert, an error, or a
\* timeout after which the batch may yet be mined.
BatchThrows(batch, attempt) ==
    \/ /\ \/ executor = "none"
          \/ executor = "relayer" /\ late # NoBatch /\ attempt = Retries
          \/ ~Covered(batch)
       /\ NoFault /\ UNCHANGED money
    \/ Fault("batch") /\ UNCHANGED money
    \/ /\ executor # "none" /\ late = NoBatch /\ Fault("timeout")
       /\ late' = batch
       /\ UNCHANGED <<balances, deployed, extra, gains>>

wrapUsdcToPusd(t) ==
    LET job == jobs[t]  batch == Batch("wrap", job.n) IN
    /\ HasTurn(t) /\ job.pc = "wrap"
    /\ \/ BatchMined(batch) /\ Done(t, TRUE)
       \/ /\ WalletBusy(job.attempt) /\ Goto(t, Step("wrap", job.n, job.attempt + 1))
          /\ NoFault /\ UNCHANGED money
       \/ BatchThrows(batch, job.attempt) /\ Done(t, FALSE)
    /\ UNCHANGED <<setup, tool>>

\* External: the batch that timed out is mined after all, or dropped.
lateBatch ==
    /\ late # NoBatch
    /\ late' = NoBatch
    /\ \/ /\ Covered(late) /\ Mine(late)
          /\ extra' = IF late.kind = "wrap" THEN extra + late.n ELSE extra
       \/ UNCHANGED <<balances, deployed, extra, gains>>
    /\ UNCHANGED <<setup, service, tool, faults>>

\* External: the order of a funded bet fills, for pUSD the wallet has, or dies.
orderEnds(b) ==
    /\ bets[b] = "funded"
    /\ \/ /\ stake[b] <= dwPusd /\ dwPusd' = dwPusd - stake[b] /\ paid' = paid + stake[b]
          /\ bets' = [bets EXCEPT ![b] = "spent"]
       \/ bets' = [bets EXCEPT ![b] = "unfunded"] /\ UNCHANGED <<dwPusd, paid>>
    /\ UNCHANGED <<setup, queue, jobs, running, redemption, vaultUsdc, dwUsdc, deployed, late,
                   extra, gains, tool, faults>>

\* The process ends; the listener's rescan asks again for the bets left unanswered.
Restart ==
    /\ Fault("restart")
    /\ bets' = [b \in Bets |-> IF bets[b] = "asked" THEN "new" ELSE bets[b]]
    /\ running' = (Low > 0)
    /\ queue' = IF Low > 0 THEN <<Buffer>> ELSE <<>>
    /\ jobs' = [t \in Tasks |-> Start]
    /\ redemption' = Ended
    /\ UNCHANGED <<setup, money, tool>>

-----------------------------------------------------------------------------
(* What comes back from the positions.                                     *)

Profit(b, n) == Larger(n - stake[b], 0)
Redemption(step) == redemption' = step /\ UNCHANGED <<bets, queue, jobs, running>>

\* The position, whose price is in `paid`, is closed and n pUSD come into the wallet.
PositionPays(b, n) ==
    /\ bets[b] = "spent" /\ stake[b] <= paid
    /\ bets' = [bets EXCEPT ![b] = "closed"]
    /\ paid' = paid - stake[b] /\ dwPusd' = dwPusd + n
    /\ extra' = extra + n /\ gains' = gains + Profit(b, n)
    /\ UNCHANGED <<setup, queue, jobs, running, vaultUsdc, dwUsdc, deployed, late, tool, faults>>

\* External: a SELL of the position fills.
positionSold(b) ==
    \E n \in Proceeds : PositionPays(b, n) /\ UNCHANGED redemption

\* redeemViaExecutor: the shares of a resolved market pay, or are worth nothing.
redeemPositions(b) ==
    /\ redemption = Ended
    /\ \/ \E n \in Proceeds : PositionPays(b, n) /\ redemption' = Step("offramp", n, 1)
       \/ PositionPays(b, 0) /\ UNCHANGED redemption

\* offrampPusdToVault; what returned is then measured on the Vault, to which others have
\* paid, or which has paid others, in the meantime.
offrampPusdToVault ==
    LET batch == Batch("return", redemption.n) IN
    /\ redemption.pc = "offramp"
    /\ \/ /\ executor # "none" /\ (executor = "relayer" => late = NoBatch) /\ Covered(batch)
          /\ dwPusd' = dwPusd - batch.n /\ vaultUsdc' = vaultUsdc + batch.n
          /\ \E n \in 0..(batch.n + Others) :
                Redemption(Step("deployed", n, 1)) /\ gains' = gains + Larger(n - batch.n, 0)
          /\ UNCHANGED <<dwUsdc, paid, deployed, late, extra>> /\ NoFault
       \/ /\ WalletBusy(redemption.attempt)
          /\ Redemption(Step("offramp", redemption.n, redemption.attempt + 1))
          /\ NoFault /\ UNCHANGED money
       \/ BatchThrows(batch, redemption.attempt) /\ Redemption(Ended)
    /\ UNCHANGED <<setup, tool>>

\* Mutant: everything that ever left is acknowledged, not what came back.
AcknowledgedAll(n) == deployed

\* What an acknowledgement takes off, never below zero.
Acknowledged(n) == Smaller(n, deployed)

\* Vault.acknowledgePolymarketReturn reverts beyond what is deployed by then.
Acknowledge(n) ==
    /\ deployed' = IF n <= deployed THEN deployed - n ELSE deployed
    /\ UNCHANGED <<balances, late, extra, gains>>

redemptionDeployed ==
    /\ redemption.pc = "deployed"
    /\ Redemption(Step("ack", Acknowledged(redemption.n), 1))
    /\ UNCHANGED <<setup, money, tool, faults>>

redemptionAck ==
    /\ redemption.pc = "ack"
    /\ Acknowledge(redemption.n)
    /\ Redemption(Ended)
    /\ UNCHANGED <<setup, tool, faults>>

-----------------------------------------------------------------------------
(* The reclaim script.                                                     *)

Script(step) == script' = step /\ UNCHANGED reclaims

\* main: with --offramp it reads the pUSD to take out first, and caps it by --max.
reclaimStarts ==
    /\ script.pc = "idle" /\ reclaims < MaxReclaims
    /\ \/ script' = Step("balance", 0, 1)
       \/ \E n \in 1..dwPusd : script' = Step("offramp", n, 1)
    /\ reclaims' = reclaims + 1
    /\ UNCHANGED <<setup, service, money, faults>>

\* Phase A: the unwrap batch
reclaimOfframp ==
    LET batch == Batch("unwrap", script.n) IN
    /\ script.pc = "offramp"
    /\ \/ BatchMined(batch) /\ Script(Step("balance", 0, 1))
       \/ /\ WalletBusy(script.attempt) /\ Script(Step("offramp", script.n, script.attempt + 1))
          /\ NoFault /\ UNCHANGED money
       \/ BatchThrows(batch, script.attempt) /\ Script(Ended)
    /\ UNCHANGED <<setup, service>>

\* Phase B reads the idle USDC, caps it by --max, and transfers it.
reclaimBalance ==
    /\ script.pc = "balance"
    /\ \/ dwUsdc = 0 /\ Script(Ended)
       \/ \E n \in 1..dwUsdc : Script(Step("sweep", n, 1))
    /\ UNCHANGED <<setup, service, money, faults>>

reclaimSweep ==
    LET batch == Batch("sweep", script.n) IN
    /\ script.pc = "sweep"
    /\ \/ BatchMined(batch) /\ Script(Step("deployed", script.n, 1))
       \/ /\ WalletBusy(script.attempt) /\ Script(Step("sweep", script.n, script.attempt + 1))
          /\ NoFault /\ UNCHANGED money
       \/ BatchThrows(batch, script.attempt) /\ Script(Ended)
    /\ UNCHANGED <<setup, service>>

\* Phase C
reclaimDeployed ==
    /\ script.pc = "deployed"
    /\ Script(Step("ack", Acknowledged(script.n), 1))
    /\ UNCHANGED <<setup, service, money, faults>>

reclaimAck ==
    /\ script.pc = "ack"
    /\ Acknowledge(script.n)
    /\ Script(Ended)
    /\ UNCHANGED <<setup, service, faults>>

\* The script dies between two of its calls.
reclaimDies ==
    /\ script.pc # "idle" /\ Fault("crash")
    /\ Script(Ended)
    /\ UNCHANGED <<setup, service, money>>

-----------------------------------------------------------------------------
Runs(t) == readBalance(t) \/ fundPolymarketWallet(t) \/ wrapUsdcToPusd(t)

Next ==
    \/ \E b \in Bets : \/ ensureDepositWalletFunded(b) \/ orderEnds(b)
                      \/ positionSold(b) \/ redeemPositions(b)
    \/ \E t \in Tasks : \/ readBalance(t) \/ fundPolymarketWallet(t) \/ heldUpMined(t)
                       \/ wrapUsdcToPusd(t)
    \/ pollTick \/ lateBatch \/ Restart
    \/ offrampPusdToVault \/ redemptionDeployed \/ redemptionAck
    \/ reclaimStarts \/ reclaimOfframp \/ reclaimBalance \/ reclaimSweep
    \/ reclaimDeployed \/ reclaimAck \/ reclaimDies

\* Awaited calls return or throw, but for a receipt that is waited for; the poll timer
\* fires, a batch that timed out is mined or dropped, and a funded bet's order ends.
Fairness ==
    /\ \A t \in Tasks : WF_vars(Runs(t))
    /\ WF_vars(pollTick) /\ WF_vars(lateBatch)
    /\ \A b \in Bets : WF_vars(orderEnds(b))
    /\ WF_vars(reclaimOfframp \/ reclaimBalance \/ reclaimSweep \/ reclaimDeployed \/ reclaimAck)
    /\ WF_vars(offrampPusdToVault \/ redemptionDeployed \/ redemptionAck)

Spec == Init /\ [][Next]_vars /\ Fairness

-----------------------------------------------------------------------------
(* Properties.                                                             *)

(* What is out of the Vault (the wallet's USDC and pUSD and the capital in
   positions) is never more than deployedToPolymarket and the bets' gains, through
   failed wraps, late batches, a redemption whose measure counts other money, and
   a reclaim that runs beside the service or dies half-way.  The gains come in
   since a return is acknowledged whole, the profit with the stake
   (jitFunding.ts fundOnce, redemptionPipeline.ts step 2).                   *)
CapBoundsOutside ==
    dwUsdc + dwPusd + paid <= deployed + gains /\ deployed <= Cap

(* A buffer top-up and a JIT top-up do not both fill one shortfall
   (runOnFundingChain: they "can never interleave"): the wallet's pUSD never passes
   the largest of the stakes and the buffer's target, except by what late batches,
   redemptions and SELLs have brought.                                        *)
NeverDoubleFunded ==
    \E n \in Stakes \cup {Low, Target} : dwPusd <= n + extra

\* A task waits for a transaction that was held up.
Hung == \E t \in Tasks : jobs[t].pc = "wait"

(* A failure does not block the chain ("never poisoned: a rejecting fn still
   advances the queue"): every bet that asks gets its answer, or a restart asks
   again, unless a task hangs in tx.wait.                                    *)
EveryRequestAnswered == \A b \in Bets : bets[b] = "asked" ~> (bets[b] # "asked" \/ Hung)

(* The buffer recovers: once faults and bets end it is back at low water and
   stays there, unless the Vault can no longer pay for it, the wallet has no
   executor or a task hangs ("the next tick retries once the cap/liquidity
   recovers").                                                               *)
BufferRefilled ==
    <>[](Low = 0 \/ executor = "none" \/ dwPusd >= Low \/ Hung
         \/ ~Fundable(Larger(Low, Target) - dwPusd))

(* One failed batch, read or receipt stops neither the bets nor the buffer; only
   a wait without end does.                                                  *)
FundingRecovers == EveryRequestAnswered /\ BufferRefilled

(* jitFunding.ts:32-33: serialized "so two near-simultaneous bets do not ...
   double-fund (or under-fund)": the wallet covers every bet that was told it is
   funded and whose order has not ended.                                     *)
FundedIsCovered ==
    MapThenSumSet(LAMBDA b : stake[b], {b \in Bets : bets[b] = "funded"}) <= dwPusd
=============================================================================
