----------------------------- MODULE Settlement -----------------------------
(***************************************************************************)
(* How a finalized market becomes settleable and its collateral comes home: *)
(* the signing layer's poll (settlementResolver.ts), its redemption        *)
(* pipeline (redemptionPipeline.ts), the tracked_markets table and the     *)
(* seed of resolved markets it reads from the proof relay.                 *)
(*                                                                         *)
(* A task is a poll tick or a manual resolution; an action is what runs    *)
(* between two awaits.  The chain (CTF, Vault, deposit wallet), the relay's *)
(* index and the users are external.  A market is one model value: its     *)
(* reduced key (the id modulo BN254_P) and its raw condition id matter in  *)
(* that CTF cannot be asked with a reduced one, and that the two are equal *)
(* when the id is below the modulus (Small).  The pool's shares of a       *)
(* market cost one unit of collateral and pay two when they win.           *)
(*                                                                         *)
(* Faults names what may go wrong, at most MaxFailures times in all:       *)
(*   readError   an RPC read outside a batch throws                        *)
(*   batchNull   a call inside a batched read fails and yields null        *)
(*   txFail      a transaction to the Vault is not accepted                *)
(*   relayer     a deposit-wallet batch fails                              *)
(*   late        a deposit-wallet batch times out and is mined later       *)
(* Users, just-in-time funding, the wallet's orders and the reclaim script *)
(* move the same balances at any time, at most MaxMoves times less the     *)
(* restarts; the process restarts at most MaxRestarts times less the moves. *)
(***************************************************************************)
EXTENDS Integers, FiniteSets, FiniteSetsExt

CONSTANTS
    Markets,
    Seeded,        \* the markets of SEED_REDUCED_KEYS
    Small,         \* the markets whose condition id is below BN254_P
    Kinds,         \* the ways a market may be finalized
    Tasks,         \* ticks and manual resolutions that may overlap
    Buffer,        \* idle pUSD in the deposit wallet at the start
    Liquidity,     \* USDC in the Vault at the start
    MaxMoves,      \* bound on received, withdrawals, top-ups, manual resolutions
    MaxFailures,
    MaxRestarts,
    Faults

AllKinds == {"pays", "loses", "void", "split"}

ASSUME SettlementAssumption ==
    /\ IsFiniteSet(Markets) /\ Seeded \cup Small \subseteq Markets /\ Kinds \subseteq AllKinds
    /\ Buffer \in Nat /\ Liquidity \in Nat
    /\ MaxMoves \in Nat /\ MaxFailures \in Nat /\ MaxRestarts \in Nat
    /\ Faults \subseteq {"readError", "batchNull", "txFail", "relayer", "late"}

VARIABLES
    ctf,              \* external: market -> "open" or how it was finalized
    resolvedAt,       \* external: markets with Vault.marketResolvedAt > 0
    conditionIdOf,    \* external: markets with Vault.conditionIdOf set
    shares,           \* external: markets whose shares the deposit wallet holds
    pusd,             \* external: pUSD of the deposit wallet
    usdc,             \* external: USDC of the Vault
    deployed,         \* external: Vault.deployedToPolymarket
    late,             \* external: deposit-wallet batches still to be mined
    registry,         \* durable: markets with a market_registry row
    tracked,          \* durable: market -> what its tracked_markets row holds, if any
    reclaimed,        \* external: what the reclaim script has swept and not acknowledged
    resolvedMarkets,  \* memory: the set of that name
    seedFresh,        \* memory: _resolvedSeededAt is recent
    waiting,          \* memory: markets whose endDate or nextAt is in the future
    tasks,            \* memory: the tasks in progress
    moves, failures, restarts,
    minted, offramped, acked,  \* history: pUSD redeemed, off-ramped, acknowledged
    received,                  \* history: what others brought to the Vault
    paidIn,                    \* history: pUSD that funding and SELLs brought
    swallowed,                 \* history: markets with an error that was only logged
    overlapped                 \* history: two redemptions were under way at once

vaultVars == <<resolvedAt, conditionIdOf>>
money == <<shares, pusd, usdc, deployed, late>>
world == <<ctf, registry, tracked, reclaimed, overlapped>>
memory == <<resolvedMarkets, seedFresh, waiting>>
history == <<minted, offramped, acked, received, paidIn, swallowed>>
counters == <<minted, offramped, acked, received, paidIn>>
bounds == <<moves, failures, restarts>>
vars == <<vaultVars, money, world, memory, tasks, bounds, history>>

Idle == [pc |-> "idle"]
\* A tick reading about a set of markets, and working through those to settle
Reading(pc, ms) == [pc |-> pc, todo |-> ms]
\* The pipeline of market m, the rest of the tick in todo; usdc and pusd are the
\* balances read so far, amount is what is to be off-ramped or acknowledged, and
\* poll tells a tick from a manual resolution.
Working(m, ms, poll) ==
    [pc |-> "numerators", m |-> m, todo |-> ms, poll |-> poll,
     usdc |-> 0, pusd |-> 0, amount |-> 0]
WorkPC == {"numerators", "register", "check", "resolve", "usdcBefore", "pusdBefore",
           "redeem", "pusdAfter", "offramp", "usdcAfter", "deployed", "ack"}
ReadingTask == [pc : {"resolvedAt", "denominators", "next"}, todo : SUBSET Markets]
WorkingTask == [pc : WorkPC, m : Markets, todo : SUBSET Markets, poll : BOOLEAN,
                usdc : Nat, pusd : Nat, amount : Nat]

TypeOK ==
    /\ ctf \in [Markets -> {"open"} \cup Kinds]
    /\ resolvedAt \subseteq Markets /\ conditionIdOf \subseteq Markets
    /\ shares \subseteq Markets
    /\ pusd \in Nat /\ usdc \in Nat /\ deployed \in Nat
    /\ late \subseteq Markets
    /\ registry \subseteq Markets
    /\ tracked \in [Markets -> {"none", "reduced", "raw"}]
    /\ reclaimed \in Nat
    /\ resolvedMarkets \subseteq Markets /\ waiting \subseteq Markets
    /\ seedFresh \in BOOLEAN
    /\ tasks \in [Tasks -> {Idle} \cup ReadingTask \cup WorkingTask]
    /\ moves \in 0..MaxMoves /\ failures \in 0..MaxFailures
    /\ restarts \in 0..MaxRestarts
    /\ minted \in Nat /\ offramped \in Nat /\ acked \in Nat
    /\ received \in Nat /\ paidIn \in Nat /\ swallowed \subseteq Markets
    /\ overlapped \in BOOLEAN

\* Every market has a bet that was filled.  Its row holds the raw id the registry gave, or
\* the reduced key (mock mode, older listeners); a bet older than the table has a row
\* when the seed found the market in the registry.
Init ==
    /\ ctf = [m \in Markets |-> "open"]
    /\ resolvedAt = {} /\ conditionIdOf = {} /\ shares = Markets /\ late = {}
    /\ pusd = Buffer /\ usdc = Liquidity /\ deployed = Buffer + Cardinality(Markets)
    /\ reclaimed = 0
    /\ registry \in SUBSET Markets
    /\ tracked \in [Markets -> {"none", "reduced", "raw"}]
    /\ \A m \in Markets :
        /\ tracked[m] = "none" => m \in Seeded \ registry
        /\ tracked[m] = "reduced" => m \notin Seeded \cap registry
        /\ tracked[m] = "raw" => m \in registry
    /\ resolvedMarkets = {} /\ seedFresh = FALSE /\ waiting = Markets
    /\ tasks = [t \in Tasks |-> Idle]
    /\ moves = 0 /\ failures = 0 /\ restarts = 0
    /\ minted = 0 /\ offramped = 0 /\ acked = 0
    /\ received = 0 /\ paidIn = 0 /\ swallowed = {} /\ overlapped = FALSE

Goto(t, task) == tasks' = [tasks EXCEPT ![t] = task]
At(t, pc) == tasks[t].pc = pc
Step(t, pc) == Goto(t, [tasks[t] EXCEPT !.pc = pc])

\* A failure of kind f is used up; any other step leaves the count alone.
Fails(f) == f \in Faults /\ failures < MaxFailures /\ failures' = failures + 1
Succeeds == UNCHANGED failures

\* batchUint: one call per batch, or one per read when the batch is refused; a
\* read that fails yields null and does not fail the others.
batchUint(nulls) == IF nulls = {} THEN Succeeds ELSE Fails("batchNull")

\* An error is caught and logged, and the turn goes on as if there were none.
Swallow(t) == swallowed' = swallowed \cup {tasks[t].m}

\* end of the loop body: `resolvedMarkets.add; _settleBackoff.delete`
Settled(t) ==
    /\ IF tasks[t].poll
       THEN /\ resolvedMarkets' = resolvedMarkets \cup {tasks[t].m}
            /\ waiting' = waiting \ {tasks[t].m}
            /\ Goto(t, Reading("next", tasks[t].todo))
       ELSE Goto(t, Idle) /\ UNCHANGED <<resolvedMarkets, waiting>>
    /\ UNCHANGED seedFresh

\* Mutant: a market that failed is added to the set, too.
FailedSkipped(t) == Settled(t)

\* the catch of the loop body: backoffMarket
Failed(t) ==
    /\ IF tasks[t].poll
       THEN /\ waiting' = waiting \cup {tasks[t].m}
            /\ Goto(t, Reading("next", tasks[t].todo))
       ELSE Goto(t, Idle) /\ UNCHANGED waiting
    /\ UNCHANGED <<resolvedMarkets, seedFresh>>

-----------------------------------------------------------------------------
(* The poll tick.                                                          *)

\* Pass 1: past the end date, not known to be resolved, past the backoff
Eligible ==
    {m \in Markets : tracked[m] # "none"} \ (resolvedMarkets \cup waiting)

\* CTF is asked about a market whose raw condition id is in its row or in the
\* registry, if that is not the reduced key itself.
Checkable(m) == m \notin Small /\ (tracked[m] = "raw" \/ m \in registry)

\* Back off the markets without a raw id and read the denominators of the rest.
CheckRaw(t, ms) ==
    /\ waiting' = waiting \cup {m \in ms : ~Checkable(m)}
    /\ LET known == {m \in ms : Checkable(m)}
       IN Goto(t, IF known = {} THEN Idle ELSE Reading("denominators", known))

tick(t) ==
    /\ At(t, "idle") /\ Eligible # {}
    /\ \/ seedFresh /\ CheckRaw(t, Eligible)
       \/ /\ ~seedFresh
          /\ Goto(t, Reading("resolvedAt", Eligible))
          /\ UNCHANGED waiting
    /\ UNCHANGED <<vaultVars, money, world, resolvedMarkets, seedFresh, bounds, history>>

\* Pass 2: drop the markets that the Vault has resolved; a null is no resolution.
tickResolvedAt(t) ==
    /\ At(t, "resolvedAt")
    /\ \E nulls \in SUBSET tasks[t].todo :
        LET done == (tasks[t].todo \cap resolvedAt) \ nulls
            ms   == tasks[t].todo \ done
        IN /\ batchUint(nulls)
           /\ resolvedMarkets' = resolvedMarkets \cup done
           /\ waiting' = (waiting \ done) \cup {m \in ms : ~Checkable(m)}
           /\ LET known == {m \in ms : Checkable(m)}
              IN Goto(t, IF known = {} THEN Idle ELSE Reading("denominators", known))
    /\ UNCHANGED <<vaultVars, money, world, seedFresh, moves, restarts, history>>

\* Pass 3: finalized markets are settled, the others back off.
tickDenominators(t) ==
    /\ At(t, "denominators")
    /\ \E nulls \in SUBSET tasks[t].todo :
        LET final == {m \in tasks[t].todo \ nulls : ctf[m] # "open"}
        IN /\ batchUint(nulls)
           /\ waiting' = waiting \cup (tasks[t].todo \ final)
           /\ Goto(t, Reading("next", final))
    /\ UNCHANGED <<vaultVars, money, world, resolvedMarkets, seedFresh, moves, restarts, history>>

\* The loop: the next market, or the end of the tick.
tickNext(t) ==
    /\ At(t, "next")
    /\ \/ tasks[t].todo = {} /\ Goto(t, Idle)
       \/ \E m \in tasks[t].todo :
            Goto(t, Working(m, tasks[t].todo \ {m}, TRUE))
    /\ UNCHANGED <<vaultVars, money, world, memory, bounds, history>>

\* A read outside a batch throws: the tick as a whole ends, or this market's turn,
\* or the redemption, whose error is logged.
tickThrows(t) ==
    /\ Fails("readError")
    /\ \/ /\ tasks[t].pc \in {"resolvedAt", "denominators"}
          /\ Goto(t, Idle)
          /\ UNCHANGED memory
       \/ /\ tasks[t].pc \in {"numerators", "check", "usdcBefore"}
          /\ Failed(t)
       \/ /\ tasks[t].pc \in {"pusdBefore", "pusdAfter", "usdcAfter", "deployed"}
          /\ Settled(t)
    /\ UNCHANGED <<vaultVars, money, world, moves, restarts, history>>

\* resolveMarketManually, for a market the Vault has not resolved
resolveMarketManually(t, m) ==
    /\ moves + restarts < MaxMoves /\ moves' = moves + 1
    /\ At(t, "idle")
    /\ m \notin resolvedAt
    /\ Goto(t, Working(m, {}, FALSE))
    /\ UNCHANGED <<vaultVars, money, world, memory, failures, restarts, history>>

-----------------------------------------------------------------------------
(* handleResolution and STEP 1 of the pipeline.                            *)

\* Whether every numerator that is read is zero: the market is void or not reported,
\* or the batched reads of its nonzero numerators came back null, which counts as 0.
readNumerators(m, zero) ==
    \/ Succeeds /\ zero = (ctf[m] \in {"open", "void"})
    \/ Fails("batchNull") /\ zero /\ ctf[m] \notin {"open", "void"}

\* swallowed tells a market that is taken for void by mistake.
handleResolution(t) ==
    /\ At(t, "numerators")
    /\ \E zero \in BOOLEAN :
        /\ readNumerators(tasks[t].m, zero)
        /\ Step(t, IF zero THEN "register" ELSE "check")
        /\ IF zero /\ ctf[tasks[t].m] \notin {"open", "void"} THEN Swallow(t)
           ELSE UNCHANGED swallowed
    /\ UNCHANGED <<vaultVars, money, world, memory, moves, restarts, counters>>

\* registerCondition; its failure is logged and the market counts as settled.
registerCondition(t) ==
    /\ At(t, "register")
    /\ \/ /\ Succeeds /\ UNCHANGED swallowed
          /\ conditionIdOf' = conditionIdOf \cup {tasks[t].m}
       \/ Fails("txFail") /\ Swallow(t) /\ UNCHANGED conditionIdOf
    /\ Settled(t)
    /\ UNCHANGED <<resolvedAt, money, world, moves, restarts, counters>>

\* marketResolvedAt, the numerators and the denominator are read again; numerators
\* that come back null end the pipeline, and the market counts as settled.
checkResolved(t) ==
    /\ At(t, "check")
    /\ \/ /\ readNumerators(tasks[t].m, FALSE)
          /\ Step(t, IF tasks[t].m \in resolvedAt THEN "usdcBefore" ELSE "resolve")
          /\ UNCHANGED <<memory, swallowed>>
       \/ readNumerators(tasks[t].m, TRUE) /\ Swallow(t) /\ Settled(t)
    /\ UNCHANGED <<vaultVars, money, world, moves, restarts, counters>>

\* Vault.resolveMarket reverts when the market is resolved already and when
\* every payout rounds to zero; whatever happens, STEP 2 follows.
resolveMarket(t) ==
    LET m == tasks[t].m IN
    /\ At(t, "resolve")
    /\ \/ /\ Succeeds /\ m \notin resolvedAt /\ ctf[m] # "split"
          /\ resolvedAt' = resolvedAt \cup {m} /\ conditionIdOf' = conditionIdOf \cup {m}
          /\ UNCHANGED swallowed
       \/ /\ ((m \in resolvedAt \/ ctf[m] = "split") /\ Succeeds) \/ Fails("txFail")
          /\ Swallow(t) /\ UNCHANGED vaultVars
    /\ Step(t, "usdcBefore")
    /\ UNCHANGED <<money, world, memory, moves, restarts, counters>>

-----------------------------------------------------------------------------
(* STEP 2: redeem, off-ramp, acknowledge.                                  *)

RedeemPC == {"pusdBefore", "redeem", "pusdAfter", "offramp", "usdcAfter", "deployed", "ack"}

\* The wallet's balances of the position ids of the market's bets; a null is no shares.
hasVaultShares(m, has) ==
    \/ Succeeds /\ has = (m \in shares)
    \/ Fails("batchNull") /\ ~has

\* usdcBefore, and whether there is anything to redeem
readVaultUsdc(t) ==
    LET read == [tasks[t] EXCEPT !.usdc = usdc] IN
    /\ At(t, "usdcBefore")
    /\ overlapped' = (overlapped \/ \E other \in Tasks : tasks[other].pc \in RedeemPC)
    /\ \E has \in BOOLEAN :
        /\ hasVaultShares(tasks[t].m, has)
        /\ Goto(t, [read EXCEPT !.pc = IF has THEN "pusdBefore" ELSE "usdcAfter"])
    /\ UNCHANGED <<vaultVars, money, ctf, registry, tracked, reclaimed, memory, moves, restarts,
                   history>>

readPusd(t) ==
    /\ At(t, "pusdBefore")
    /\ Goto(t, [tasks[t] EXCEPT !.pc = "redeem", !.pusd = pusd])
    /\ UNCHANGED <<vaultVars, money, world, memory, bounds, history>>

Payout(m) == CASE ctf[m] = "pays" -> 2 [] ctf[m] = "split" -> 1 [] OTHER -> 0

\* redeemPositions burns the wallet's shares of the market, if it has any.
Redeem(m) ==
    LET mint == IF m \in shares THEN Payout(m) ELSE 0 IN
    /\ shares' = shares \ {m}
    /\ pusd' = pusd + mint
    /\ minted' = minted + mint

\* redeemViaExecutor; its result is not looked at.
redeemViaExecutor(t) ==
    /\ At(t, "redeem")
    /\ \/ Succeeds /\ Redeem(tasks[t].m) /\ UNCHANGED late
       \/ Fails("relayer") /\ UNCHANGED <<shares, pusd, late, minted>>
       \/ Fails("late") /\ late' = late \cup {tasks[t].m} /\ UNCHANGED <<shares, pusd, minted>>
    /\ Step(t, "pusdAfter")
    /\ UNCHANGED <<vaultVars, usdc, deployed, world, memory, moves, restarts,
                   offramped, acked, received, paidIn, swallowed>>

\* Mutant: the whole balance of the wallet is off-ramped.
measureAll(t) ==
    /\ At(t, "pusdAfter")
    /\ Goto(t, [tasks[t] EXCEPT !.pc = IF pusd > 0 THEN "offramp" ELSE "usdcAfter",
                                !.amount = pusd])
    /\ UNCHANGED <<vaultVars, money, world, memory, bounds, history>>

\* The redeemed amount is the growth of the balance.
measureRedeemed(t) ==
    LET grown == pusd - tasks[t].pusd IN
    /\ At(t, "pusdAfter")
    /\ Goto(t, [tasks[t] EXCEPT !.pc = IF grown > 0 THEN "offramp" ELSE "usdcAfter",
                                !.amount = IF grown > 0 THEN grown ELSE 0])
    /\ UNCHANGED <<vaultVars, money, world, memory, bounds, history>>

\* One atomic batch: approve, unwrap to the Vault.  When it fails the error is
\* logged at the end of the pipeline and the market counts as settled.
offrampPusdToVault(t) ==
    LET a == tasks[t].amount IN
    /\ At(t, "offramp")
    /\ \/ /\ Succeeds /\ pusd >= a
          /\ pusd' = pusd - a /\ usdc' = usdc + a /\ offramped' = offramped + a
          /\ Step(t, "usdcAfter") /\ UNCHANGED memory
       \/ /\ (pusd < a /\ Succeeds) \/ Fails("relayer")
          /\ UNCHANGED <<pusd, usdc, offramped>>
          /\ Settled(t)
    /\ UNCHANGED <<vaultVars, shares, deployed, late, world, moves, restarts,
                   minted, acked, received, paidIn, swallowed>>

\* A redemption that left the Vault no richer is an error; otherwise the growth
\* of the Vault's balance is what came back.
measureReturned(t) ==
    LET returned == usdc - tasks[t].usdc IN
    /\ At(t, "usdcAfter")
    /\ IF returned > 0
       THEN Goto(t, [tasks[t] EXCEPT !.pc = "deployed", !.amount = returned])
            /\ UNCHANGED memory
       ELSE Settled(t)
    /\ UNCHANGED <<vaultVars, money, world, bounds, history>>

\* Mutant: the clamp takes the larger amount.
readDeployedUnclamped(t) ==
    /\ At(t, "deployed")
    /\ LET ack == Max({tasks[t].amount, deployed})
       IN IF ack > 0
          THEN Goto(t, [tasks[t] EXCEPT !.pc = "ack", !.amount = ack]) /\ UNCHANGED memory
          ELSE Settled(t)
    /\ UNCHANGED <<vaultVars, money, world, bounds, history>>

readDeployed(t) ==
    /\ At(t, "deployed")
    /\ LET ack == Min({tasks[t].amount, deployed})
       IN IF ack > 0
          THEN Goto(t, [tasks[t] EXCEPT !.pc = "ack", !.amount = ack]) /\ UNCHANGED memory
          ELSE Settled(t)
    /\ UNCHANGED <<vaultVars, money, world, bounds, history>>

\* acknowledgePolymarketReturn reverts on more than is deployed.
acknowledge(t) ==
    LET a == tasks[t].amount IN
    /\ At(t, "ack")
    /\ \/ Succeeds /\ a <= deployed /\ deployed' = deployed - a /\ acked' = acked + a
       \/ /\ (a > deployed /\ Succeeds) \/ Fails("txFail")
          /\ UNCHANGED <<deployed, acked>>
    /\ Settled(t)
    /\ UNCHANGED <<vaultVars, shares, pusd, usdc, late, world, moves, restarts,
                   minted, offramped, received, paidIn, swallowed>>

-----------------------------------------------------------------------------
(* The resolver's other timers, a restart, and the environment.            *)

\* refreshResolvedFromIndex: the relay's index may lag behind the chain.
refreshResolvedFromIndex ==
    /\ \E ids \in SUBSET resolvedAt : resolvedMarkets' = resolvedMarkets \cup ids
    /\ seedFresh' = TRUE
    /\ UNCHANGED <<vaultVars, money, world, waiting, tasks, bounds, history>>

\* SEED_FRESH_MS passes without an answer of the relay.
SeedAges ==
    /\ seedFresh /\ seedFresh' = FALSE
    /\ UNCHANGED <<vaultVars, money, world, resolvedMarkets, waiting, tasks, bounds, history>>

\* endDate or nextAt passes.
WaitEnds(m) ==
    /\ m \in waiting /\ waiting' = waiting \ {m}
    /\ UNCHANGED <<vaultVars, money, world, resolvedMarkets, seedFresh, tasks, bounds, history>>

\* The process restarts: memory and tasks are lost, and with them the backoff of
\* the markets that are past their end; seedTrackedMarkets upserts the rows of the
\* old markets the registry knows by now.
Restart ==
    /\ moves + restarts < MaxRestarts /\ restarts' = restarts + 1
    /\ resolvedMarkets' = {} /\ seedFresh' = FALSE
    /\ \E running \in SUBSET waiting : waiting' = running
    /\ tasks' = [t \in Tasks |-> Idle]
    /\ tracked' = [m \in Markets |-> IF m \in Seeded \cap registry THEN "raw" ELSE tracked[m]]
    /\ UNCHANGED <<vaultVars, money, ctf, registry, reclaimed, overlapped, moves, failures,
                   history>>

\* syncMarkets, which asks for the open markets (closed=false&active=true) and never in
\* mock mode, or syncOneMarket for a market that a user opens: nothing makes either
\* reach this market.
RegistrySync(m) ==
    /\ m \notin registry
    /\ registry' = registry \cup {m}
    /\ UNCHANGED <<vaultVars, money, ctf, tracked, reclaimed, overlapped, memory, tasks, bounds,
                   history>>

\* The listener handles a later bet on the market.
processBetEvent(m) ==
    /\ m \in registry /\ tracked[m] # "raw"
    /\ tracked' = [tracked EXCEPT ![m] = "raw"]
    /\ UNCHANGED <<vaultVars, money, ctf, registry, reclaimed, overlapped, memory, tasks, bounds,
                   history>>

Finalize(m, k) ==
    /\ ctf[m] = "open"
    /\ ctf' = [ctf EXCEPT ![m] = k]
    /\ UNCHANGED <<vaultVars, money, registry, tracked, reclaimed, overlapped, memory, tasks,
                   bounds, history>>

\* A batch that timed out is mined after all.
LateRedeem(m) ==
    /\ m \in late /\ late' = late \ {m}
    /\ Redeem(m)
    /\ UNCHANGED <<vaultVars, usdc, deployed, world, memory, tasks, bounds,
                   offramped, acked, received, paidIn, swallowed>>

deposit ==
    /\ usdc' = usdc + 1 /\ received' = received + 1
    /\ UNCHANGED <<shares, pusd, deployed, reclaimed, paidIn>>
withdraw ==
    /\ usdc > 0 /\ usdc' = usdc - 1
    /\ UNCHANGED <<shares, pusd, deployed, reclaimed, received, paidIn>>

\* ensureDepositWalletFunded, once it is through (module Funding)
fundOnce ==
    /\ usdc > 0 /\ usdc' = usdc - 1 /\ pusd' = pusd + 1
    /\ deployed' = deployed + 1 /\ paidIn' = paidIn + 1
    /\ UNCHANGED <<shares, reclaimed, received>>

\* External: a BUY of the wallet fills, or a SELL does and brings what it is worth.
orderFills(m) ==
    /\ \/ /\ pusd > 0 /\ pusd' = pusd - 1 /\ shares' = shares \cup {m} /\ UNCHANGED paidIn
       \/ /\ m \in shares /\ shares' = shares \ {m}
          /\ \E n \in 1..2 : pusd' = pusd + n /\ paidIn' = paidIn + n
    /\ UNCHANGED <<usdc, deployed, reclaimed, received>>

\* The reclaim script sends the wallet's idle USDC, or with --offramp its pUSD, to the Vault.
reclaimSweep ==
    /\ UNCHANGED pusd \/ (pusd > 0 /\ pusd' = pusd - 1)
    /\ usdc' = usdc + 1 /\ received' = received + 1 /\ reclaimed' = reclaimed + 1
    /\ UNCHANGED <<shares, deployed, paidIn>>

\* It acknowledges what it swept, clamped to what is deployed (module Funding).
reclaimAck ==
    /\ reclaimed > 0 /\ reclaimed' = 0
    /\ deployed' = deployed - Min({reclaimed, deployed})
    /\ UNCHANGED <<vaultVars, shares, pusd, usdc, late, ctf, registry, tracked, overlapped,
                   memory, tasks, bounds, history>>

Others ==
    /\ moves + restarts < MaxMoves /\ moves' = moves + 1
    /\ \/ deposit \/ withdraw \/ fundOnce \/ reclaimSweep
       \/ \E m \in Markets : orderFills(m)
    /\ UNCHANGED <<vaultVars, late, ctf, registry, tracked, overlapped, memory, tasks, failures,
                   restarts, minted, offramped, acked, swallowed>>

Task(t) ==
    \/ tick(t) \/ tickResolvedAt(t) \/ tickDenominators(t) \/ tickNext(t) \/ tickThrows(t)
    \/ handleResolution(t) \/ registerCondition(t) \/ checkResolved(t) \/ resolveMarket(t)
    \/ readVaultUsdc(t) \/ readPusd(t) \/ redeemViaExecutor(t) \/ measureRedeemed(t)
    \/ offrampPusdToVault(t) \/ measureReturned(t) \/ readDeployed(t) \/ acknowledge(t)

Environment ==
    \/ refreshResolvedFromIndex \/ SeedAges \/ Restart \/ Others \/ reclaimAck
    \/ \E m \in Markets :
        \/ WaitEnds(m) \/ RegistrySync(m) \/ processBetEvent(m) \/ LateRedeem(m)
        \/ \E k \in Kinds : Finalize(m, k)

Next ==
    \/ \E t \in Tasks : Task(t) \/ \E m \in Markets : resolveMarketManually(t, m)
    \/ Environment

\* The process runs its timers, its I/O ends and time passes.  That the wait for a
\* receipt ends is an assumption: tx.wait has no timeout.  Nobody has to resolve a market
\* by hand, and the registry need not learn of it.
Fairness ==
    /\ \A t \in Tasks : WF_vars(Task(t))
    /\ \A m \in Markets : WF_vars(WaitEnds(m))

Spec == Init /\ [][Next]_vars
FairSpec == Spec /\ Fairness

-----------------------------------------------------------------------------
(* Properties.                                                             *)

\* The Vault lets the bets on the market be settled, or refunded if it is void.
Settleable(m) == m \in resolvedAt \/ (m \in conditionIdOf /\ ctf[m] = "void")

\* A market that the poll will not look at again can be settled on chain, or its
\* turn met an error that the code only logs (settlementResolver.ts tick).
SkippedIsSettled == \A m \in resolvedMarkets : Settleable(m) \/ m \in swallowed

\* The amount off-ramped is measured across awaits (redemptionPipeline.ts): it exceeds
\* what redemptions minted by the top-ups and the SELLs' proceeds that raced them and
\* by nothing else, as long as no two redemptions measure at once (nothing serializes
\* ticks and manual resolutions).
BufferUntouched == ~overlapped => offramped <= minted + paidIn

\* What the pipeline takes off deployedToPolymarket is measured across awaits: it
\* exceeds what it off-ramped by at most what users deposited and the reclaim script
\* swept meanwhile, as long as no two redemptions measure at once.
AcknowledgedReturned == ~overlapped => acked <= offramped + received

\* Every finalized market that CTF can be asked about (its raw condition id is known and
\* is not below the modulus) becomes settleable, across restarts, failing reads and an
\* index that lags, unless its turn met an error that the code only logs.
FinalizedSettles ==
    \A m \in Markets :
        (ctf[m] # "open" /\ tracked[m] # "none" /\ Checkable(m))
            ~> Settleable(m) \/ m \in swallowed

\* settlementResolver.ts:149-151: "poll the locally-persisted tracked_markets table ... and
\* check each for CTF finalization".  An id below the modulus is its own reduced key, so
\* the poll takes it for one that cannot be asked about (228-229).
EachIsChecked ==
    \A m \in Markets :
        (ctf[m] # "open" /\ tracked[m] = "raw") ~> Settleable(m) \/ m \in swallowed

=============================================================================
