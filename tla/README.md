# Polyshield in TLA+

Polyshield is a privacy vault in front of Polymarket.  A depositor's money lives
in hidden *notes*; a zero-knowledge proof spends a note into a bet, and one pooled
Polymarket account, run by the *signing layer*, buys the shares.  The signing layer
reports what became of an order by signing an *attestation*, which the bettor hands
to the Vault with a proof to be credited.  The browser keeps the notes and can rebuild
them from the chain; the *proof relay* sends the proofs and serves Merkle paths, events
and market data.

Four things have to be right: what the contract pays, whatever it is handed; what the
operator signs, whatever the exchange, the network and its own process do; that
everybody who acts on the chain's state sees it; and that the browser neither loses
money nor spends what it does not have.  This project models all four.

## Inventory

| Part | State | Operations | Talks to |
|---|---|---|---|
| Vault (`contracts/src/Vault.sol`, `VaultLogic.sol`, `VaultInputs.sol`, `NullifierRegistry.sol`) | spent nullifiers, bet records, provisional fees, market payouts, fee accumulator, deployed capital, settings | deposit, withdraw, consolidate, authorizeBet, five credit paths, resolveMarket, registerCondition, transfers, governance | verifiers, tree, CTF, USDC; emits the events everybody reads |
| Groth16 circuits (`circuits/groth16`) | none | nine statements about notes | verified by the Vault |
| CommitmentMerkleTree | frontier, ring of recent roots | insert, isKnownRoot | called by the Vault |
| Signing layer: listener, order builder | block cursor, in-flight map, submission markers, limit intents | scan, deep sweep, fund, submit FAK or limit order | Vault events (chain or relay), CLOB, attestation store |
| Signing layer: fill tracker | tracked orders (memory and SQLite), finalized set | track, user-channel message, reconcile, cancel | CLOB REST and websocket, attestation store |
| Signing layer: attestation store | one outcome row per bet, one SOLD row | signAndStoreAttestation, attestSoldAmount | read by the frontend |
| Signing layer: HTTP API | none of its own | /cancel-bet, /close-request, /limit-order | the three parts above |
| Signing layer: settlement resolver, redemption | resolved set, backoff, tracked_markets | poll, resolveMarket, registerCondition, redeem, off-ramp, acknowledge | CTF, Vault, deposit wallet, relay |
| Signing layer: JIT funding, buffer, reclaim script | promise chain | top up, wrap, sweep back | Vault, deposit wallet |
| Nonce managers (both services) | next nonce, lock (relay only) | seed, number, reset, give back, retry | node |
| Signing layer: market registry | registry rows | sync, register one, choose a token | Gamma |
| Proof relay: Merkle cache, event index | leaves, rows, cursors, `ready`, `consistent` | sync, load, serve a path, serve events, resync | RPC, frontend, signing layer |
| Proof relay: catalog | market rows, durable names | sync, search, resolve a name | Gamma, frontend |
| Frontend: note store | notes and receipts in memory and IndexedDB, index counter | deposit, bet, merge, withdraw, claim, reconcile, wipe, Restore | relay, signing layer, chain |
| Frontend: pages, prover | quote, markers, poll results, proof chain, asset caches | quote, bet, poll, credit a partial fill, sell, credit a sale, prove | relay, signing layer |

What is hard in it:

* **Interleaving and atomicity.** The services are single-threaded, and every `await` on
  I/O lets another request in.  State read before an await is used after it in the
  listener, in `/cancel-bet`, in redemption, in funding and in both nonce managers.
* **Unreliable parties.** The CLOB may accept an order and lose its answer, delay a match
  or forget a finished order; an RPC answers short; a wallet batch is mined after it
  timed out; the chain reorganizes.
* **Restarts and reloads.** Some state is durable, some is not, in both services and in
  the browser.
* **Several copies of one truth.** Chain, relay index, Merkle cache, browser cache in
  several tabs, catalog and registry.
* **Sequences of legal calls.** A bet can be partly filled, partly sold, settled,
  cancelled or voided, in many orders, each path paying from the pool.
* **Limits and time.** A ring of 1024 roots; a deployment cap; windows of 120 s and 300 s.

## Modules

| Module | Models | Run |
|---|---|---|
| `Vault`, `MCVault` | the contract and the circuits' statements; TLC's constants | `vault_bets`, `vault_gov` |
| `CommitmentMerkleTree` | the tree and its root window | `tree` |
| `Outcomes` | abstract: at most one outcome per bet, never for more than was bought | implemented by `Orders` |
| `Orders` | a BUY order from the event to the attestation | `orders`, `orders_faults` |
| `PositionClose` | SELL orders and the SOLD attestation | `close` |
| `Settlement` | the resolver's poll, redemption, off-ramp, acknowledgement | `settlement` |
| `Funding` | JIT funding, buffer, wallet executor, reclaim script | `funding` |
| `Nonces` | both nonce managers and the relay endpoints before them | `nonces` |
| `EventFeed` | Merkle cache, event index, the listener's cursor and sweep | `feed` |
| `Wallet` | the note cache, its flows and recovery against the chain | `wallet` |
| `Markets` | catalog and registry rows of one market | composed by `Trade` |
| `Prover` | proof generation in one tab | composed by `Trade` |
| `Trade`, `MCTrade` | one bet from the quote to the credit of its sale, across browser, relay and signing layer | `trade` |
| `VaultProofs`, `OrdersProofs`, `SettlementProofs`, `PositionCloseProofs`, `TradeProofs`, `WalletProofs` | theorems about the module each is named after | |
| `ChainProofs` | theorems about `CommitmentMerkleTree` and `EventFeed`, the tree and what follows it | |
| `OperatorProofs` | theorems about `Funding` and `Nonces`, the operator's accounts | |

In all service modules an action is what runs between two awaits that wait for I/O.  In
the modules with a constant `Faults` (`Failures` in `Nonces`) it names what the
environment may do beyond answering in time and truthfully; the header of each module
describes the names.  `MaxFaults`, `MaxRestarts` and the like bound them.

### Vault

A note is the record `<secret, balance, nonce, owner>`.  Hashes are ideal, so the
commitment is the note and the nullifier is `<secret, nonce>`; verifiers are sound and
complete, so a circuit's constraints are conjuncts of the action that verifies its
proof.  Each external function is one action; the clock, the CTF's report and incoming
USDC are the environment.  The operator is unconstrained: an action that takes an
attestation may be given *any* attestation, so the results hold whatever is signed.
`ledger`, `supply`, `feesPaid` and `flatFees` are history variables that no guard reads.
`NotesBacked` and `FeesClaimable` are about totals: sums over all nullifiers of what can be
spent and of what was earned.

`VaultBets` has one secret, three bets at most (nonce bound 4), a fee as large as the
stake so that every way of splitting it shows, attested amounts 0 to 2 and both a paying
and a void market.  `VaultGov` has two secrets with repeated deposits and merges, and
turns on governance, transfers and pausing.  Its stake is one unit and its fee as large, so
that a bet with a protocol fee still has a successor that can be credited: fees are charged,
refunded, earned and withdrawn within its nonce bound.  Two of everything is where double spending
and crossing lineages appear; a third bet adds a partial fill, a sale and a settlement in
one lineage.  The secrets of `VaultGov` are interchangeable, and TLC uses that symmetry.

### CommitmentMerkleTree

A node is the pair of its children.  `insert` computes the path from the frontier
(`filledSubtrees`) and rolls the ring; `leaves` and `roots` are history.
`FrontierFaithful` compares the frontier's root with a reference definition, `Node`, of the
complete tree over the leaves, and says that no two inserts produce one root.  The run fills a tree of depth 3 through a window of 3 roots, so the ring wraps
twice and every boundary of a subtree is crossed.

### Orders and Outcomes

Durable state (`attestations`, `submissions`, `rows`), memory (`inFlight`, `tracked`,
`finalized`), the listener's scan and the `/cancel-bet` requests in progress are separate
variables, so a restart clears exactly what a restart clears.  Signing with the local
wallet waits for no I/O and is part of the step of its caller.  A fill is split into the
part taken and the part made, because the trade history is searched for maker fills only.
The listener may look at any bet at any time; how it comes to look is `EventFeed`.

`Outcomes` is what the bettor and the Vault rely on: shares are bought for a bet, at most
one outcome is signed, it is final, and it never stands for more shares than were bought.
`Orders` implements it (`ImplementsOutcomes`, with `outcome <- attestations`), checked
under faults and a restart and proved for every fault but one.

Bounds: two or three shares, so that zero, partial and full fills differ, with a dust of
one in `orders`; one FAK and one limit bet; two requests in `orders`, one in
`orders_faults`; as many orders as one duplicate needs; one restart.

### PositionClose

The life of a position's SELLs: requests that check, wait for the order limiter, post and
attest; the tracker's SELL side, with messages matched by token (`findTracked`) and orders
the CLOB has purged, of which the trade history shows maker fills only (`Traded`); and the
operator's script `attestSold.ts`, which signs what it is told.  `finalized` is per bet, as
in the code.  `sold` and `hearsay` are history: the shares that left the position of each
bet, and the bets whose SOLD row rests on the operator's word or whose tracked order was
ended by another order's message, of which nothing can be said.

### Settlement

Two tasks (poll ticks or manual resolutions, which nothing serializes) go through the
poll's reads, `resolveMarket` or `registerCondition`, redemption, off-ramp and
acknowledgement.  Everything else that moves the balances that redemption measures moves
them at any time (`Others`): users, funding, filled BUYs, the proceeds of SELLs, late
batches, and the reclaim script, which sweeps and acknowledges on its own.  A market in
`Small` has a condition id below the field's modulus, which is its own reduced key; a
market in `Seeded` comes from `SEED_REDUCED_KEYS`, the others from a bet.  `swallowed` is
history: markets whose turn met an error that the code only logs.  `overlapped` says that
two redemptions measured at once, `paidIn` and `received` what others paid in meanwhile.

The run has one seeded market that pays or is void, two tasks and one failing call, which
may be any of them, and in each behaviour one restart or one move of others.  A
second task, one move between two reads and one failure after a measure are what each of
the hazards needs.  `BufferStays` and
`AcknowledgedCameBack` are proved for any number of each.

### Funding and Nonces

`Funding` follows the three awaited calls of a top-up for two bets and the buffer
manager, one batch at a time, with the reclaim script beside them; redemptions and SELLs
are in it with what they do to the same balances and to `deployedToPolymarket`.  The
acknowledgement of a return takes the profit off `deployed` together with the stake, so
`gains`, what the bets have won, is part of the bound on what is outside.  A transaction
may be held up for ever, and `tx.wait(1)` has no timeout (`Hung`).  The run allows one
fault in a behaviour; `CapHolds` and `FundedOnce` are proved for any number.

`Nonces` numbers transactions relative to the account's next one, so that mining keeps the
state finite.  A nonce that is taken by a pending transaction is answered with a text that
no entry of `NONCE_ERROR_PATTERNS` matches (`takenRefused`), and "already known" may come
after the broadcast was accepted, since the provider repeats a request after a 429
(`broadcast`).

### EventFeed

A block has at most one Vault transaction; a root is the sequence of the leaves below it
(`CommitmentMerkleTree` shows that different sequences have different roots).  The cache
and the path of the bets share nothing but the chain, so a behaviour follows one of them
(`part`).  Four blocks with a scan window of two and a confirmation depth of one allow a
window boundary, a reorganisation deeper than the confirmations, and a lagging index.
`unindexed` is history: the bets that a faulty or too deep read left out of the index for
good, which `CursorCovers` must except.

### Wallet

A lineage is a deposit index.  A flow chooses its notes, relays, and updates the cache on
confirmation; other tabs, the operator, a reload, a wipe or a Restore come in between.
Restore replays the Vault's events with the code's two passes over merges.  Two indices,
two tabs (`MaxWidth` bounds tabs with deposits and with mishaps, so that the two-tab and
the two-lineage cases are explored without their product), one bet and one withdrawal.

The relay's count of deposits may be exact, missing (`down`) or as old as its index
(`lag`).  `reconcileSpentStatus` is one step: the list it saves after its awaits is the
cached array itself, into which the other flows of the tab write in place.  Only a Restore
or a wipe between its awaits replaces that array and would be undone by the late save;
this is not modelled.

### Trade, Markets, Prover

`Trade` composes the catalog row the page shows, the registry row the operator trades by,
the proof chain with its caches, the limit intent, the operator's sizing of the order, and
the portfolio page's polls, credits, sale and markers.  Prices are in ticks; the stake
walks two levels of the book.  The run's market is listed by Gamma with NO first, its fee is above
the fallback reserve and may not be read, and the deposit wallet's balance may be below the
stake, on chain or as the CLOB sees it.  A close dialog that meets an error stays open
until the user closes it, and the page does not finalize that close meanwhile; a sale
without a note to be credited into is not tried again until the page is reloaded or a note
is there.

## Runs

Deadlock is not checked in any of them: at its bounds a system may stop.

| Run | Shows | Distinct states |
|---|---|---|
| `vault_bets` | one current note per secret, open bets stay reachable, no bet paid twice, no fee resolved twice, terminal records final | 114,854 |
| `vault_gov` | nobody can spend more than they are entitled to; the fee accumulator is exactly claimable | 602,272 |
| `tree` | frontier = root of the leaves; known roots = the last `ROOT_WINDOW` | 511 |
| `orders` | outcomes are true in one process lifetime with truthful answers | 102,373 |
| `orders_faults` | no outcome overstates the shares bought; every bet whose owner keeps asking is decided; `Orders` implements `Outcomes` | 342,884 |
| `settlement` | unless two redemptions overlap, the off-ramp takes what redemptions minted and others paid in, and what is acknowledged was off-ramped or paid in; a finalized market that CTF can be asked about is settled, or its turn met an error that is only logged | 976,112 |
| `feed` | a ready cache is a prefix of the chain's tree; a diverged one stops; served paths verify; the cursor skips no bet; every bet the index has is handed on | 276,561 |
| `nonces` | one transaction per call, but for an accepted one answered "already known"; different numbers under the lock until a call fails; calls end | 35,724 |
| `funding` | what is outside is within `deployed` and the bets' gains, `deployed` within the cap; a shortfall is filled by one task only; requests are answered and the buffer is refilled, unless a wait for a receipt hangs | 429,064 |
| `close` | SOLD never overstates, but on hearsay; a tracked SELL with a maker fill is reported | 570,700 |
| `wallet` | the cache offers what the chain holds; a bet that can pay keeps its lineage; Restore leaves nothing out; claims land | 140,247 |
| `trade` | the order is the one shown to the user; an attested sale is credited | 328,074 |

The `TypeOK` of every module holds on the same instances.

### Fairness

* `orders_faults`: the process runs its tasks and timers and time passes; the CLOB does
  not leave a FAK delayed for ever; a bettor whose bet is undecided asks again and finds
  the CLOB client available if it keeps asking (strong).  Nothing forces the exchange to
  fill or expire a resting order.
* `settlement`: tasks run and backoffs end.  That the wait for a
  receipt ends is an assumption here (`tx.wait` has no timeout; `Funding` does without it).
  The registry need not sync, since the sync reads active markets only.  `feed`: blocks come, the
  timers of the index, the catch-up and the sweep fire; the sweep, which a guard skips
  while another scan runs, is strongly fair.
* `nonces`: the node mines; the lock and new requests are strongly fair, because Node's
  promise queue serves waiters in order.  `funding`: awaited calls return or throw, but
  for a receipt that is waited for, which may never come; ticks run, a batch that is under
  way ends, the script and the redemption go on until they die.  `close`: requests and the
  tracker's reconcile timer run; nothing is assumed of the channel, nor of `getOrder`, only
  that the reconcile of an order that is over and has a maker fill in the trade history is
  carried out in the end.
* `wallet`: the user presses Restore and claims again and again (strong: another tab may
  take the turn); confirmations come back or the tab gives up.  `trade`: the page polls,
  timers fire and proofs settle; a worker can be built again and again, and its proof is
  relayed at some time.  Of the user it assumes that a dialog that shows an error is closed
  in the end (the page does not finalize a close whose dialog is open), that a locked master
  seed is unlocked and that a missing note is restored; of the page, that a poll ends within
  its 15 s period.

## Statements of the code that do not hold

These are statements of a comment, or of a name, that the code does not keep.  They are
kept as formulas in the modules.  TLC refutes each on the instance named with it, and
the runs use the instance without the cause.

| Statement | Cause and effect |
|---|---|
| `settlementResolver.ts:149-151`, each tracked market is checked (`EachIsChecked`, `Small = {m1}`) | an id below the modulus equals its reduced key, and the poll backs the market off for ever (`:228-229`); about one id in five is that small |
| `relayer.ts:68-69, 147-148`, no lasting gap (`NoLastingGap`, `Failures = {"estimate"}`) | `decrement` gives back the last number, which may be another request's; that number is then refused as taken with a text no pattern matches, given back again, and the gap below it stays |
| `jitFunding.ts:32-33`, no under-funding (`FundedIsCovered`, two bets, no fault) | a bet that was told it is funded has not spent yet when the next one reads the balance (`:88`) |
| `orderBuilder.ts:873-875`, no double sale (`NoOversell`, two requests, `{"delayed"}`) | the check looks for a SOLD row, which a sale under way does not have |
| `wsFillTracker.ts:76-80`, a resting close is not dropped (`LimitCloseReported`, `BoughtOnLimit = {b1}`) | `trackOrder` returns at once for a bet that has ended in this process (`:268`) |
| the promise of `getSafeNextDepositIndex` (`IndexFresh`, fault `lag`) | the relay counts what its index has, which lags by `CONFIRMATIONS`; after a lost confirmation the next deposit takes the same index |
| `wsFillTracker.ts:543`, messages belong to tracked orders (`SharesBacked`, fault `sharedToken`) | two bets on one token: the message of a FAK, never tracked, is matched by token to the other's resting order, attested FILLED with nothing bought |
| `eventListener.ts:193-206`, one decision per bet (`OutcomeTruthful`, `earlyCancel`) | `/cancel-bet` is served while `handleBetRecord` awaits; FAILED is attested and the order placed |
| `wsFillTracker.ts:353-387` (`OutcomeTruthful`, `cancelError`) | cancelOrder fails, the order is live, and no trades are taken for a final zero fill |
| `wsFillTracker.ts:415` (`OutcomeTruthful`, `resolution`) | a partly filled resting order is finalized with a zero fill when its market resolves |
| `eventListener.ts:195` (`SubmittedOnce`, `MaxRestarts = 1`) | the durable marker is not consulted when a bet is taken up again |
| `eventListener.ts`, the deep sweep recovers a skipped bet (`SweepRecovers`) | a row the relay's index missed is in no sweep |
| `settleCloseAndWithdraw.ts:116`, only lost lineages are drained (`NoStranding`, `Sides = {"NO"}`) | a recovered receipt has no side and is priced as YES |
| `CreditCannotLand.tsx`, Restore brings the note back (`RestoreFindsCreditNote`, `Stakes = {3}`) | Restore drops notes with balance 0 |
| `marketRegistry.ts:199`, shown markets are routable (`ShownIsRoutable`) | registration is fire and forget |
| a market bet is a market order (`MarketIsMarket`) | the intent of an abandoned limit bet with the same note stays (`limitOrderStore.ts:46-56`) |
| a sale is within the holding (`SoldWithinHolding`) | closing a fee-only partial fill before its credit sells the committed shares (`ClosePositionModal.tsx:113`) |

`IndexFresh` also fails with the faults `down` (the relay does not answer after a wipe, and
an old deposit index is used again) and `twoTabs` (two tabs deposit to one index),
`NoStranding` with `midFlow` (a wipe or Restore in the middle of another flow).  In `Orders`,
`OutcomeTruthful` also fails with `slowSubmit`, `storeError`, `transientMiss`, and
`{"crossing", "purged"}`; `NoOrderIdMeansUnplaced` with `lostResponse`.  In all of these
`SharesBacked` still holds: they cost the pool a refund, never a credit for shares it does
not have.

Observed while modelling and not stated as a formula: two redemptions that overlap count
the same balance difference twice; a redemption that failed is not tried again, since no
poll returns to a market that is resolved on chain (`redemptionPipeline.ts:246-247` says
it "is retried"); the sweep at start-up is skipped by the catch-up that
just began; a cache that called itself inconsistent stays so until its database is
deleted (`resyncMerkle.ts`); a failed first run leaves the index not ready until a
restart; "Cancel sell" never cancels (`/cancel-bet` answers already-finalized,
`portfolio/page.tsx:220-231`); the age of a pending bet is computed from milliseconds as
seconds (`portfolio/page.tsx:830`), so the offer to cancel it does not appear; a rejected
download stays cached on the main thread (`prover.ts:281-286`); a SOLD attestation stays
after a partial credit and `finalizeClose.ts:73` uses its cumulative amount; a poll longer
than 15 s is starved by the next one; an order price off the market's tick is rounded up
by the CLOB (`orderBuilder.ts:228-237`); a 50/50 market rounds every payout to zero
(`Vault.sol:637`); `Vault.sol:835-837` calls post-partial normalization "the ONLY way a
record reaches the on-chain FILLED status", and a partial `closePosition` sets it too.

## Proofs

Each theorem holds for every value of the constants that satisfies the named assumptions,
the numbers that bound the state for TLC included, and for every set of `Faults`, unless
its statement says otherwise.  Each comes from an invariant that is shown to hold at first
and to be kept by every action, in one lemma per action.

* **VaultProofs.** `Inv` adds to the types that the spent nonces of a secret are downward
  closed (`SpentClosed`), that a leaf's predecessor is spent (`LeafAfterSpent`), that a
  bet's nullifier is spent (`BetIsSpent`), and, per bet, how `ledger` and the provisional
  fee follow the record in each status (`RecordsInv`, `FeesInv`).  `OneCurrentNote` alone
  is not inductive: a spent note's successor must be known to be newer than every other
  leaf of its secret.  `BetPaidOnce` needs the status-by-status relation because a bet
  passes through several payers.  The action properties `TerminalIsFinal` and
  `PauseFreezes` use the same invariant.
  The two theorems about totals start from what a sum over a finite set is: it can be read
  off its partial sums (`SumIs`), changes by what one summand changes (`SumChange`) and is
  monotone (`SumMonotone`); these are proved by well-founded induction on the subsets
  (`SubsetInduct`).  `FeesStayClaimable` adds that a bet not made has earned nothing
  (`FreshInv`).  `NotesStayBacked` cannot follow the sum of what is spendable directly,
  since a deposit with a secret used before may strand a note, or replace the note that
  counts.  `BackedInv` says instead that each owner has *some* bound per nullifier that
  covers the live notes and adds up to at most the supply: spending lowers it at one
  nullifier (`Drain`), a new note raises it (`Fill`), and a merge lowers it up to four
  times and raises it once.  Both assume that there are finitely many secrets.
* **ChainProofs**, of `CommitmentMerkleTree`. `WindowInv` says that the root with sequence number `s` of the
  window is in slot `s % ROOT_WINDOW`; with the arithmetic of remainders the evicted root
  is the oldest.  `FrontierInv` says that at each level where the next leaf is under a right
  child the left node kept is that of the complete tree over the leaves inserted, and that
  each root is the root of its prefix of the leaves.  A node depends only on the leaves under it, so an insert changes the nodes
  on one path.  Two roots differ because the later tree has a leaf where the earlier has a
  zero and the hash is ideal.  The inductions over heights are inductions over sets of
  naturals.  `RecentRootsAreKnown` needs no assumption that roots differ; with `StaleRootsAreForgotten`,
  which does, it gives `KnownRootsAreTheRecent`, the property of the run.
* **ChainProofs**, of `EventFeed`. `CursorSafe` assumes that no reorganisation is deeper than
  `SafetyBuffer`: the code rewinds each scan by `SAFETY_BUFFER` = 100 blocks
  (`eventListener.ts:254`), and a deeper reorganisation can put a bet where no scan looks
  again.  The index lags the head by its confirmations (`IndexLags`) and has every bet at
  or below its last block but those in `unindexed` (`IndexCovers`); what a scan has passed,
  or holds in its window, more than `SafetyBuffer` below its head is known or about to be
  handled (`PassedKnown`, `WindowKnown`).
  `CacheSound` and `PathsAreSound` assume nothing about reorganisations; both except what
  is served while `deep`.  `TreeInv` says that the saved leaves are those after a block with
  `Confirmations` on top (`SavedSettled`) and that a consistent cache has what is saved
  (`CacheIsSaved`).  Within a window the saved leaves are as before or those after one of
  its blocks, because a leaf is saved only when the root with it is the one the contract
  had (`AppendLeafKeeps`).  The leaves after a block depend on the blocks up to it
  (`LeavesShared`) and start those after a later one (`LeavesGrow`); a path computed from
  the logs of some blocks, without a hole, is of the leaves after the last of them
  (`ComputedServes`).
* **OrdersProofs.** `Inv` adds to the types that every order referred to by a row, a
  marker, a request or the listener is one the CLOB accepted and, where it is used to
  attest a bet, is an order of that bet (`OrdersKnown`); that what the CLOB reports as
  filled was bought (`FillsBought`); and the same of the answer the listener holds
  (`ResponseBought`).  `AttestedSharesAreBacked` and `OrdersImplementOutcomes` assume that
  no two bets share a token, without which they are false.  The latter shows, action by
  action, that each step of `Orders` is a step of `Outcomes` or a stutter: every caller of
  `signAndStoreAttestation` passes a row that is backed, and the store writes it only over
  an empty one.
  Three more theorems hold until the process restarts, which is when the code breaks them
  (see above).  `OneOrderPerBet` uses `OnceInv`: a bet that is not in flight has no
  order, and one that is being submitted has none before the POST.
  `MarkerWithoutIdIsUnplaced` adds `MarkedInv`: a FAK is marked before it is posted, the
  mark does not age meanwhile, and an order whose id is not stored is in the listener's
  hands; it excludes the three faults that lose or delay the answer.  `OutcomesTrue` adds `TruthInv`: an order's fill is all
  that was bought for its bet (`BoughtInv`), nothing else deals with a bet while the
  listener has it (`AloneInv`), and what the listener and the requests hold is the truth
  about it (`HeldInv`).  It allows late matches and one of crossing limit orders
  and purged orders; each fault it excludes has a counterexample above.
* **PositionCloseProofs.** What refers to an order refers to an accepted SELL of its bet
  (`OrdersKnown`), and reported fills and answers were sold (`FillsSold`, `AnswersSold`);
  `AttestationsTruthful` follows for every fault, within the tolerance of the path that
  signed, and excepts the bets in `hearsay`: what the operator's script is told and what
  another order's message says is checked by nothing in the code.
* **SettlementProofs.** `SettleInv` records what each task has learnt of the market it
  works on: a market a tick puts aside was seen settleable, or its turn met an error.
  `SkippedMarketsSettled` says no more than that: it does not cover a market whose turn met
  an error that the code only logs.
  `MoneyInv` gives each redemption in progress what it measured, and what others paid in
  since.  As long as one redemption measures at a time, `BufferStays` says that the off-ramp
  takes no more than was minted and paid in by top-ups, late batches and SELLs, and
  `AcknowledgedCameBack` that the pipeline acknowledges no more than it off-ramped and
  users deposited or the reclaim script swept.  Neither says anything of redemptions that
  overlap, which the code permits.
* **OperatorProofs**, of `Funding`. `CapInv`: what is in the wallet, paid for positions or sent back but not
  acknowledged is within `deployed` and the bets' gains, and `deployed` within the cap.  It
  cannot be `deployed` alone: an acknowledgement takes the profit off `deployed` as well.  `TurnInv`: only the first
  task of the chain is between its calls, and with what it asked for the wallet stays
  within the level that the task tops up to, but for what late batches, redemptions and
  SELLs have brought (`extra`).
* **OperatorProofs**, of `Nonces`. `SentInv`: a call that is not over has sent nothing, unless an accepted transaction of
  it was answered "already known".  `LockInv`: until
  a call fails, the worker that seeds the manager is the one inside the lock, and whatever
  is sent or accepted lies below the next number, each number once.  That the node's
  answer, the least free number, is above all of these uses the least element of a set of
  naturals.
* **TradeProofs.** `OrderIsAsQuoted` holds for every fee; that cost and fee together stay
  within the stake is claimed only where the fee was read or is at most the reserve
  (`FeeReserved`): the code's fallback reserve of 1 % does not cover the fees that
  `pricing.ts:142` names.  It assumes that the CLOB is not the local mock, which
  trades whatever id came with the bet.  `RowsAgree`: the catalog's row, the page's and
  the registry's are one, since both services' rules make the same row of a market
  (`OneRow`, from the assumption that two canonical pairs do not have the same outcomes).
  `DraftInv` and `BetInv`: the bet shows that row's token, and a limit bet is relayed with
  its intent stored.  `OrderInv`: without an order nothing is filled, claimed or sold.
  That the order is within the proof's shares and, with the fee, within the stake
  (`OrderWithin`) is arithmetic of quotients: the fee the SDK takes out of the budget
  (`FeeFits`), the lots that are afforded (`LotsWithin`) and the price's rounding.
* **WalletProofs.** `CacheInv`: a cash note in any tab's cache or in the stored copy is
  spent or is the last of its lineage with its balance (`Open`), and a receipt is of a
  bet that exists.  No transaction takes that away (`Later`), so a snapshot that
  overwrites the cache may be arbitrarily old.  `OpInv` says the same of the note that a
  flow on its way will leave, with or without a confirmation.
  What Restore recovers is the harder half.  `HistInv` says that there is a *history* `H`
  that gives every lineage's state after each event of the log: it starts with the
  deposit, steps as the replay does, except that a merge adds up what its inputs held
  (`Steps`, `After`), agrees with the chain after the last event (`NowInv`) and was never
  ahead of it (`PastInv`).  Each transaction of the Vault extends it by one step
  (`Transacted`): the balance, the receipts and the unsold shares that the replay computes
  for its event are the record's (`BetMoved`, `EndMoved`, `PartialMoved`, `CloseMoved`,
  `WithdrawMoved`, `MergeMoved`).  Then the two passes of `recoverNotes` over the first
  `K` events are shown to compute `H[K]`: the first learns the balance of every input of a
  merge (`Collected`, `FirstPass`), the second, knowing them all, follows the history
  (`Replayed`, `FinalPass`).  The replay is a recursive function of the number of events
  and the pass one of the number of lineages, so both inductions are inductions over a
  set of naturals (`Induct`).  Hence `Recovered`: what is recovered is what the history
  holds, which is `Open` at any `K` (`RestoredKept`, with an index that lags behind) and
  everything there is at the last (`RestoredAll`).
  `NotesAreOpen` and `RestoreIsComplete` hold under every fault and assume
  what the code accepts: no lineage
  takes part in two merges (`MergedOnce`; the comment at `notes.ts:895` documents that
  a merged note merged again is under-counted), and bets are on YES, since a recovered
  receipt has no side and is priced as YES (see above).
  `IndicesAreFresh` needs neither: `FreshInv` says that the lineages with a note are those
  of the first indices, one for each deposit (`ChainFresh`), that no counter is ahead of
  the deposits (`CounterFresh`), and that a deposit under way is the only one and takes
  the first index without a note (`OpsFresh`).  It holds while the relay tells the number
  of mined deposits and one tab deposits at a time, which is what the faults `down`, `lag`
  and `twoTabs` take away; `lag` is the relay's normal state shortly after a deposit; with it
  the property is refuted (see above).
  `NothingIsStranded` is about what the tabs *show*.  `StrandInv` says that a cache that
  shows a cash note shows an open receipt of every bet that was made with an earlier note
  of the lineage and can still pay (`Told`, `Aware`), and that a flow under way knows what
  its first page knew (`Safe`): a withdrawal that takes all, every later input of a merge
  and every input of a Clear is a note that no bet is owed to (`Guarded`), and what was
  sent has ended its bet or left the lineage behind (`Ended`, `Past`).  A cache may be
  arbitrarily stale: a bet that is made elsewhere takes a later note, so it is not behind
  the note shown, and a bet that can pay could do so before (`Fewer`, `Fixed`).  The
  selection is reasoned about as it is written: any order from the largest note down
  (`LargestFirstIs`), the shortest run that covers the amount (`CoveringIs`), the lineage
  with an open bet in slot 0 (`SlotZeroIs`), and at most one such lineage (`PickedIs`).
  A cache that is emptied or replaced in the middle of a flow loses a receipt the flow
  counted on, hence the fault `midFlow` is excluded.

`PauseFreezes`, `OneOrderPerBet`, `MarkerWithoutIdIsUnplaced`, `SkippedMarketsSettled` and
`IndicesAreFresh` are proved and are not properties of a run.

Only model-checked, and why:

* Liveness under fairness (`EveryBetDecided`, `FinalizedSettles`, `FundingRecovers` and the
  like): ENABLED is beyond the prover.
* What is refuted under a fault, restart or overlap: the theorems exclude exactly that.

## Not modelled

* The verifiers and the field arithmetic inside the circuits; the verifier timelock and
  UUPS upgrades (which can replace everything); rotation of the operator key.
* Consent and analytics; credentials, configuration, heartbeat; the executors for a local
  chain and the start-up approvals; the websocket's connection upkeep; `submitFOKOrder`,
  which nothing calls; `reportCloseSells.ts` and the other scripts that only read; request
  validation and rate limits.
* In the frontend: layout, profit history, `buildActionNeeded`, the detector
  of a reset development chain, the developer console, the connector's own storage,
  `lib/polymarket.ts`, and the `/api/*` routes the pages call, whose code is not in the
  repository.  The derivation of note secrets is ideal: a refused signature is a flow that
  does not go on.

## Plan

1. `Vault`, `CommitmentMerkleTree`, `Orders`, `Outcomes` and their proofs: done.
2. `Settlement`, `PositionClose`, `Funding`, `Nonces`, `EventFeed`, `Wallet`, `Markets`,
   `Prover`, `Trade`: done.
3. Theorems for `Settlement`, `PositionClose`, `Funding`, `Nonces`, the cursor and the
   Merkle cache of `EventFeed`, the totals of `Vault`, the frontier of the tree and the restart-free
   properties of `Orders`: done.
4. `OrderMatchesQuote` of `Trade`; `NotesOpen`, `RestoreComplete` and `NoStranding` of
   `Wallet`: done.
5. Left: the type correctness of `EventFeed` and `Trade`; an abstract
   specification of the note ledger that `Wallet` and `Vault` share, so that the external
   Vault of `Wallet` is the one of `Vault`.
