-------------------------------- MODULE Trade --------------------------------
(***************************************************************************)
(* One bet from the quote to the sale: the market page and the bet dialog,  *)
(* the proof (Prover), the limit-order intent, the signing layer's choice of *)
(* the token (Markets) and of price and size, and the portfolio page that     *)
(* polls for the outcome, credits a partial fill, sells the position and      *)
(* credits the sale.                                                        *)
(*                                                                         *)
(* Prices are in the finest ticks, Dollar of them in a dollar; money is in    *)
(* the price of a share at one tick; shares come in ShareUnits.  The life of  *)
(* the order is Orders, that of the SELL PositionClose, that of the notes     *)
(* Wallet: here the order and the SELL end as the CLOB has it, and a credit   *)
(* takes the lineage's note, which another credit may have spent meanwhile.    *)
(***************************************************************************)
EXTENDS Integers, FiniteSets, FiniteSetsExt, SequencesExt, Markets, Prover

CONSTANTS
    Dollar,
    Ticks,          \* what the market's tick is taken for: itself, the finest while not known
    Books,          \* the order books a quote may see
    Stakes,
    LimitPrices,    \* the limits a user types
    Slippage,       \* MARKET_SLIPPAGE_BPS, in percent
    ShareUnits,
    Lot,            \* the CLOB's unit of size; DUST
    MinBet,         \* effectiveMinBetMicro
    MIN_SHARES,
    FeeRates,       \* the taker fees a market may have, in percent
    clobBuyFeeBps,  \* reserved when the market's fee is not known, in percent
    Balances,       \* what the deposit wallet may hold, as the chain or the CLOB has it
    MaxTries,       \* bounds the bets that are begun and the reloads
    MaxProofs       \* bounds the proofs asked for at once

Levels == [price : 0..Dollar, size : Nat]

ASSUME TradeAssumption ==
    /\ Dollar \in Nat /\ Ticks \subseteq 1..(Dollar - 1)
    /\ Lot \in Nat \ {0} /\ ShareUnits \in Nat \ {0}
    /\ FeeRates \subseteq Nat /\ clobBuyFeeBps \in 0..99
    /\ MIN_SHARES \in Nat \ {0} /\ Slippage \in Nat
    /\ Stakes \cup Balances \cup LimitPrices \subseteq Nat
    /\ Books \subseteq [asks : Seq(Levels), bids : Seq(Levels), mid : 0..Dollar]

VARIABLES
    feeRate,    \* external: the market's taker fee
    page,       \* the market page's row, or NoRow
    draft,      \* the bet dialog's bet until it is relayed
    intent,     \* durable: the order type in limit_orders, or "none"
    bet,        \* external: the record in the Vault, with what the user asked for
    order,      \* external: the order on the CLOB
    outcome,    \* durable: the bet's attestation
    sell,       \* external: the SELL order on the CLOB
    soldAtt,    \* durable: the shares of the SOLD attestation, 0 without one
    note,       \* external: the nonce of the lineage's note
    marker,     \* localStorage: the kind of the close in flight, or "none"
    view,       \* the portfolio page's last poll
    modal,      \* the close dialog: "none", "selling", "resting" (or done) or "error"
    noNote,     \* closeFinalizeIssue: there was no note to credit into
    cooling,    \* closeFinalizeCooldown
    retired,    \* the receipt is marked spent
    tries

tradeVars == <<feeRate, page, draft, intent, bet, order, outcome, sell, soldAtt,
               note, marker, view, modal, noNote, cooling, retired, tries>>
vars == <<marketVars, proverVars, tradeVars>>

NoDraft == [at |-> "none"]
NoBet == [status |-> "none", sold |-> 0]
NoOrder == [size |-> 0]
Pending == [type |-> "none", filled |-> 0, spent |-> 0]
NoView == [status |-> "none", type |-> "none", feeOnly |-> FALSE, sold |-> FALSE]
Job(c, by) == [circuit |-> c, note |-> note, by |-> by]

TypeOK ==
    /\ MarketsTypeOK /\ ProverTypeOK
    /\ page = NoRow \/ Range(page) \subseteq Range(outcomes)
    /\ draft.at \in {"none", "prove", "intent", "relay"} /\ intent \in {"none", "GTC"}
    /\ bet.status \in {"none", "ACTIVE", "FILLED", "CLOSED_CREDITED"}
    /\ outcome.type \in {"none", "FILLED", "PARTIAL", "FAILED"}
    /\ order.size \in Nat /\ sell.size \in Nat /\ soldAtt \in Nat /\ note \in Nat
    /\ marker \in {"none", "MARKET", "LIMIT"}
    /\ modal \in {"none", "selling", "resting", "error"}
    /\ {noNote, cooling, retired} \subseteq BOOLEAN
    /\ tries \in 0..MaxTries

Init ==
    /\ MarketsInit /\ ProverInit
    /\ feeRate \in FeeRates
    /\ page = NoRow /\ draft = NoDraft /\ intent = "none"
    /\ bet = NoBet /\ order = NoOrder /\ outcome = Pending
    /\ sell = NoOrder /\ soldAtt = 0 /\ note = 0
    /\ marker = "none" /\ view = NoView /\ modal = "none" /\ noNote = FALSE
    /\ cooling = FALSE /\ retired = FALSE /\ tries = 0

-----------------------------------------------------------------------------
(* The quote.                                                              *)

Ceil(a, b) == (a + b - 1) \div b
\* num/den rounded up to the tick
ceilToTick(num, den, t) == Ceil(num, den * t) * t
roundToTick(p, t) == ((2 * p + t) \div (2 * t)) * t
Clamped(p, t) == Min({Dollar - t, Max({t, p})})
marketBuyCeiling(ask, t) == Clamped(ceilToTick(ask * (100 + Slippage), 100, t), t)

\* The asks of the side: those of NO are the bids of YES.
sideLevels(book, side) ==
    IF side = "YES" THEN book.asks
    ELSE [k \in DOMAIN book.bids |-> [book.bids[k] EXCEPT !.price = Dollar - @]]
bestAsk(book, side) ==
    LET mid == IF side = "YES" THEN book.mid ELSE Dollar - book.mid
        levels == sideLevels(book, side)
    IN  IF levels = <<>> THEN mid ELSE Min({levels[k].price : k \in DOMAIN levels})

\* The worst price the stake touches on its way up the book, and the slippage.
marketBuyCeilingFromBook(levels, stake, t, ask) ==
    LET prices == {levels[k].price : k \in DOMAIN levels}
        cost(p) == MapThenSumSet(LAMBDA k : levels[k].price * levels[k].size,
                                 {k \in DOMAIN levels : levels[k].price <= p})
        covers == {p \in prices : cost(p) >= stake}
        clearing == IF covers = {} THEN Max(prices) ELSE Min(covers)
    IN  marketBuyCeiling(IF levels = <<>> THEN ask ELSE clearing, t)

effectivePrice(kind, side, stake, book, t, limit) ==
    IF kind = "LIMIT" THEN roundToTick(limit, t)
    ELSE marketBuyCeilingFromBook(sideLevels(book, side), stake, t, bestAsk(book, side))

\* The shares committed to in the proof.
computeOrderPreview(stake, price) == IF price > 0 THEN (stake * ShareUnits) \div price ELSE 0

-----------------------------------------------------------------------------
(* The market page and the bet dialog.                                     *)

\* The page loads the market, from the catalog or else from Gamma, and asks for its
\* registration, once and without waiting.
loadMarket ==
    /\ page = NoRow /\ bet = NoBet
    /\ \E row \in {catalog, toCatalogRow} : row # NoRow /\ ServeMarket(row) /\ page' = row
    /\ UNCHANGED <<outcomes, listed, registry, proverVars, feeRate, draft, intent, bet, order,
                   outcome, sell, soldAtt, note, marker, view, modal, noNote, cooling,
                   retired, tries>>

\* POST /register-market arrives, or is lost.
registerMarket ==
    /\ page # NoRow \/ bet # NoBet
    /\ syncOneMarket
    /\ UNCHANGED <<outcomes, listed, catalog, named, proverVars, feeRate, page, draft, intent,
                   bet, order, outcome, sell, soldAtt, note, marker, view, modal, noNote,
                   cooling, retired, tries>>

\* BetModal.submit up to the proof.  The tick is the market's, or the finest while it
\* is not known.
submit ==
    /\ page # NoRow /\ bet = NoBet /\ draft = NoDraft /\ tries < MaxTries
    /\ \E side \in Sides, kind \in {"MARKET", "LIMIT"}, stake \in Stakes, book \in Books,
          t \in Ticks, limit \in LimitPrices :
         LET price == effectivePrice(kind, side, stake, book, t, limit)
             shares == computeOrderPreview(stake, price)
         IN  /\ stake >= MinBet /\ shares >= MIN_SHARES
             /\ draft' = [at |-> "prove", side |-> side, kind |-> kind, stake |-> stake,
                          price |-> price, shares |-> shares, token |-> page[Slot(side)]]
    /\ Asked(Job("bet_auth", "user"))
    /\ tries' = tries + 1
    /\ UNCHANGED <<marketVars, feeRate, page, intent, bet, order, outcome, sell, soldAtt,
                   note, marker, view, modal, noNote, cooling, retired>>

betProved(ok) ==
    /\ \E job \in Range(proofs) : job.circuit = "bet_auth" /\ Settles(job, ok)
    /\ draft' = IF draft.at # "prove" THEN draft ELSE IF ~ok THEN NoDraft
                ELSE [draft EXCEPT !.at = IF draft.kind = "LIMIT" THEN "intent" ELSE "relay"]
    /\ UNCHANGED <<marketVars, feeRate, page, intent, bet, order, outcome, sell, soldAtt,
                   note, marker, view, modal, noNote, cooling, retired, tries>>

\* limitOrderStore.ts: one row for a note's nullifier; it is never deleted
recordLimitOrder == intent' = "GTC"
getLimitOrder == intent

\* The intent is stored before the bet is relayed; when that fails, so does the bet.
requestLimitOrder ==
    /\ draft.at = "intent"
    /\ \/ recordLimitOrder /\ draft' = [draft EXCEPT !.at = "relay"]
       \/ draft' = NoDraft /\ UNCHANGED intent
    /\ UNCHANGED <<marketVars, proverVars, feeRate, page, bet, order, outcome, sell,
                   soldAtt, note, marker, view, modal, noNote, cooling, retired, tries>>

\* Vault.authorizeBet records the bet, or the relay or the Vault refuses it.
relayBet ==
    /\ draft.at = "relay" /\ draft' = NoDraft
    /\ \/ /\ bet' = [side |-> draft.side, kind |-> draft.kind, stake |-> draft.stake,
                     price |-> draft.price, shares |-> draft.shares, token |-> draft.token,
                     asked |-> draft.shares, sold |-> 0, status |-> "ACTIVE"]
          /\ note' = note + 1 /\ page' = NoRow
       \/ UNCHANGED <<bet, note, page>>
    /\ UNCHANGED <<marketVars, proverVars, feeRate, intent, order, outcome, sell, soldAtt,
                   marker, view, modal, noNote, cooling, retired, tries>>

-----------------------------------------------------------------------------
(* The order.                                                              *)

\* external: the SDK's amount that leaves room for the fee
adjustBuyAmountForFees(budget) == (budget * 100) \div (100 + feeRate)

\* What a balance may be read as; a read that fails limits nothing.
BalanceReads == Balances \cup {bet.stake}
\* Price and size: the tick and the market's fee are read or guessed, and the budget is
\* the stake or what the wallet holds, on chain and, unless that is nothing, at the CLOB.
budgetedBuyOrder(t, onChain, atClob, feeRead) ==
    LET price == ceilToTick(bet.price, 1, t)
        held == Min({bet.stake, onChain})
        budget == IF atClob = 0 THEN held ELSE Min({held, atClob})
        feeBudget == IF feeRead THEN adjustBuyAmountForFees(budget)
                     ELSE (budget * (100 - clobBuyFeeBps)) \div 100
        affordable == ((feeBudget * ShareUnits) \div (price * Lot)) * Lot
    IN  [price |-> price, size |-> Min({bet.shares, affordable})]

Failed == [type |-> "FAILED", filled |-> 0, spent |-> 0]

\* A token the registry does not know fails the bet; an intent makes it a limit order.
processBetEvent ==
    LET token == decideBuyToken(bet.side, "position") IN
    /\ bet # NoBet /\ outcome = Pending /\ order = NoOrder
    /\ IF token = "reject" THEN outcome' = Failed /\ UNCHANGED order
       ELSE \E t \in Ticks, onChain, atClob \in BalanceReads, feeRead \in BOOLEAN :
              LET o == budgetedBuyOrder(t, onChain, atClob, feeRead) IN
              IF o.size = 0 THEN outcome' = Failed /\ UNCHANGED order
              ELSE /\ order' = [price |-> o.price, size |-> o.size, token |-> token,
                                feeRead |-> feeRead,
                                kind |-> IF getLimitOrder = "none" THEN "MARKET" ELSE "LIMIT"]
                   /\ UNCHANGED outcome
    /\ UNCHANGED <<marketVars, proverVars, feeRate, page, draft, intent, bet, sell,
                   soldAtt, note, marker, view, modal, noNote, cooling, retired, tries>>

\* The stake is spent on a full fill of the order, the fee included, else in proportion.
marketSpentWithFee(stake, filled, size) ==
    IF filled + Lot >= size THEN stake ELSE (stake * filled) \div size

attestTerminal(filled, spent) ==
    IF filled = 0 THEN Failed
    ELSE IF filled + Lot >= bet.asked THEN [type |-> "FILLED", filled |-> bet.asked, spent |-> bet.stake]
    ELSE [type |-> "PARTIAL", filled |-> filled, spent |-> Min({spent, bet.stake})]

\* The order ends, filled in full, by half or not at all.
orderEnds ==
    /\ order # NoOrder /\ outcome = Pending
    /\ \E filled \in {0, order.size \div 2, order.size} :
         outcome' = attestTerminal(filled,
             IF order.kind = "MARKET" THEN marketSpentWithFee(bet.stake, filled, order.size)
             ELSE Ceil(filled * order.price, ShareUnits))
    /\ UNCHANGED <<marketVars, proverVars, feeRate, page, draft, intent, bet, order, sell,
                   soldAtt, note, marker, view, modal, noNote, cooling, retired, tries>>

-----------------------------------------------------------------------------
(* The portfolio page.                                                     *)

\* Mutant: a sale is looked for only where a close was begun here.
LooksForSaleMarked(m, filled) == m # "none"
\* Where a close was begun, and at every filled position.
LooksForSale(m, filled) == m # "none" \/ filled

FeeOnly == outcome.type = "PARTIAL" /\ outcome.spent >= bet.stake
Polled ==
    LET type == IF bet.status = "ACTIVE" THEN outcome.type ELSE "none"
        filled == bet.status = "FILLED" \/ type = "FILLED"
    IN  [status |-> bet.status, type |-> type, feeOnly |-> type = "PARTIAL" /\ FeeOnly,
         sold |-> LooksForSale(marker, filled) /\ soldAtt > 0]

\* The poll of every open receipt.  A market sale that did not come loses its marker
\* after a while; a position that was closed is retired.
poll ==
    /\ bet # NoBet /\ ~retired
    /\ view' = Polled
    /\ \/ marker' = marker
       \/ marker = "MARKET" /\ ~Polled.sold /\ marker' = "none"
    /\ retired' = (bet.status = "CLOSED_CREDITED")
    /\ <<view', marker', retired'>> # <<view, marker, retired>>
    /\ UNCHANGED <<marketVars, proverVars, feeRate, page, draft, intent, bet, order,
                   outcome, sell, soldAtt, note, modal, noNote, cooling, tries>>

\* A partial fill that spent the whole stake, the fee included, shows as filled.
classifyReceipt ==
    LET partial == view.type = "PARTIAL" /\ view.status # "FILLED" IN
    [isPartial |-> partial /\ ~view.feeOnly,
     isFailed |-> view.type = "FAILED",
     isFilled |-> view.type = "FILLED" \/ view.status = "FILLED" \/ (partial /\ view.feeOnly)]

\* What the receipt's row offers.  Whether the position is ready to settle was read when
\* the page was last refreshed.
renderReceiptRow(ready) ==
    CASE view.sold -> "Credit"
      [] marker # "none" /\ ~view.sold -> "Cancel sell"
      [] OTHER ->
           LET c == classifyReceipt IN
           CASE ready -> "Settle"
             [] ~ready /\ c.isPartial -> "Claim refund"
             [] ~ready /\ c.isFailed -> "Reclaim stake"
             [] ~ready /\ c.isFilled -> "Close"
             [] OTHER -> "wait"
Offered == {renderReceiptRow(ready) : ready \in {FALSE, listed = "resolved"}}

InFlight(c, by) == \E job \in Range(proofs) : job.circuit = c /\ job.by = by

\* The page credits a partial fill when it sees one; the user may claim it as well.
autoFinalizePartial ==
    /\ view.type = "PARTIAL" /\ view.status = "ACTIVE" /\ bet.status = "ACTIVE" /\ ~retired
    /\ ~InFlight("partial_credit", "page") /\ Len(proofs) < MaxProofs
    /\ Asked(Job("partial_credit", "page"))
    /\ UNCHANGED <<marketVars, tradeVars>>
claimPartial ==
    /\ "Claim refund" \in Offered /\ ~retired
    /\ ~InFlight("partial_credit", "user") /\ Len(proofs) < MaxProofs
    /\ Asked(Job("partial_credit", "user"))
    /\ UNCHANGED <<marketVars, tradeVars>>

\* Vault.partialFillCredit
partialProved(ok) ==
    /\ \E job \in Range(proofs) :
         /\ job.circuit = "partial_credit" /\ Settles(job, ok)
         /\ IF ok /\ job.note = note /\ bet.status = "ACTIVE" /\ bet.sold = 0
            THEN /\ bet' = [bet EXCEPT !.shares = outcome.filled, !.status = "FILLED"]
                 /\ note' = note + 1
            ELSE UNCHANGED <<bet, note>>
    /\ UNCHANGED <<marketVars, feeRate, page, draft, intent, order, outcome, sell, soldAtt,
                   marker, view, modal, noNote, cooling, retired, tries>>

\* closeMarker.ts: the close in flight is noted, or the storage refuses
markCloseSubmitted(kind) == marker' \in {kind, "none"}
clearCloseMarker == marker' = "none"

\* The token is the registry's for the record's side, never the request's; the record may
\* not be read.
resolveCloseToken ==
    {decideCloseToken(bet.side, "position"), IF Mock THEN "position" ELSE "reject"}

\* POST /close-request: one that the signing layer cannot place is dropped.
postCloseRequest(shares) ==
    \E token \in resolveCloseToken :
      IF token = "reject" \/ soldAtt > 0 THEN UNCHANGED sell
      ELSE sell' = [size |-> shares, token |-> token]

\* The user sells the position, for the record's shares, from its row or again from the
\* error the dialog shows; one SELL is modelled.
MayClose ==
    /\ bet.status \in {"ACTIVE", "FILLED"} /\ ~retired /\ sell = NoOrder
    /\ (modal = "none" /\ "Close" \in Offered) \/ modal = "error"
\* A request that is dropped leaves its marker; the note about a limit sale goes by itself.
closePosition(kind) ==
    /\ MayClose /\ postCloseRequest(bet.shares)
    /\ markCloseSubmitted(kind)
    /\ modal' = IF kind = "MARKET" THEN "selling" ELSE "resting"
    /\ UNCHANGED <<marketVars, proverVars, feeRate, page, draft, intent, bet, order,
                   outcome, soldAtt, note, view, noNote, cooling, retired, tries>>
\* The request fails, or only its answer is lost: the dialog shows the error.
closeRequestFails ==
    /\ MayClose /\ modal' = "error"
    /\ UNCHANGED sell \/ postCloseRequest(bet.shares)
    /\ UNCHANGED <<marketVars, proverVars, feeRate, page, draft, intent, bet, order,
                   outcome, soldAtt, note, marker, view, noNote, cooling, retired, tries>>

\* The SELL sells some of its shares or all, and the operator attests the sale.
sellEnds ==
    /\ sell # NoOrder /\ soldAtt = 0
    /\ soldAtt' \in {sell.size \div 2, sell.size} \ {0}
    /\ UNCHANGED <<marketVars, proverVars, feeRate, page, draft, intent, bet, order,
                   outcome, sell, note, marker, view, modal, noNote, cooling, retired, tries>>

\* "Cancel sell": the outcome is attested, so the request changes nothing at the signing
\* layer, and the marker goes unless the sale was attested.
handleCancelClose ==
    /\ "Cancel sell" \in Offered /\ modal = "none" /\ soldAtt = 0 /\ clearCloseMarker
    /\ UNCHANGED <<marketVars, proverVars, feeRate, page, draft, intent, bet, order,
                   outcome, sell, soldAtt, note, view, modal, noNote, cooling, retired, tries>>

\* The dialog's wait is over without a sale: it shows the error.
marketCloseGivesUp ==
    /\ modal = "selling" /\ ~InFlight("position_close", "modal")
    /\ modal' = "error" /\ clearCloseMarker
    /\ UNCHANGED <<marketVars, proverVars, feeRate, page, draft, intent, bet, order,
                   outcome, sell, soldAtt, note, view, noNote, cooling, retired, tries>>

\* "resting" and "done" go by a timer, "error" when the user closes the dialog.
closeDialog ==
    /\ modal \in {"resting", "error"} /\ modal' = "none"
    /\ UNCHANGED <<marketVars, proverVars, feeRate, page, draft, intent, bet, order, outcome,
                   sell, soldAtt, note, marker, view, noNote, cooling, retired, tries>>

-----------------------------------------------------------------------------
(* Crediting the sale.                                                     *)

\* Who credits: the page after a poll, while no dialog is open for the position, the
\* dialog that waits for its sale, or the user after a failure.
Finalizes(by) ==
    /\ bet.status \in {"ACTIVE", "FILLED"} /\ soldAtt > 0 /\ ~retired
    /\ \/ by = "page" /\ view.sold /\ modal = "none" /\ ~cooling
       \/ by = "modal" /\ modal = "selling"
       \/ by = "user" /\ "Credit" \in Offered /\ modal = "none" /\ ~noNote
    /\ ~InFlight("position_close", by) /\ Len(proofs) < MaxProofs
    /\ cooling' = (cooling /\ by # "user")

\* finalizeClose up to its proof
finalizeClose(by) ==
    /\ Finalizes(by) /\ Asked(Job("position_close", by))
    /\ UNCHANGED <<marketVars, feeRate, page, draft, intent, bet, order, outcome, sell,
                   soldAtt, note, marker, view, modal, noNote, retired, tries>>

\* The cache shows no note of the lineage: the row offers Restore, and the dialog leaves
\* the sale to the page, which tries again after its next poll.
noFreeNote(by) ==
    /\ Finalizes(by)
    /\ IF by = "modal" THEN modal' = "resting" /\ UNCHANGED noNote
       ELSE noNote' = TRUE /\ UNCHANGED modal
    /\ UNCHANGED <<marketVars, proverVars, feeRate, page, draft, intent, bet, order,
                   outcome, sell, soldAtt, note, marker, view, retired, tries>>

\* The conditions of Vault.closePosition.
Creditable(job) ==
    /\ job.note = note /\ listed # "resolved" /\ bet.status \in {"ACTIVE", "FILLED"}
    /\ bet.sold < soldAtt /\ soldAtt <= bet.shares

closeCredited(job) ==
    /\ job.circuit = "position_close" /\ Settles(job, TRUE) /\ Creditable(job)
    /\ bet' = [bet EXCEPT !.sold = soldAtt,
                          !.status = IF soldAtt = bet.shares THEN "CLOSED_CREDITED" ELSE "FILLED"]
    /\ note' = note + 1
    /\ retired' = (soldAtt = bet.shares)
    /\ clearCloseMarker
    /\ modal' = IF job.by = "modal" THEN "resting" ELSE modal
    /\ noNote' = (noNote /\ job.by = "modal")
    /\ cooling' = (cooling /\ job.by # "page")
    /\ UNCHANGED <<marketVars, feeRate, page, draft, intent, order, outcome, sell, soldAtt,
                   view, tries>>

\* The proof fails or the Vault refuses: the page backs off, the row and the dialog show
\* the error.
closeRefused(job, ok) ==
    /\ job.circuit = "position_close" /\ Settles(job, ok) /\ (ok => ~Creditable(job))
    /\ cooling' = (cooling \/ job.by = "page")
    /\ modal' = IF job.by = "modal" /\ modal # "none" THEN "error" ELSE modal
    /\ noNote' = (noNote /\ job.by = "modal")
    /\ UNCHANGED <<marketVars, feeRate, page, draft, intent, bet, order, outcome, sell,
                   soldAtt, note, marker, view, retired, tries>>

\* CLOSE_FINALIZE_RETRY_COOLDOWN_MS pass.
cooldownEnds ==
    /\ cooling /\ cooling' = FALSE
    /\ UNCHANGED <<marketVars, proverVars, feeRate, page, draft, intent, bet, order,
                   outcome, sell, soldAtt, note, marker, view, modal, noNote, retired, tries>>

-----------------------------------------------------------------------------
(* The browser.                                                            *)

reload ==
    /\ tries < MaxTries /\ tries' = tries + 1
    /\ page' = NoRow /\ draft' = NoDraft /\ view' = NoView /\ modal' = "none"
    /\ noNote' = FALSE /\ cooling' = FALSE
    /\ ProverReset
    /\ UNCHANGED <<marketVars, feeRate, intent, bet, order, outcome, sell, soldAtt,
                   note, marker, retired>>

-----------------------------------------------------------------------------
Catalog ==
    syncCatalog \/ MarketRoutes \/ syncMarkets \/ gammaCloses \/ marketResolves
Proving ==
    startsInWorker \/ startsOnMainThread \/ workerCrashes

Next ==
    \/ Catalog /\ UNCHANGED <<proverVars, tradeVars>>
    \/ Proving /\ UNCHANGED <<marketVars, tradeVars>>
    \/ loadMarket
    \/ registerMarket
    \/ submit
    \/ \E ok \in BOOLEAN : betProved(ok)
    \/ requestLimitOrder
    \/ relayBet
    \/ processBetEvent
    \/ orderEnds
    \/ poll
    \/ autoFinalizePartial
    \/ claimPartial
    \/ \E ok \in BOOLEAN : partialProved(ok)
    \/ \E kind \in {"MARKET", "LIMIT"} : closePosition(kind)
    \/ sellEnds
    \/ handleCancelClose
    \/ closeRequestFails
    \/ marketCloseGivesUp
    \/ closeDialog
    \/ \E by \in {"page", "modal", "user"} : finalizeClose(by)
    \/ \E by \in {"page", "modal", "user"} : noFreeNote(by)
    \/ \E job \in Range(proofs) : closeCredited(job)
    \/ \E job \in Range(proofs), ok \in BOOLEAN : closeRefused(job, ok)
    \/ cooldownEnds
    \/ reload

\* The page polls, its timers fire and proofs settle.  Of the user: a dialog that shows an
\* error is closed in the end, a locked seed is unlocked and a missing note restored, so
\* that the page does not fail to start a credit for ever.  A browser that can run a
\* worker does so again and again, and a proof and its relay do not fail for ever.
ProofSettles ==
    \/ \E ok \in BOOLEAN : betProved(ok) \/ partialProved(ok)
    \/ \E job \in Range(proofs) : closeCredited(job) \/ \E ok \in BOOLEAN : closeRefused(job, ok)
Credited == partialProved(TRUE) \/ \E job \in Range(proofs) : closeCredited(job)
Fairness ==
    /\ WF_vars(poll) /\ WF_vars(cooldownEnds)
    /\ WF_vars(marketCloseGivesUp) /\ WF_vars(closeDialog)
    /\ SF_vars(finalizeClose("page") \/ autoFinalizePartial)
    /\ SF_vars(startsInWorker /\ UNCHANGED <<marketVars, tradeVars>>)
    /\ WF_vars(ProofSettles)
    /\ SF_vars(runner = "worker" /\ Credited)

Spec == Init /\ [][Next]_vars /\ Fairness

-----------------------------------------------------------------------------
(* Properties.                                                             *)

(* The order is the one the user was shown.  The token bought is the token of the side
   on the page, for a market that Gamma lists the wrong way round, although the page's row
   and the registry's row are made by two services at two moments; a bet with a limit is
   a limit order; no more shares are bought than the proof committed to; at the order's
   price, which the CLOB rounds up when it is off the market's tick, the cost stays
   within the stake, with the fee, too, when the fee was read or is no more than the
   reserve; and what is sold is the token that was bought.                      *)
FeeReserved == order.feeRead \/ feeRate <= clobBuyFeeBps
OrderMatchesQuote ==
    /\ order # NoOrder =>
         /\ order.token = bet.token
         /\ bet.kind = "LIMIT" => order.kind = "LIMIT"
         /\ order.size <= bet.asked
         /\ order.size * order.price <= bet.stake * ShareUnits
         /\ FeeReserved =>
              order.size * order.price * (100 + feeRate) <= bet.stake * ShareUnits * 100
    /\ sell # NoOrder => sell.token = order.token

(* A sale that was attested is credited: also when the marker of the close was lost or
   cleared, when proofs fail or two credits race for the lineage's note, and after a
   reload.  Left out: a market that resolves first, and a sale of more shares than were
   bought, which a close before the partial fill is credited can make.         *)
SoldIsCredited ==
    (soldAtt > 0 /\ soldAtt <= outcome.filled) ~> (bet.sold = soldAtt \/ listed = "resolved")

(* orderBuilder.ts:877-879, ClosePositionModal.tsx: the shares sold are shares of the
   position.  TLC refutes it: a close before the fee-only partial fill is credited sells
   the shares of the proof.                                                   *)
SoldWithinHolding == sell # NoOrder => sell.size <= outcome.filled

(* BetModal.tsx:400-403: a market order registers no intent and takes the FAK route.
   TLC refutes it: the intent of a limit bet that was not relayed meets the same note's
   next bet.                                                                  *)
MarketIsMarket == order # NoOrder /\ bet.kind = "MARKET" => order.kind = "MARKET"

(* marketRegistry.ts:199: a market that is shown can be routed.  TLC refutes it: the
   registration may be lost.                                                  *)
ShownIsRoutable == bet # NoBet => decideBuyToken(bet.side, "position") # "reject"
=============================================================================
