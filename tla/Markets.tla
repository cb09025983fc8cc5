------------------------------- MODULE Markets -------------------------------
(***************************************************************************)
(* What is known of one market: the relay's catalog and its durable names   *)
(* (marketCatalog.ts), which the pages show, and the signing layer's         *)
(* registry (marketRegistry.ts), which tells the token an order is for.      *)
(*                                                                         *)
(* A token is named by its outcome.  A row gives the tokens of side 0 (YES)  *)
(* and side 1 (NO).  Polymarket's Gamma is external: it lists the outcomes   *)
(* in an order of its own, lists the market while it is open, and does not   *)
(* always answer; a market far down its pages is not reached by the syncs.   *)
(***************************************************************************)
EXTENDS Naturals, Sequences, Functions

CONSTANTS
    Listings,      \* the outcomes as Gamma may list them
    BINARY_PAIRS,  \* the pairs of outcomes that have a YES side
    Mock           \* the CLOB is the local mock

ASSUME MarketsAssumption ==
    /\ Mock \in BOOLEAN
    /\ \A p \in BINARY_PAIRS : Len(p) = 2
    /\ \A p, q \in BINARY_PAIRS : Range(p) = Range(q) => p = q

VARIABLES
    outcomes,   \* external: the market's outcomes in Gamma's order
    listed,     \* external: "open", "closed" to orders, or "resolved" in the Vault
    catalog,    \* durable: the row of market_catalog, or NoRow
    named,      \* durable: the market is in market_names
    registry    \* durable: the row of market_registry, or NoRow

marketVars == <<outcomes, listed, catalog, named, registry>>

NoRow == <<>>
Sides == {"YES", "NO"}
Slot(side) == IF side = "YES" THEN 1 ELSE 2

MarketsTypeOK ==
    /\ outcomes \in Listings /\ listed \in {"open", "closed", "resolved"}
    /\ \A row \in {catalog, registry} : row = NoRow \/ Range(row) \subseteq Range(outcomes)
    /\ named \in BOOLEAN

MarketsInit ==
    /\ outcomes \in Listings /\ listed = "open"
    /\ catalog = NoRow /\ named = FALSE /\ registry = NoRow

-----------------------------------------------------------------------------
(* Rows.                                                                   *)

Canonical(o) == {p \in BINARY_PAIRS : Range(p) = Range(o)}

\* Two outcomes make a row: a canonical pair its way round, any other as listed.
binaryIndices(o) ==
    IF Len(o) # 2 THEN NoRow
    ELSE IF Canonical(o) # {} THEN CHOOSE p \in Canonical(o) : TRUE ELSE o

\* toCatalogRow: a market that takes orders and has not ended
toCatalogRow == IF listed = "open" THEN binaryIndices(outcomes) ELSE NoRow

\* Mutant: the registry keeps Gamma's order.
toRowNative(o) == IF Len(o) # 2 THEN NoRow ELSE o
\* The registry's own copy of the rule.
toRow(o) ==
    IF Len(o) # 2 THEN NoRow
    ELSE IF \E p \in BINARY_PAIRS : Range(p) = Range(o)
         THEN CHOOSE p \in BINARY_PAIRS : Range(p) = Range(o) ELSE o

\* With the row its name is kept, for good.
upsertNames(row) == named' = (named \/ row # NoRow)
upsertRows(row) == catalog' = (IF row = NoRow THEN catalog ELSE row) /\ upsertNames(row)

getMarketByCondition == catalog
getMarketName == named

-----------------------------------------------------------------------------
(* The catalog.                                                            *)

\* syncCatalog: the passes reach the market or not; then a row past its end date is dropped
syncCatalog ==
    /\ \E row \in {NoRow, toCatalogRow}, drops \in {FALSE, listed # "open"} :
         /\ catalog' = IF drops THEN NoRow ELSE IF row = NoRow THEN catalog ELSE row
         /\ upsertNames(row)
    /\ UNCHANGED <<outcomes, listed, registry>>

\* GET /markets/:conditionId answers the market from the catalog; on a miss it is asked
\* of Gamma and kept.  A 404 changes nothing.
ingestByConditionId == upsertRows(toCatalogRow)
ServeMarket(row) ==
    IF getMarketByCondition # NoRow
    THEN row = getMarketByCondition /\ UNCHANGED <<catalog, named>>
    ELSE row = toCatalogRow /\ ingestByConditionId
askMarket ==
    /\ \E row \in {catalog, toCatalogRow} : ServeMarket(row)
    /\ UNCHANGED <<outcomes, listed, registry>>

\* searchMarkets: with too few hits in the catalog, Polymarket is searched.
searchMarkets ==
    /\ \E row \in {NoRow, toCatalogRow} : upsertRows(row)
    /\ UNCHANGED <<outcomes, listed, registry>>

\* syncCategoryLive: a category is fetched when it is clicked; the cooldown only makes
\* the calls fewer.
syncCategoryLive ==
    /\ \E row \in {NoRow, toCatalogRow} : upsertRows(row)
    /\ UNCHANGED <<outcomes, listed, registry>>

\* The name of a market no store knows is asked of Gamma, which knows closed ones too.
resolveMarketName ==
    /\ getMarketByCondition = NoRow /\ ~getMarketName /\ upsertNames(outcomes)
    /\ UNCHANGED <<outcomes, listed, catalog, registry>>

\* The relay's routes: /markets/:conditionId, /markets/search, the first page of a
\* category under /markets, and /market-name; the other pages only read.
MarketRoutes == askMarket \/ searchMarkets \/ syncCategoryLive \/ resolveMarketName

-----------------------------------------------------------------------------
(* The registry.  It is upsert-only.                                       *)

\* syncMarkets, syncOneMarket: Gamma is asked for open markets
Registered(row) == registry' = IF row = NoRow THEN registry ELSE row
syncMarkets ==
    /\ \E row \in {NoRow, IF listed = "open" THEN toRow(outcomes) ELSE NoRow} : Registered(row)
    /\ ~Mock
    /\ UNCHANGED <<outcomes, listed, catalog, named>>
syncOneMarket ==
    \E row \in {NoRow, IF listed = "open" THEN toRow(outcomes) ELSE NoRow} : Registered(row)

resolveToken(side) == IF registry = NoRow THEN "none" ELSE registry[Slot(side)]

\* Only the mock CLOB trades the id that came with the bet.
decideBuyToken(side, positionId) ==
    IF resolveToken(side) # "none" THEN resolveToken(side)
    ELSE IF Mock THEN positionId ELSE "reject"
decideCloseToken(side, positionId) ==
    IF resolveToken(side) # "none" THEN resolveToken(side)
    ELSE IF Mock THEN positionId ELSE "reject"

\* external: the market closes, and the operator resolves it
gammaCloses == listed = "open" /\ listed' = "closed"
    /\ UNCHANGED <<outcomes, catalog, named, registry>>
marketResolves == listed = "closed" /\ listed' = "resolved"
    /\ UNCHANGED <<outcomes, catalog, named, registry>>
=============================================================================
