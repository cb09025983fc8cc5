--------------------------- MODULE PositionClose ---------------------------
(***************************************************************************)
(* Closing a position before its market resolves: POST /close-request      *)
(* (autoSettlement.ts), the market and limit SELL orders (orderBuilder.ts),*)
(* the fill tracker's SELL side (wsFillTracker.ts, terminalAttestation.ts),*)
(* the SOLD slot of the attestation store and the operator's recovery      *)
(* script (attestSold.ts).                                                 *)
(*                                                                         *)
(* The bets are filled: each holds Shares shares of the pooled wallet.     *)
(* `finalized` is the fill tracker's set, kept per bet and not per order:  *)
(* the bets of BoughtOnLimit are in it because their BUY order was tracked *)
(* and ended in this process.  An action is what runs between two awaits;  *)
(* the order limiter admits one POST at a time, and what a request checked *)
(* before it may have changed by then.                                     *)
(*                                                                         *)
(* Faults: an answer is lost (lostResponse), carries no order id           *)
(* (noOrderId) or no fill yet (delayed); a limit SELL takes liquidity when *)
(* posted (crossing); getOrder has nothing for an order on the book        *)
(* (transientMiss); another order of the token ends and the tracker takes  *)
(* its message for a tracked order's (sharedToken); storing an attestation *)
(* throws (storeError); the market resolves (resolution).                  *)
(***************************************************************************)
EXTENDS Integers, FiniteSets

CONSTANTS
    Bets, BoughtOnLimit,
    Shares,       \* shares each bet holds
    Dust,         \* DUST
    Tolerance,    \* confirmSellFilled's: the share of the size that need not be confirmed
    Requests,     \* close requests in progress at once
    MaxOrders,    \* bound on the SELL orders the CLOB accepts
    MaxRestarts,
    Faults

ASSUME CloseAssumption ==
    /\ BoughtOnLimit \subseteq Bets
    /\ Shares \in Nat \ {0} /\ Dust \in Nat /\ Tolerance \in Nat
    /\ MaxOrders \in Nat /\ MaxRestarts \in Nat
    /\ Faults \subseteq {"lostResponse", "noOrderId", "delayed", "crossing",
                         "transientMiss", "sharedToken", "storeError", "resolution"}

OrderId == 1..MaxOrders
NoOrder == 0
Unknown == -1

VARIABLES
    soldRow,    \* durable: bet -> amountA of its SOLD attestation, 0 without one
    rows,       \* durable: bet -> order of its tracked_orders row, or NoOrder
    tracked,    \* memory: SELL orders in byOrderId
    finalized,  \* memory: bets in `finalized`
    requests,   \* memory: the close requests in progress
    clob,       \* external: order -> what the CLOB knows of it
    posted,     \* external: orders accepted so far
    resolved,   \* external: bets whose market has resolved
    restarts,
    sold,       \* history: bet -> shares of it the CLOB has sold
    hearsay     \* history: bets with a SOLD row that rests on the operator's word, or a
                \* tracked order ended by the message of another order

durable == <<soldRow, rows>>
memory  == <<tracked, finalized>>
outside == <<clob, posted, resolved, sold>>
vars == <<durable, memory, requests, outside, restarts, hearsay>>

\* size is the shares to sell; made and taken the shares sold as maker and taker.
Order == [bet : Bets, limit : BOOLEAN, size : 1..Shares, live : BOOLEAN,
          made : 0..Shares, taken : 0..Shares]
Idle == [pc |-> "idle"]
At(pc, b, limit, n) == [pc |-> pc, bet |-> b, limit |-> limit, n |-> n]
Responded(pc, req, o, fill) ==
    [pc |-> pc, bet |-> req.bet, limit |-> req.limit, n |-> req.n, order |-> o, fill |-> fill]
Posting == [pc : {"post"}, bet : Bets, limit : BOOLEAN, n : 1..Shares]
Answered == [pc : {"response", "confirm"}, bet : Bets, limit : BOOLEAN, n : 1..Shares,
             order : OrderId \cup {NoOrder}, fill : 0..Shares \cup {Unknown}]

TypeOK ==
    /\ soldRow \in [Bets -> 0..Shares]
    /\ rows \in [Bets -> OrderId \cup {NoOrder}]
    /\ tracked \subseteq OrderId /\ finalized \subseteq Bets
    /\ requests \in [Requests -> {Idle} \cup Posting \cup Answered]
    /\ sold \in [Bets -> Nat]
    /\ posted \in 0..MaxOrders /\ clob \in [1..posted -> Order]
    /\ resolved \subseteq Bets /\ restarts \in 0..MaxRestarts /\ hearsay \subseteq Bets

Init ==
    /\ soldRow = [b \in Bets |-> 0] /\ rows = [b \in Bets |-> NoOrder]
    /\ tracked = {} /\ finalized = BoughtOnLimit
    /\ requests = [r \in Requests |-> Idle]
    /\ clob = [o \in 1..0 |-> Idle] /\ posted = 0 /\ resolved = {}
    /\ sold = [b \in Bets |-> 0] /\ restarts = 0 /\ hearsay = {}

-----------------------------------------------------------------------------
(* The SOLD attestation.                                                   *)

Filled(o) == clob[o].made + clob[o].taken
isOrderTracked(b) == b \notin finalized /\ \E o \in tracked : clob[o].bet = b

\* Mutant: the size that was asked for, whatever was sold.
soldAmountAsked(size, fill) == IF fill = 0 THEN 0 ELSE size

\* attestTerminal for a SELL: the shares sold, snapped to the size within DUST; a
\* sale of nothing gives no attestation.
soldAmount(size, fill) ==
    IF fill = 0 THEN 0 ELSE IF fill + Dust >= size THEN size ELSE fill

\* signAndStoreAttestation: a SOLD row stays as it is; errors are swallowed.
attestSoldAmount(b, n) ==
    \/ soldRow' = [soldRow EXCEPT ![b] = IF @ = 0 THEN n ELSE @]
    \/ "storeError" \in Faults /\ UNCHANGED soldRow

-----------------------------------------------------------------------------
(* POST /close-request and the SELL orders.                                *)

\* submitMarketSellOrder, submitLimitSellOrder up to the limiter: neither sells when
\* a SOLD row exists, and a limit SELL waits for the tracked order.
MaySell(b, limit) == soldRow[b] = 0 /\ (limit => ~isOrderTracked(b))

\* The sale starts unless MaySell or the breaker stops it (the close_requests row is the
\* operator's to read).
closeRequest(r, b, limit, n) ==
    /\ requests[r] = Idle /\ MaySell(b, limit)
    /\ requests' = [requests EXCEPT ![r] = At("post", b, limit, n)]
    /\ UNCHANGED <<durable, memory, outside, restarts, hearsay>>

\* External: the CLOB accepts a SELL order.
Accept(req, taken, live) ==
    /\ posted < MaxOrders /\ req.bet \notin resolved
    /\ posted' = posted + 1
    /\ clob' = [o \in 1..(posted + 1) |->
          IF o <= posted THEN clob[o]
          ELSE [bet |-> req.bet, limit |-> req.limit, size |-> req.n, live |-> live,
                made |-> 0, taken |-> taken]]
    /\ sold' = [sold EXCEPT ![req.bet] = @ + taken]
    /\ UNCHANGED resolved

\* resolveCloseToken and createAndPostOrder: no token, no client or an error ends the
\* close; the order is rejected, or accepted with an answer that may be lost.
PostSell(r) ==
    LET req == requests[r]
        Answer(o, fill) == requests' = [requests EXCEPT ![r] = Responded("response", req, o, fill)]
    IN  /\ req.pc = "post"
        /\ \/ requests' = [requests EXCEPT ![r] = Idle] /\ UNCHANGED outside
           \/ Answer(NoOrder, 0) /\ UNCHANGED outside
           \/ \E f \in 0..req.n :
                /\ (req.limit /\ f > 0) => "crossing" \in Faults
                /\ Accept(req, f, req.limit /\ f < req.n)
                /\ \/ Answer(posted + 1, IF req.limit THEN Unknown ELSE f)
                   \/ "noOrderId" \in Faults /\ Answer(NoOrder, IF req.limit THEN Unknown ELSE f)
                   \/ "lostResponse" \in Faults /\ requests' = [requests EXCEPT ![r] = Idle]
           \/ /\ ~req.limit /\ "delayed" \in Faults
              /\ Accept(req, 0, TRUE) /\ Answer(posted + 1, Unknown)
        /\ UNCHANGED <<durable, memory, restarts, hearsay>>

\* submitMarketSellOrder after the POST: a known fill is attested, an unknown one is
\* looked up when the answer had an order id.
submitMarketSellOrder(r) ==
    LET req == requests[r] IN
    /\ req.pc = "response" /\ ~req.limit
    /\ \/ /\ req.fill # Unknown
          /\ attestSoldAmount(req.bet, soldAmount(req.n, req.fill))
          /\ requests' = [requests EXCEPT ![r] = Idle]
       \/ /\ req.fill = Unknown /\ UNCHANGED soldRow
          /\ requests' = [requests EXCEPT ![r] = Responded("confirm", req, req.order, Unknown)]
    /\ UNCHANGED <<rows, memory, outside, restarts, hearsay>>

\* confirmSellFilled: all but Tolerance of the size is sold and counts as all of it, or
\* 20 s pass, or the order was killed.
confirmSellFilled(r) ==
    LET req == requests[r] IN
    /\ req.pc = "confirm"
    /\ \/ Filled(req.order) + Tolerance >= req.n /\ attestSoldAmount(req.bet, req.n)
       \/ Filled(req.order) < req.n /\ UNCHANGED soldRow
    /\ requests' = [requests EXCEPT ![r] = Idle]
    /\ UNCHANGED <<rows, memory, outside, restarts, hearsay>>

\* Mutant: a SELL of a bet is never refused, and its row is not written.
trackOrderUnsaved(b, o) == tracked' = tracked \cup {o} /\ UNCHANGED rows

\* trackOrder: refused when the bet is in `finalized` or has a SOLD row.
trackOrder(b, o) ==
    IF b \in finalized \/ soldRow[b] > 0 THEN UNCHANGED <<tracked, rows>>
    ELSE tracked' = tracked \cup {o} /\ rows' = [rows EXCEPT ![b] = o]

\* submitLimitSellOrder after the POST: an answer without an order id is a rejection.
submitLimitSellOrder(r) ==
    LET req == requests[r] IN
    /\ req.pc = "response" /\ req.limit
    /\ IF req.order = NoOrder THEN UNCHANGED <<tracked, rows>> ELSE trackOrder(req.bet, req.order)
    /\ requests' = [requests EXCEPT ![r] = Idle]
    /\ UNCHANGED <<soldRow, finalized, outside, restarts, hearsay>>

-----------------------------------------------------------------------------
(* The fill tracker.                                                       *)

\* finalize, for a SELL
finalizeSell(o, fill) ==
    LET b == clob[o].bet IN
    /\ b \notin finalized
    /\ finalized' = finalized \cup {b}
    /\ attestSoldAmount(b, soldAmount(clob[o].size, fill))
    /\ tracked' = tracked \ {o}
    /\ rows' = [rows EXCEPT ![b] = NoOrder]

\* handleOne, reconcileOne: the channel or getOrder tells the end of a tracked order and
\* what it sold; or getOrder has nothing, for an order that ended is purged, and the
\* trade history has a maker fill.  A fill taken when posting is not looked for there.
trackerEnds(o) ==
    /\ o \in tracked
    /\ \/ ~clob[o].live /\ finalizeSell(o, Filled(o))
       \/ /\ clob[o].live => "transientMiss" \in Faults
          /\ clob[o].made > 0 /\ finalizeSell(o, clob[o].made)
    /\ UNCHANGED <<requests, outside, restarts, hearsay>>

\* findTracked: the message of an order that is not tracked is taken for that of a
\* tracked order of the same token, with the fill it carries.
findTracked(o, fill) ==
    /\ "sharedToken" \in Faults /\ o \in tracked
    /\ finalizeSell(o, fill)
    /\ hearsay' = hearsay \cup {clob[o].bet}
    /\ UNCHANGED <<requests, outside, restarts>>

\* cancelOrdersForMarket: the tracked order of a resolved market ends as a zero fill.
cancelOrdersForMarket(b) ==
    /\ b \in resolved
    /\ \E o \in tracked : clob[o].bet = b /\ finalizeSell(o, 0)
    /\ UNCHANGED <<requests, outside, restarts, hearsay>>

\* attestSold.ts, run by the operator: the whole position counts as sold if it has no
\* SOLD row.  Whether it was sold is not looked at.
attestSold(b) ==
    /\ soldRow[b] = 0
    /\ soldRow' = [soldRow EXCEPT ![b] = Shares]
    /\ hearsay' = hearsay \cup {b}
    /\ UNCHANGED <<rows, memory, requests, outside, restarts>>

-----------------------------------------------------------------------------
(* The CLOB and restarts.                                                  *)

\* External: a live order sells one share more.
FillSell(o) ==
    /\ o \in 1..posted /\ clob[o].live /\ Filled(o) < clob[o].size
    /\ clob' = [clob EXCEPT ![o].made = IF clob[o].limit THEN @ + 1 ELSE @,
                            ![o].taken = IF clob[o].limit THEN @ ELSE @ + 1,
                            ![o].live = Filled(o) + 1 < clob[o].size]
    /\ sold' = [sold EXCEPT ![clob[o].bet] = @ + 1]
    /\ UNCHANGED <<durable, memory, requests, posted, resolved, restarts, hearsay>>

\* External: a limit order expires, a delayed FAK is killed.
Expire(o) ==
    /\ o \in 1..posted /\ clob[o].live
    /\ clob' = [clob EXCEPT ![o].live = FALSE]
    /\ UNCHANGED <<durable, memory, requests, posted, resolved, sold, restarts, hearsay>>

\* External: the market resolves and its orders are dead.
Resolve(b) ==
    /\ "resolution" \in Faults /\ b \notin resolved
    /\ resolved' = resolved \cup {b}
    /\ clob' = [o \in DOMAIN clob |->
          IF clob[o].bet = b THEN [clob[o] EXCEPT !.live = FALSE] ELSE clob[o]]
    /\ UNCHANGED <<durable, memory, requests, posted, sold, restarts, hearsay>>

\* startFillTracker resumes the persisted orders without a SOLD row.
Restart ==
    LET held == {b \in Bets : rows[b] # NoOrder} IN
    /\ restarts < MaxRestarts /\ restarts' = restarts + 1
    /\ tracked' = {rows[b] : b \in {x \in held : soldRow[x] = 0}}
    /\ finalized' = {b \in held : soldRow[b] > 0}
    /\ rows' = [b \in Bets |-> IF soldRow[b] > 0 THEN NoOrder ELSE rows[b]]
    /\ requests' = [r \in Requests |-> Idle]
    /\ UNCHANGED <<soldRow, outside, hearsay>>

-----------------------------------------------------------------------------
Serve(r) ==
    \/ PostSell(r) \/ submitMarketSellOrder(r) \/ confirmSellFilled(r)
    \/ submitLimitSellOrder(r)

Next ==
    \/ \E r \in Requests : \/ PostSell(r) \/ submitMarketSellOrder(r)
                           \/ confirmSellFilled(r) \/ submitLimitSellOrder(r)
                           \/ \E b \in Bets, limit \in BOOLEAN, n \in 1..Shares :
                                 closeRequest(r, b, limit, n)
    \/ \E o \in OrderId : trackerEnds(o) \/ FillSell(o) \/ Expire(o)
    \/ \E o \in OrderId, fill \in 0..Shares : findTracked(o, fill)
    \/ \E b \in Bets : cancelOrdersForMarket(b) \/ attestSold(b) \/ Resolve(b)
    \/ Restart

\* An order that is over and that the trade history has as a maker.
Traded(o) == o \in DOMAIN clob /\ ~clob[o].live /\ clob[o].made > 0

\* The process runs its requests and its reconcile timer.  Nothing is assumed of the
\* channel, nor of getOrder, which forgets an order that is over.
Fairness ==
    /\ \A r \in Requests : WF_vars(Serve(r))
    /\ \A o \in OrderId : WF_vars(Traded(o) /\ trackerEnds(o))

Spec == Init /\ [][Next]_vars /\ Fairness

-----------------------------------------------------------------------------
(* Properties.                                                             *)

\* n shares sold for s.
Backed(n, s) == n <= s + Dust \/ n <= s + Tolerance

(* closePosition pays the proceeds of the shares a SOLD attestation names: whatever
   closes overlap, answers are lost or processes restart, they were all sold, within
   the tolerance of the path that signed.  Excepted is what no path checks: the word of
   the operator who runs attestSold.ts, and another order's message (findTracked).      *)
SoldTruthful == \A b \in Bets \ hearsay : Backed(soldRow[b], sold[b])

(* orderBuilder.ts:873-875: "no double-sell ... re-selling would dump shares owed to
   others. (v1 = one close order per bet.)": a bet's sales never exceed its shares.  The
   code looks for the SOLD row only, which a sale under way does not have yet.           *)
NoOversell == \A b \in Bets : sold[b] <= Shares

(* A close that rests is reported: when a tracked SELL ends with shares sold while it
   rested, a SOLD attestation follows, also when the process restarts in between and
   when the order is purged, unless the market resolves first, another SELL of the bet
   was placed or another order's message ended it.  (A fill it took when posted may go
   unreported: the trade history is searched for maker fills only.)                      *)
TrackedCloseReported ==
    \A b \in Bets :
        (\E o \in tracked : clob[o].bet = b /\ Traded(o))
        ~> (\/ soldRow[b] > 0 \/ b \in resolved \cup hearsay
            \/ Cardinality({o \in DOMAIN clob : clob[o].bet = b}) > 1)

(* wsFillTracker.ts:76-80: a resting close is not "wrongly treated as already-finalized
   and dropped (BUG-6)": a limit SELL that ends with shares sold while it rested is
   reported.  `finalized` is kept per bet, and a bet bought on a limit order is in it.   *)
LimitCloseReported ==
    \A b \in Bets :
        (\E o \in DOMAIN clob : clob[o].bet = b /\ clob[o].limit /\ Traded(o))
        ~> (soldRow[b] > 0)
=============================================================================
