------------------------------- MODULE Orders -------------------------------
(***************************************************************************)
(* The signing layer's life of a bet's BUY order: the event listener that  *)
(* submits it (eventListener.ts, orderBuilder.ts), the fill tracker of     *)
(* resting orders (wsFillTracker.ts), the /cancel-bet handler              *)
(* (autoSettlement.ts), the settlement resolver's cancellation and the     *)
(* attestation store they all end in.                                      *)
(*                                                                         *)
(* The process is single-threaded: an action is what runs between two      *)
(* awaits that wait for I/O.  Signing an attestation with the local wallet *)
(* waits for none, so signAndStoreAttestation is part of its caller's      *)
(* step.  The CLOB is external.  Money is left out: a fill is a number of  *)
(* shares, and `bought` counts the shares the pool paid for.               *)
(*                                                                         *)
(* Faults names what the environment may do beyond answering every call in *)
(* time and truthfully:                                                    *)
(*   earlyCancel    /cancel-bet for a bet the listener has not taken up    *)
(*   slowSubmit     a submission outlives the 120 s and 300 s windows      *)
(*   lostResponse   the CLOB accepts the order, the POST throws            *)
(*   noOrderId      the accepting answer carries no order id               *)
(*   delayed        the answer to a FAK does not tell the fill yet         *)
(*   crossing       a limit order takes liquidity when it is posted        *)
(*   cancelError    cancelOrder throws and the order stays on the book     *)
(*   purged         getOrder returns nothing for an order off the book     *)
(*   transientMiss  getOrder returns nothing for an order on the book      *)
(*   storeError     storing an attestation throws                          *)
(*   resolution     a market resolves while orders rest                    *)
(*   sharedToken    the bets are on one outcome token                      *)
(***************************************************************************)
EXTENDS Integers, FiniteSets

CONSTANTS
    Bets,         \* nullifiers of authorized bets
    Limit,        \* the bets with a registered GTC/GTD intent; the others are FAK
    Shares,       \* expected_shares of every bet
    Dust,         \* DUST
    Cancels,      \* /cancel-bet requests that may be in progress at once
    MaxOrders,    \* bound on the orders the CLOB accepts
    MaxRestarts,  \* bound on process restarts
    Faults

FaultKinds == {"earlyCancel", "slowSubmit", "lostResponse", "noOrderId", "delayed",
               "crossing", "cancelError", "purged", "transientMiss", "storeError",
               "resolution", "sharedToken"}

ASSUME OrdersAssumption ==
    /\ Limit \subseteq Bets
    /\ Shares \in Nat \ {0} /\ Dust \in Nat /\ Dust < Shares
    /\ MaxOrders \in Nat /\ MaxRestarts \in Nat
    /\ Faults \subseteq FaultKinds

OrderId == 1..MaxOrders
NoOrder == 0

VARIABLES
    attestations,  \* durable: bet -> its outcome row, or NoRow
    submissions,   \* durable: bet -> market_submissions row, or NoSubmission
    rows,          \* durable: bet -> order of its tracked_orders row, or NoOrder
    inFlight,      \* memory: bet -> "none", "active" (< 120 s) or "stale"
    tracked,       \* memory: orders in byOrderId
    finalized,     \* memory: bets in `finalized`
    listener,      \* memory: the scan in progress
    cancels,       \* memory: the /cancel-bet requests in progress
    clob,          \* external: order -> what the CLOB knows of it
    posted,        \* external: orders accepted so far
    resolved,      \* external: bets whose market has resolved
    restarts,
    bought,        \* history: bet -> shares bought for it
    started        \* history: bets the listener has taken up

durable == <<attestations, submissions, rows>>
memory  == <<inFlight, tracked, finalized>>
tasks   == <<listener, cancels>>
outside == <<clob, posted, resolved, bought>>
vars == <<durable, memory, tasks, outside, restarts, started>>

\* report_type and amountA; amountB, the cost of the shares, is left out.
Row == [type : {"none", "FILLED", "FAILED", "PARTIAL"}, shares : 0..Shares]
NoRow == [type |-> "none", shares |-> 0]

\* order_id, and submitted_at as its age: "stale" past STALE_SUBMISSION_SEC
Submission == [order : OrderId \cup {NoOrder}, age : {"none", "fresh", "stale"}]
NoSubmission == [order |-> NoOrder, age |-> "none"]

\* The shares filled as a maker and as a taker; live is "on the book".
Order == [bet : Bets, live : BOOLEAN, made : 0..Shares, taken : 0..Shares]

ListenerPC == {"record", "fund", "mark", "post"}
Unknown == -1
Idle == [pc |-> "idle"]
At(pc, b) == [pc |-> pc, bet |-> b]
Responded(b, o, fill) == [pc |-> "response", bet |-> b, order |-> o, fill |-> fill]

CancelPC == {"client", "cancel", "confirm", "reconcile"}
Request(pc, b, o) == [pc |-> pc, bet |-> b, order |-> o]

DurableOK ==
    /\ attestations \in [Bets -> Row]
    /\ submissions \in [Bets -> Submission]
    /\ rows \in [Bets -> OrderId \cup {NoOrder}]

MemoryOK ==
    /\ inFlight \in [Bets -> {"none", "active", "stale"}]
    /\ tracked \subseteq OrderId
    /\ finalized \subseteq Bets

ListenerOK ==
    listener \in {Idle} \cup [pc : ListenerPC, bet : Bets]
        \cup [pc : {"response"}, bet : Bets, order : OrderId \cup {NoOrder},
              fill : 0..Shares \cup {Unknown}]

CancelsOK ==
    cancels \in [Cancels -> {Idle} \cup
        [pc : CancelPC, bet : Bets, order : OrderId \cup {NoOrder}]]

OutsideOK ==
    /\ posted \in 0..MaxOrders
    /\ clob \in [1..posted -> Order]
    /\ resolved \subseteq Bets
    /\ bought \in [Bets -> Nat]

TypeOK ==
    /\ DurableOK /\ MemoryOK /\ ListenerOK /\ CancelsOK /\ OutsideOK
    /\ restarts \in 0..MaxRestarts
    /\ started \subseteq Bets

Init ==
    /\ attestations = [b \in Bets |-> NoRow]
    /\ submissions = [b \in Bets |-> NoSubmission]
    /\ rows = [b \in Bets |-> NoOrder]
    /\ inFlight = [b \in Bets |-> "none"]
    /\ tracked = {} /\ finalized = {}
    /\ listener = Idle /\ cancels = [c \in Cancels |-> Idle]
    /\ clob = [o \in 1..0 |-> Idle] /\ posted = 0 /\ resolved = {}
    /\ restarts = 0
    /\ bought = [b \in Bets |-> 0]
    /\ started = {}

-----------------------------------------------------------------------------
(* The attestation store and the terminal mapping.                         *)

\* getAttestation without a report type
HasOutcome(b) == attestations[b] # NoRow

OffBook(r) == [bet |-> r.bet, live |-> FALSE, made |-> r.made, taken |-> r.taken]
Filled(o) == clob[o].made + clob[o].taken

\* Mutant: the comparison is by status, every fill is a full one.
ClassifyByStatus(fill) ==
    IF fill <= 0 THEN [type |-> "FAILED", shares |-> 0]
    ELSE [type |-> "FILLED", shares |-> 0]

\* attestTerminal: the outcome is read off the fill, not off the status.
Classify(fill) ==
    IF fill <= 0 THEN [type |-> "FAILED", shares |-> 0]
    ELSE IF fill + Dust >= Shares THEN [type |-> "FILLED", shares |-> 0]
    ELSE [type |-> "PARTIAL", shares |-> fill]

FailedRow == [type |-> "FAILED", shares |-> 0]

\* Mutant: the conflict clause updates the row.
signAndStoreAttestationUpsert(b, row) ==
    \/ attestations' = [attestations EXCEPT ![b] = row]
    \/ "storeError" \in Faults /\ UNCHANGED attestations

\* signAndStoreAttestation: an existing outcome stays.  An error is logged and
\* swallowed by attest and attestTerminal, and the caller goes on.
signAndStoreAttestation(b, row) ==
    \/ attestations' = [attestations EXCEPT ![b] = IF @ = NoRow THEN row ELSE @]
    \/ "storeError" \in Faults /\ UNCHANGED attestations

-----------------------------------------------------------------------------
(* The fill tracker.                                                       *)

isOrderTracked(b) == b \notin finalized /\ \E o \in tracked : clob[o].bet = b

\* finalize: the `finalized` set admits one finalization per bet and process; the
\* order is forgotten whether or not the attestation was stored.
finalize(o, fill) ==
    LET b == clob[o].bet IN
    /\ b \notin finalized
    /\ finalized' = finalized \cup {b}
    /\ signAndStoreAttestation(b, Classify(fill))
    /\ tracked' = tracked \ {o}
    /\ rows' = [rows EXCEPT ![b] = NoOrder]

\* getOrder reports a terminal status; an order off the book may be purged.
Reported(o) == ~clob[o].live
MayMiss(o) == IF clob[o].live THEN "transientMiss" \in Faults ELSE "purged" \in Faults

\* The fill that the market's trades tell of an order, where it is a maker; what it took
\* as a taker is not found there.
confirmFillViaTrades(o) == clob[o].made

\* findTracked: the message's order, or else the tracked orders of its token.
findTracked(o) ==
    IF o \in tracked THEN {o}
    ELSE {t \in tracked : "sharedToken" \in Faults \/ clob[t].bet = clob[o].bet}

\* handleMessage: the user channel tells the end of an order of the operator, with
\* what it filled; the message may come late or never.
handleOne(o) ==
    /\ o \in 1..posted /\ ~clob[o].live
    /\ \E t \in findTracked(o) : finalize(t, Filled(o))
    /\ UNCHANGED <<submissions, inFlight, listener, cancels, outside, restarts, started>>

\* reconcileOne: a terminal order is finalized with what it filled; when getOrder
\* has nothing, only a fill seen in the trades (as a maker) is final.
reconcileOne(o) ==
    /\ o \in tracked
    /\ \/ Reported(o) /\ finalize(o, Filled(o))
       \/ MayMiss(o) /\ confirmFillViaTrades(o) > 0 /\ finalize(o, confirmFillViaTrades(o))
    /\ UNCHANGED <<submissions, inFlight, listener, cancels, outside, restarts, started>>

\* trackOrder, unless the bet is settled already.
trackOrder(b, o) ==
    IF b \in finalized \/ HasOutcome(b) THEN UNCHANGED <<tracked, rows>>
    ELSE /\ tracked' = tracked \cup {o}
         /\ rows' = [rows EXCEPT ![b] = o]

\* cancelOrdersForMarket on a resolved market: a zero-fill cancellation.
cancelOrdersForMarket(b) ==
    /\ b \in resolved
    /\ \E o \in tracked : clob[o].bet = b /\ finalize(o, 0)
    /\ UNCHANGED <<submissions, inFlight, listener, cancels, outside, restarts, started>>

-----------------------------------------------------------------------------
(* The event listener and the order builder.                               *)

\* handleBetRecord up to its first await; one scan runs at a time.
handleBetRecord(b) ==
    /\ listener.pc = "idle"
    /\ ~HasOutcome(b) /\ inFlight[b] = "none" /\ ~isOrderTracked(b)
    /\ listener' = At("record", b)
    /\ UNCHANGED <<durable, memory, cancels, outside, restarts, started>>

\* betRecords answers: the bet is taken up.  A token that cannot be derived is
\* rejected with FAILED; a read error leaves the bet to the next scan.
processBetEvent(b) ==
    /\ listener = At("record", b)
    /\ \/ /\ inFlight' = [inFlight EXCEPT ![b] = "active"]
          /\ started' = started \cup {b}
          /\ \/ signAndStoreAttestation(b, FailedRow) /\ listener' = Idle
             \/ listener' = At("fund", b) /\ UNCHANGED attestations
       \/ listener' = Idle /\ UNCHANGED <<inFlight, started, attestations>>
    /\ UNCHANGED <<submissions, rows, tracked, finalized, cancels, outside, restarts>>

\* isHalted and ensureDepositWalletFunded: the order is skipped (the breaker is
\* open, or funding threw), failed for want of funds, or goes on.
Fund(b) ==
    /\ listener = At("fund", b)
    /\ \/ listener' = Idle /\ UNCHANGED attestations
       \/ listener' = Idle /\ signAndStoreAttestation(b, FailedRow)
       \/ /\ listener' = At(IF b \in Limit THEN "post" ELSE "mark", b)
          /\ UNCHANGED attestations
    /\ UNCHANGED <<submissions, rows, memory, cancels, outside, restarts, started>>

\* The durable marker is written before the POST.
markMarketSubmitting(b) ==
    /\ listener = At("mark", b)
    /\ submissions' = [submissions EXCEPT ![b] =
          IF @ = NoSubmission THEN [order |-> NoOrder, age |-> "fresh"] ELSE @]
    /\ listener' = At("post", b)
    /\ UNCHANGED <<attestations, rows, memory, cancels, outside, restarts,
                   started>>

\* External: the CLOB accepts an order.  A FAK is matched at once, or later when
\* it is delayed; a limit order rests, its crossing part filled as a taker.
Accept(b, made, taken, live) ==
    /\ posted < MaxOrders
    /\ posted' = posted + 1
    /\ clob' = [o \in 1..(posted + 1) |->
          IF o <= posted THEN clob[o]
          ELSE [bet |-> b, live |-> live, made |-> made, taken |-> taken]]
    /\ bought' = [bought EXCEPT ![b] = @ + made + taken]
    /\ UNCHANGED resolved

\* createAndPostOrder: an error before the POST, a rejection (explicit, or one the
\* builder cannot read), or acceptance; the answer may be lost.  A resolved market
\* takes no order.
Post(b) ==
    /\ listener = At("post", b)
    /\ \/ listener' = Idle /\ UNCHANGED outside
       \/ /\ listener' \in {Responded(b, NoOrder, 0), Responded(b, NoOrder, Unknown)}
          /\ UNCHANGED outside
       \/ /\ b \notin resolved
          /\ \/ \E f \in 0..Shares :
                   /\ b \notin Limit
                   /\ Accept(b, 0, f, FALSE)
                   /\ listener' = Responded(b, posted + 1, f)
             \/ /\ b \notin Limit /\ "delayed" \in Faults
                /\ Accept(b, 0, 0, TRUE)
                /\ listener' = Responded(b, posted + 1, Unknown)
             \/ \E f \in 0..Shares :
                   /\ b \in Limit /\ (f > 0 => "crossing" \in Faults)
                   /\ Accept(b, 0, f, f < Shares)
                   /\ listener' = Responded(b, posted + 1, Unknown)
             \/ /\ "lostResponse" \in Faults
                /\ \/ b \in Limit /\ Accept(b, 0, 0, TRUE)
                   \/ b \notin Limit /\ \E f \in 0..Shares : Accept(b, 0, f, FALSE)
                /\ listener' = Idle
    /\ UNCHANGED <<durable, memory, cancels, restarts, started>>

\* UPDATE market_submissions: nothing to do without an id or without the row.
setMarketOrderId(b, o) ==
    submissions' = IF o = NoOrder \/ submissions[b] = NoSubmission THEN submissions
                   ELSE [submissions EXCEPT ![b] = [order |-> o, age |-> @.age]]

\* submitFAKOrder after the POST: the order id is stored, a rejection or a read
\* fill is attested, an indeterminate fill is left un-attested.
submitFAKOrder(b) ==
    /\ listener.pc = "response" /\ listener.bet = b /\ b \notin Limit
    /\ \/ setMarketOrderId(b, listener.order)
       \/ "noOrderId" \in Faults /\ UNCHANGED submissions
    /\ IF listener.fill = Unknown THEN UNCHANGED attestations
       ELSE signAndStoreAttestation(b, Classify(listener.fill))
    /\ listener' = Idle
    /\ UNCHANGED <<rows, memory, cancels, outside, restarts, started>>

\* submitLimitOrder after the POST.
submitLimitOrder(b) ==
    /\ listener.pc = "response" /\ listener.bet = b /\ b \in Limit
    /\ listener' = Idle
    /\ \/ /\ listener.order = NoOrder /\ signAndStoreAttestation(b, FailedRow)
          /\ UNCHANGED <<tracked, rows>>
       \/ /\ listener.order # NoOrder /\ UNCHANGED attestations
          /\ \/ trackOrder(b, listener.order)
             \/ "noOrderId" \in Faults /\ UNCHANGED <<tracked, rows>>
    /\ UNCHANGED <<submissions, inFlight, finalized, cancels, outside, restarts, started>>

-----------------------------------------------------------------------------
(* POST /cancel-bet.                                                       *)

\* Mutant: a submission that is under way does not hold the cancellation back.
MayCancelNow(b) == TRUE

\* isActivelySubmitting
NotActivelySubmitting(b) == inFlight[b] # "active"

CancelBet(c, b) ==
    /\ cancels[c] = Idle
    /\ "earlyCancel" \in Faults \/ b \in started
    /\ ~HasOutcome(b)
    /\ \/ /\ isOrderTracked(b)
          /\ cancels' = [cancels EXCEPT ![c] = Request("client", b, NoOrder)]
          /\ UNCHANGED attestations
       \/ /\ ~isOrderTracked(b) /\ NotActivelySubmitting(b)
          /\ submissions[b] # NoSubmission
          /\ cancels' = [cancels EXCEPT ![c] = Request("reconcile", b, submissions[b].order)]
          /\ UNCHANGED attestations
       \/ /\ ~isOrderTracked(b) /\ NotActivelySubmitting(b)
          /\ submissions[b] = NoSubmission
          /\ signAndStoreAttestation(b, FailedRow) /\ UNCHANGED cancels
    /\ UNCHANGED <<submissions, rows, memory, listener, outside, restarts, started>>

\* cancelTrackedOrder up to its cancelOrder; without a client nothing is cancelled.
cancelTrackedOrder(c) ==
    /\ cancels[c].pc = "client"
    /\ LET b == cancels[c].bet IN
       \/ cancels' = [cancels EXCEPT ![c] = Idle]
       \/ /\ isOrderTracked(b) /\ ~HasOutcome(b)
          /\ \E o \in tracked : /\ clob[o].bet = b
                               /\ cancels' = [cancels EXCEPT ![c] = Request("cancel", b, o)]
    /\ UNCHANGED <<durable, memory, listener, outside, restarts, started>>

\* External: the CLOB cancels the order, or the call fails.
CancelAtCLOB(c) ==
    /\ cancels[c].pc = "cancel"
    /\ \/ clob' = [clob EXCEPT ![cancels[c].order] = OffBook(@)]
       \/ "cancelError" \in Faults /\ UNCHANGED clob
    /\ cancels' = [cancels EXCEPT ![c] = Request("confirm", @.bet, @.order)]
    /\ UNCHANGED <<durable, memory, listener, posted, resolved, bought,
                   restarts, started>>

\* The end of cancelTrackedOrder: getOrder if it reports a terminal order, else
\* whatever the trade history holds; without either the order is left tracked.
ConfirmCancel(c) ==
    LET o == cancels[c].order IN
    /\ cancels[c].pc = "confirm"
    /\ cancels' = [cancels EXCEPT ![c] = Idle]
    /\ \/ Reported(o) /\ finalize(o, Filled(o))
       \/ (clob[o].live \/ MayMiss(o)) /\ finalize(o, confirmFillViaTrades(o))
       \/ /\ clob[o].live \/ MayMiss(o) \/ clob[o].bet \in finalized
          /\ UNCHANGED <<attestations, tracked, rows, finalized>>
    /\ UNCHANGED <<submissions, inFlight, listener, outside, restarts, started>>

\* Mutant: a submission without an order id is left pending for good.
StaleSubmissionNever(b) == FALSE

\* ageSec > STALE_SUBMISSION_SEC
StaleSubmission(b) == submissions[b].age = "stale"

\* reconcileMarketSubmission, with the order id read when the request came in.
reconcileMarketSubmission(c) ==
    LET b == cancels[c].bet  o == cancels[c].order IN
    /\ cancels[c].pc = "reconcile"
    /\ cancels' = [cancels EXCEPT ![c] = Idle]
    /\ \/ o = NoOrder /\ StaleSubmission(b) /\ signAndStoreAttestation(b, FailedRow)
       \/ o = NoOrder /\ ~StaleSubmission(b) /\ UNCHANGED attestations
       \/ o # NoOrder /\ Reported(o) /\ signAndStoreAttestation(b, Classify(Filled(o)))
       \/ o # NoOrder /\ (clob[o].live \/ MayMiss(o)) /\ UNCHANGED attestations
    /\ UNCHANGED <<submissions, rows, memory, listener, outside, restarts, started>>

-----------------------------------------------------------------------------
(* The CLOB, the clock and restarts.                                       *)

\* External: a live order fills by one share and leaves the book when full.
Fill(o) ==
    /\ o \in 1..posted /\ clob[o].live /\ Filled(o) < Shares
    /\ clob' = [clob EXCEPT ![o] = [bet |-> @.bet, live |-> Filled(o) + 1 < Shares,
                                    made |-> @.made + 1, taken |-> @.taken]]
    /\ bought' = [bought EXCEPT ![clob[o].bet] = @ + 1]
    /\ UNCHANGED <<durable, memory, tasks, posted, resolved, restarts, started>>

\* External: an order expires, or a delayed FAK is killed.
Expire(o) ==
    /\ o \in 1..posted /\ clob[o].live
    /\ clob' = [clob EXCEPT ![o] = OffBook(@)]
    /\ UNCHANGED <<durable, memory, tasks, posted, resolved, bought, restarts, started>>

\* External: the market resolves and its orders are dead.
Resolve(b) ==
    /\ "resolution" \in Faults /\ b \notin resolved
    /\ resolved' = resolved \cup {b}
    /\ clob' = [o \in DOMAIN clob |->
          IF clob[o].bet = b THEN OffBook(clob[o]) ELSE clob[o]]
    /\ UNCHANGED <<durable, memory, tasks, posted, bought, restarts, started>>

Submitting(b) == listener.pc \notin {"idle", "record"} /\ listener.bet = b

\* ACTIVE_SUBMIT_WINDOW_MS passes; unless submissions may be slow it is longer
\* than any submission.
Elapse120(b) ==
    /\ inFlight[b] = "active"
    /\ "slowSubmit" \in Faults \/ ~Submitting(b)
    /\ inFlight' = [inFlight EXCEPT ![b] = "stale"]
    /\ UNCHANGED <<durable, tracked, finalized, tasks, outside, restarts, started>>

\* STALE_SUBMISSION_SEC passes, later than the window above.
Elapse300(b) ==
    /\ submissions[b].age = "fresh" /\ inFlight[b] # "active"
    /\ "slowSubmit" \in Faults \/ ~Submitting(b)
    /\ submissions' = [submissions EXCEPT ![b] = [order |-> @.order, age |-> "stale"]]
    /\ UNCHANGED <<attestations, rows, memory, tasks, outside, restarts, started>>

\* The process stops (a crash, a deploy, the circuit breaker's exit) and
\* startFillTracker resumes the persisted orders that have no outcome.
Restart ==
    /\ restarts < MaxRestarts
    /\ restarts' = restarts + 1
    /\ inFlight' = [b \in Bets |-> "none"]
    /\ tracked' = {rows[b] : b \in {x \in Bets : rows[x] # NoOrder /\ ~HasOutcome(x)}}
    /\ finalized' = {b \in Bets : rows[b] # NoOrder /\ HasOutcome(b)}
    /\ rows' = [b \in Bets |-> IF HasOutcome(b) THEN NoOrder ELSE rows[b]]
    /\ listener' = Idle /\ cancels' = [c \in Cancels |-> Idle]
    /\ UNCHANGED <<attestations, submissions, outside, started>>

-----------------------------------------------------------------------------
Listen(b) ==
    \/ handleBetRecord(b) \/ processBetEvent(b) \/ Fund(b) \/ markMarketSubmitting(b)
    \/ Post(b) \/ submitFAKOrder(b) \/ submitLimitOrder(b)

Cancel(c) ==
    \/ cancelTrackedOrder(c) \/ CancelAtCLOB(c) \/ ConfirmCancel(c)
    \/ reconcileMarketSubmission(c)

Next ==
    \/ \E b \in Bets : Listen(b) \/ cancelOrdersForMarket(b) \/ Resolve(b)
                       \/ Elapse120(b) \/ Elapse300(b)
    \/ \E c \in Cancels : Cancel(c) \/ \E b \in Bets : CancelBet(c, b)
    \/ \E o \in OrderId : handleOne(o) \/ reconcileOne(o) \/ Fill(o) \/ Expire(o)
    \/ Restart

Spec == Init /\ [][Next]_vars

ClientAvailable(c) == cancelTrackedOrder(c) /\ cancels'[c] # Idle

\* The process keeps running its tasks and timers and time passes.  Outside it, the
\* bettor of an undecided bet keeps asking to reclaim it, a request finds the CLOB
\* client available if it keeps asking, and the CLOB does not leave a FAK delayed.
Fairness ==
    /\ \A b \in Bets : WF_vars(Listen(b)) /\ WF_vars(Elapse120(b)) /\ WF_vars(Elapse300(b))
    /\ \A c \in Cancels : WF_vars(Cancel(c)) /\ SF_vars(ClientAvailable(c))
    /\ \A b \in Bets : SF_vars(\E c \in Cancels : CancelBet(c, b))
    /\ \A o \in OrderId : WF_vars(reconcileOne(o))
    /\ \A o \in OrderId : WF_vars(Expire(o) /\ clob[o].bet \notin Limit)

FairSpec == Spec /\ Fairness

-----------------------------------------------------------------------------
(* Properties.                                                             *)

\* n shares back an outcome row.
Backed(row, n) ==
    /\ row.type = "FILLED" => n + Dust >= Shares
    /\ row.type = "PARTIAL" => row.shares <= n

(* What is credited on chain was bought: a FILLED or PARTIAL attestation never
   stands for more shares than the pool holds for the bet (within DUST), through
   restarts, duplicate orders, lost answers and wrong cancellations alike, as
   long as no two bets are on one token (terminalAttestation.ts: else "the
   settlement credit would exceed the shares held").                         *)
SharesBacked == \A b \in Bets : Backed(attestations[b], bought[b])

(* An outcome is the truth about the order: the order can fill no further, a
   FAILED bet bought nothing, a PARTIAL one exactly what is attested.  FAILED
   returns the whole stake (betCancellationCredit), so a share bought for a
   FAILED bet is paid by the pool (/cancel-bet, autoSettlement.ts).          *)
OutcomeTruthful ==
    \A b \in Bets : HasOutcome(b) =>
        /\ \A o \in DOMAIN clob : clob[o].bet = b => ~clob[o].live
        /\ attestations[b].type = "FAILED" => bought[b] = 0
        /\ attestations[b].type = "PARTIAL" => bought[b] = attestations[b].shares
        /\ attestations[b].type = "FILLED" => bought[b] + Dust >= Shares

(* eventListener.ts:36-37: the checks of handleBetRecord "prevent any
   double-submit": the CLOB gets one BUY order per bet.                      *)
SubmittedOnce ==
    \A o1, o2 \in DOMAIN clob : clob[o1].bet = clob[o2].bet => o1 = o2

(* orderBuilder.ts, reconcileMarketSubmission: "No orderId => the FAK POST never
   placed an order on the book".                                             *)
NoOrderIdMeansUnplaced ==
    \A b \in Bets \ Limit :
        submissions[b].age = "stale" /\ submissions[b].order = NoOrder
        => \A o \in DOMAIN clob : clob[o].bet # b

Out == INSTANCE Outcomes WITH outcome <- attestations

(* The signing layer keeps its promise: every step of the listener, the tracker,
   /cancel-bet and the store buys shares for one bet, or signs the one and final
   outcome of one undecided bet with the shares that support it, or shows nothing
   (signAndStoreAttestation: "exactly one terminal attestation per bet").     *)
ImplementsOutcomes == Out!Spec

(* A bettor who keeps asking is not left without an answer: every bet ends in an
   outcome it can be credited or reclaimed with (reconcileMarketSubmission: "the
   WS/deep-sweep or a later retry finalizes it").                            *)
EveryBetDecided == \A b \in Bets : <>HasOutcome(b)
=============================================================================
