-------------------------- MODULE PositionCloseProofs --------------------------
(***************************************************************************)
(* Theorem about closing a position: what the service attests as sold was  *)
(* sold, for every number of bets, shares, requests, orders and restarts   *)
(* and under every set of faults.                                          *)
(***************************************************************************)
EXTENDS PositionClose, TLAPS

Orders == 1..posted

\* Whatever refers to an order refers to one the CLOB has accepted for the bet.
OrdersKnown ==
    /\ tracked \subseteq Orders
    /\ \A b \in Bets : rows[b] # NoOrder => rows[b] \in Orders
    /\ \A r \in Requests : requests[r].pc \in {"response", "confirm"} =>
          \/ requests[r].order \in Orders /\ clob[requests[r].order].bet = requests[r].bet
          \/ /\ requests[r].order = NoOrder /\ requests[r].pc = "response"
             /\ requests[r].limit \/ requests[r].fill # Unknown

\* No order sells beyond its size, and what an order sold, its bet has sold.
FillsSold ==
    \A o \in Orders : Filled(o) <= clob[o].size /\ Filled(o) <= sold[clob[o].bet]

\* The fill a request holds between the POST and the attestation was sold.
AnswersSold ==
    \A r \in Requests : requests[r].pc = "response" /\ requests[r].fill # Unknown =>
        requests[r].fill <= sold[requests[r].bet]

Inv ==
    /\ TypeOK
    /\ OrdersKnown
    /\ FillsSold
    /\ AnswersSold
    /\ SoldTruthful

RequestState == {Idle} \cup Posting \cup Answered

-----------------------------------------------------------------------------
(* Requests and orders.                                                    *)

\* A request is what its pc says.
LEMMA RequestIs ==
    ASSUME TypeOK, NEW r \in Requests
    PROVE  /\ requests[r] \in RequestState
           /\ requests[r].pc = "idle" <=> requests[r] = Idle
           /\ requests[r].pc = "post" => requests[r] \in Posting
           /\ requests[r].pc \in {"response", "confirm"} => requests[r] \in Answered
           /\ requests[r] # Idle => requests[r].bet \in Bets /\ requests[r].n \in 1..Shares
BY DEF TypeOK, RequestState, Idle, Posting, Answered

\* A request that moves on leaves the others where they are.
LEMMA RequestMoves ==
    ASSUME TypeOK, NEW r \in Requests, NEW x \in RequestState,
           requests' = [requests EXCEPT ![r] = x]
    PROVE  /\ requests' \in [Requests -> RequestState] /\ requests'[r] = x
           /\ \A s \in Requests : s # r => requests'[s] = requests[s]
BY DEF TypeOK, RequestState

\* The orders the CLOB holds.
LEMMA OrderIs ==
    ASSUME TypeOK, NEW o \in Orders
    PROVE  /\ o \in OrderId /\ clob[o] \in Order /\ clob[o].bet \in Bets
           /\ clob[o].size \in 1..Shares /\ clob[o].live \in BOOLEAN /\ clob[o].limit \in BOOLEAN
           /\ clob[o].made \in Nat /\ clob[o].taken \in Nat /\ Filled(o) \in Nat
<1>1. posted \in 0..MaxOrders /\ MaxOrders \in Nat /\ Shares \in Nat
  BY CloseAssumption DEF TypeOK
<1>2. o \in OrderId
  BY <1>1 DEF Orders, OrderId
<1>3. clob[o] \in Order
  BY DEF TypeOK, Orders
<1> QED BY <1>1, <1>2, <1>3 DEF Order, Filled

-----------------------------------------------------------------------------
(* The attestation.                                                        *)

\* A SOLD amount is at most the fill it is read off, within DUST, and at most the size.
LEMMA SoldAmountBound ==
    ASSUME NEW size \in 1..Shares, NEW fill \in 0..Shares
    PROVE  /\ soldAmount(size, fill) \in 0..Shares
           /\ soldAmount(size, fill) <= fill + Dust
           /\ fill = 0 => soldAmount(size, fill) = 0
BY CloseAssumption DEF soldAmount

\* Storing an amount that was sold keeps every stored amount truthful.
LEMMA AttestKeeps ==
    ASSUME TypeOK, SoldTruthful, NEW b \in Bets, NEW n \in 0..Shares,
           b \in hearsay' \/ Backed(n, sold[b]), hearsay \subseteq hearsay',
           attestSoldAmount(b, n), UNCHANGED sold
    PROVE  soldRow' \in [Bets -> 0..Shares] /\ SoldTruthful'
<1>1. soldRow \in [Bets -> 0..Shares] /\ sold' = sold
  BY DEF TypeOK
<1>2. CASE soldRow' = [soldRow EXCEPT ![b] = IF @ = 0 THEN n ELSE @]
  <2>1. \A x \in Bets : soldRow'[x] = soldRow[x] \/ (x = b /\ soldRow'[x] = n)
    BY <1>1, <1>2
  <2> QED BY <1>1, <1>2, <2>1 DEF SoldTruthful
<1>3. CASE UNCHANGED soldRow
  BY <1>1, <1>3 DEF SoldTruthful
<1> QED BY <1>2, <1>3 DEF attestSoldAmount

-----------------------------------------------------------------------------
(* Keeping the invariant when no order changes.                            *)

\* What was sold for is sold for when more is sold.
LEMMA SoldMore ==
    ASSUME TypeOK, SoldTruthful, UNCHANGED <<soldRow, hearsay>>,
           \A c \in Bets : sold[c] \in Nat /\ sold'[c] \in Nat /\ sold[c] <= sold'[c]
    PROVE  SoldTruthful'
<1> SUFFICES ASSUME NEW c \in Bets, c \notin hearsay PROVE Backed(soldRow[c], sold'[c])
  BY DEF SoldTruthful
<1>1. Backed(soldRow[c], sold[c]) /\ soldRow[c] \in Nat
  BY CloseAssumption DEF SoldTruthful, TypeOK
<1>2. sold[c] \in Nat /\ sold'[c] \in Nat /\ sold[c] <= sold'[c]
  OBVIOUS
<1> QED BY <1>1, <1>2, CloseAssumption DEF Backed

\* The orders themselves stay as they are.
LEMMA FillsSame ==
    ASSUME FillsSold, UNCHANGED <<clob, posted, sold>>
    PROVE  FillsSold'
BY DEF FillsSold, Orders, Filled

-----------------------------------------------------------------------------
(* POST /close-request.                                                    *)

\* A close that begins holds nothing yet.
LEMMA CloseRequestKeeps ==
    ASSUME Inv, NEW r \in Requests, NEW b \in Bets, NEW limit \in BOOLEAN, NEW n \in 1..Shares,
           closeRequest(r, b, limit, n)
    PROVE  Inv'
<1>0. TypeOK /\ OrdersKnown /\ FillsSold /\ AnswersSold /\ SoldTruthful
  BY DEF Inv
<1>1. /\ UNCHANGED <<soldRow, rows, tracked, finalized, clob, posted, resolved, sold, restarts,
                     hearsay>>
      /\ requests' = [requests EXCEPT ![r] = At("post", b, limit, n)]
  BY DEF closeRequest, durable, memory, outside
<1>2. FillsSold' /\ SoldTruthful'
  BY <1>0, <1>1, FillsSame DEF SoldTruthful
<1>3. PICK x \in Posting : x = At("post", b, limit, n)
  BY DEF At, Posting
<1>4. x \in RequestState /\ x.pc = "post" /\ x.bet = b
  BY <1>3 DEF At, RequestState
<1>5. /\ requests' \in [Requests -> RequestState] /\ requests'[r] = x
      /\ \A s \in Requests : s # r => requests'[s] = requests[s]
  BY <1>0, <1>1, <1>3, <1>4, RequestMoves
<1>6. OrdersKnown' /\ AnswersSold'
  BY <1>0, <1>1, <1>4, <1>5 DEF OrdersKnown, AnswersSold, Orders
<1>7. TypeOK'
  BY <1>0, <1>1, <1>5 DEF TypeOK, RequestState
<1> QED BY <1>2, <1>6, <1>7 DEF Inv

\* What the CLOB knows after it accepted an order.
LEMMA Accepted ==
    ASSUME TypeOK, NEW r \in Requests, requests[r].pc = "post", NEW b, requests[r].bet = b,
           NEW taken \in 0..requests[r].n, NEW live \in BOOLEAN,
           Accept(requests[r], taken, live)
    PROVE  /\ b \in Bets /\ posted \in Nat /\ posted' = posted + 1 /\ posted' \in 0..MaxOrders
           /\ clob' \in [1..posted' -> Order]
           /\ \A o \in Orders : o \in 1..posted' /\ clob'[o] = clob[o] /\ o # posted + 1
           /\ \A o \in 1..posted' : o \in Orders \/ o = posted + 1
           /\ posted + 1 \in 1..posted' /\ posted + 1 \in OrderId
           /\ clob'[posted + 1].bet = b /\ clob'[posted + 1].live = live
           /\ clob'[posted + 1].made = 0 /\ clob'[posted + 1].taken = taken
           /\ clob'[posted + 1].size = requests[r].n
           /\ sold' \in [Bets -> Nat] /\ sold'[b] = sold[b] + taken
           /\ \A c \in Bets : c # b => sold'[c] = sold[c]
<1>1. requests[r] \in Posting /\ b \in Bets /\ requests[r].n \in 1..Shares
  BY RequestIs DEF Idle
<1>2. posted \in Nat /\ MaxOrders \in Nat /\ posted' = posted + 1 /\ posted < MaxOrders
  BY CloseAssumption DEF TypeOK, Accept
<1>3. /\ posted' \in 0..MaxOrders /\ posted + 1 \in 1..posted' /\ posted + 1 \in OrderId
      /\ \A o \in Orders : o \in 1..posted' /\ o # posted + 1 /\ o <= posted
      /\ \A o \in 1..posted' : o \in Orders \/ (o = posted + 1 /\ ~(o <= posted))
  BY <1>2 DEF Orders, OrderId
<1> DEFINE new == [bet |-> b, limit |-> requests[r].limit, size |-> requests[r].n,
                   live |-> live, made |-> 0, taken |-> taken]
<1>4. new \in Order
  <2>1. requests[r].limit \in BOOLEAN /\ taken \in 0..Shares /\ 0 \in 0..Shares
    BY <1>1, CloseAssumption DEF Posting
  <2> QED BY <1>1, <2>1 DEF Order
<1>5. clob' = [o \in 1..(posted + 1) |-> IF o <= posted THEN clob[o] ELSE new]
  BY DEF Accept
<1>6. clob \in [Orders -> Order]
  BY DEF TypeOK, Orders
<1> HIDE DEF new
<1>7. /\ clob' \in [1..posted' -> Order] /\ clob'[posted + 1] = new
      /\ \A o \in Orders : clob'[o] = clob[o]
  BY <1>2, <1>3, <1>4, <1>5, <1>6
<1>8. /\ new.bet = b /\ new.live = live /\ new.made = 0 /\ new.taken = taken
      /\ new.size = requests[r].n
  BY DEF new
<1>9. /\ sold' \in [Bets -> Nat] /\ sold'[b] = sold[b] + taken
      /\ \A c \in Bets : c # b => sold'[c] = sold[c]
  <2>1. sold \in [Bets -> Nat] /\ taken \in Nat /\ sold' = [sold EXCEPT ![b] = @ + taken]
    BY <1>1 DEF TypeOK, Accept
  <2> QED BY <1>1, <2>1
<1> QED BY <1>1, <1>2, <1>3, <1>7, <1>8, <1>9

\* An answer to a request, or none: what it says of the order is true.
AnswerTo(r, x, o, taken) ==
    \/ x = Idle
    \/ /\ x \in Answered /\ x.pc = "response" /\ x.bet = requests[r].bet
       /\ x.order = o \/ (x.order = NoOrder /\ (x.limit \/ x.fill # Unknown))
       /\ x.fill # Unknown => x.fill = taken

\* What an accepted order took when posted its bet has sold.
LEMMA AcceptKeeps ==
    ASSUME Inv, NEW r \in Requests, requests[r].pc = "post",
           NEW taken \in 0..requests[r].n, NEW live \in BOOLEAN,
           Accept(requests[r], taken, live),
           NEW x \in RequestState, AnswerTo(r, x, posted + 1, taken),
           requests' = [requests EXCEPT ![r] = x],
           UNCHANGED <<durable, memory, restarts, hearsay>>
    PROVE  Inv'
<1>0. TypeOK /\ OrdersKnown /\ FillsSold /\ AnswersSold /\ SoldTruthful
  BY DEF Inv
<1>1. PICK b \in Bets : requests[r].bet = b
  BY <1>0, RequestIs DEF Idle
<1>2. /\ posted \in Nat /\ posted' = posted + 1 /\ posted' \in 0..MaxOrders
      /\ clob' \in [1..posted' -> Order]
      /\ \A o \in Orders : o \in 1..posted' /\ clob'[o] = clob[o] /\ o # posted + 1
      /\ \A o \in 1..posted' : o \in Orders \/ o = posted + 1
      /\ posted + 1 \in 1..posted' /\ posted + 1 \in OrderId
      /\ clob'[posted + 1].bet = b /\ clob'[posted + 1].live = live
      /\ clob'[posted + 1].made = 0 /\ clob'[posted + 1].taken = taken
      /\ clob'[posted + 1].size = requests[r].n
      /\ sold' \in [Bets -> Nat] /\ sold'[b] = sold[b] + taken
      /\ \A c \in Bets : c # b => sold'[c] = sold[c]
  BY <1>0, <1>1, Accepted
<1>3. PICK new \in 1..posted' : new = posted + 1
  BY <1>2
<1>4. /\ requests' \in [Requests -> RequestState] /\ requests'[r] = x
      /\ \A s \in Requests : s # r => requests'[s] = requests[s]
  BY <1>0, RequestMoves
<1>5. requests[r].n \in 1..Shares /\ taken \in Nat /\ taken <= requests[r].n
  BY <1>0, RequestIs DEF Idle
<1>6. \A c \in Bets : sold[c] \in Nat /\ sold'[c] \in Nat /\ sold[c] <= sold'[c]
  <2> SUFFICES ASSUME NEW c \in Bets
               PROVE  sold[c] \in Nat /\ sold'[c] \in Nat /\ sold[c] <= sold'[c]
    OBVIOUS
  <2>1. sold[c] \in Nat
    BY <1>0 DEF TypeOK
  <2> QED BY <1>2, <1>5, <2>1
<1>7. OrdersKnown'
  <2>1. tracked' = tracked /\ rows' = rows
    BY DEF durable, memory
  <2>2. ASSUME NEW s \in Requests, requests'[s].pc \in {"response", "confirm"}
        PROVE  \/ /\ requests'[s].order \in 1..posted'
                  /\ clob'[requests'[s].order].bet = requests'[s].bet
               \/ /\ requests'[s].order = NoOrder /\ requests'[s].pc = "response"
                  /\ requests'[s].limit \/ requests'[s].fill # Unknown
    <3>1. CASE s = r
      BY <1>1, <1>2, <1>4, <2>2, <3>1 DEF AnswerTo, Idle
    <3>2. CASE s # r
      BY <1>0, <1>2, <1>4, <2>2, <3>2 DEF OrdersKnown
    <3> QED BY <3>1, <3>2
  <2> QED BY <1>0, <1>2, <2>1, <2>2 DEF OrdersKnown, Orders
<1>8. FillsSold'
  <2> SUFFICES ASSUME NEW o \in 1..posted'
               PROVE  /\ clob'[o].made + clob'[o].taken <= clob'[o].size
                      /\ clob'[o].made + clob'[o].taken <= sold'[clob'[o].bet]
    BY DEF FillsSold, Orders, Filled
  <2>1. CASE o = new
    <3>1. sold[b] \in Nat /\ 0 + taken = taken
      BY <1>5, <1>6
    <3> QED BY <1>2, <1>3, <1>5, <2>1, <3>1
  <2>2. CASE o \in Orders
    <3>1. clob'[o] = clob[o] /\ clob[o].bet \in Bets /\ Filled(o) \in Nat
      BY <1>0, <1>2, <2>2, OrderIs
    <3>2. Filled(o) <= clob[o].size /\ Filled(o) <= sold[clob[o].bet]
      BY <1>0, <2>2 DEF FillsSold
    <3>3. Filled(o) <= sold'[clob[o].bet]
      BY <1>6, <3>1, <3>2
    <3> QED BY <3>1, <3>2, <3>3 DEF Filled
  <2> QED BY <1>2, <1>3, <2>1, <2>2
<1>9. AnswersSold'
  <2> SUFFICES ASSUME NEW s \in Requests, requests'[s].pc = "response", requests'[s].fill # Unknown
               PROVE  requests'[s].fill <= sold'[requests'[s].bet]
    BY DEF AnswersSold
  <2>1. CASE s = r
    <3>1. x.fill = taken /\ x.bet = b
      BY <1>1, <1>4, <2>1 DEF AnswerTo, Idle
    <3>2. sold[b] \in Nat /\ sold'[b] = sold[b] + taken
      BY <1>2, <1>6
    <3> QED BY <1>4, <1>5, <2>1, <3>1, <3>2
  <2>2. CASE s # r
    <3>1. requests'[s] = requests[s]
      BY <1>4, <2>2
    <3>2. requests[s] \in Answered /\ requests[s].bet \in Bets /\ requests[s].fill \in Nat
      BY <1>0, <3>1, RequestIs, CloseAssumption DEF Answered
    <3>3. requests[s].fill <= sold[requests[s].bet]
      BY <1>0, <3>1 DEF AnswersSold
    <3> QED BY <1>6, <3>1, <3>2, <3>3
  <2> QED BY <2>1, <2>2
<1>10. SoldTruthful'
  BY <1>0, <1>6, SoldMore DEF durable
<1>11. TypeOK'
  BY <1>0, <1>2, <1>4 DEF TypeOK, RequestState, durable, memory, Accept
<1> QED BY <1>7, <1>8, <1>9, <1>10, <1>11 DEF Inv

\* A request that goes on without a POST: what it says of its order stays true.
LEMMA GoesOn ==
    ASSUME Inv, UNCHANGED <<clob, posted, sold>>,
           NEW r \in Requests, requests[r] # Idle, NEW x \in RequestState,
           requests' = [requests EXCEPT ![r] = x],
           \/ x = Idle
           \/ /\ x \in Answered /\ x.bet = requests[r].bet
              /\ \/ x.order \in Orders /\ clob[x.order].bet = x.bet
                 \/ x.order = NoOrder /\ x.pc = "response" /\ (x.limit \/ x.fill # Unknown)
              /\ x.pc = "response" /\ x.fill # Unknown => x.fill = 0,
           tracked' \subseteq Orders,
           \A b \in Bets : rows'[b] # NoOrder => rows'[b] \in Orders
    PROVE  /\ requests' \in [Requests -> RequestState]
           /\ OrdersKnown' /\ FillsSold' /\ AnswersSold'
<1>0. TypeOK /\ OrdersKnown /\ FillsSold /\ AnswersSold
  BY DEF Inv
<1>1. /\ requests' \in [Requests -> RequestState] /\ requests'[r] = x
      /\ \A s \in Requests : s # r => requests'[s] = requests[s]
  BY <1>0, RequestMoves
<1>2. OrdersKnown'
  <2>1. ASSUME NEW s \in Requests, requests'[s].pc \in {"response", "confirm"}
        PROVE  \/ requests'[s].order \in Orders /\ clob[requests'[s].order].bet = requests'[s].bet
               \/ /\ requests'[s].order = NoOrder /\ requests'[s].pc = "response"
                  /\ requests'[s].limit \/ requests'[s].fill # Unknown
    <3>1. CASE s = r
      BY <1>1, <2>1, <3>1 DEF Idle
    <3>2. CASE s # r
      BY <1>0, <1>1, <2>1, <3>2 DEF OrdersKnown
    <3> QED BY <3>1, <3>2
  <2> QED BY <2>1 DEF OrdersKnown, Orders
<1>3. AnswersSold'
  <2> SUFFICES ASSUME NEW s \in Requests, requests'[s].pc = "response", requests'[s].fill # Unknown
               PROVE  requests'[s].fill <= sold[requests'[s].bet]
    BY DEF AnswersSold
  <2>1. CASE s = r
    <3>1. x.fill = 0 /\ x.bet \in Bets
      BY <1>1, <2>1 DEF Idle, Answered
    <3>2. sold[x.bet] \in Nat
      BY <1>0, <3>1 DEF TypeOK
    <3> QED BY <1>1, <2>1, <3>1, <3>2
  <2>2. CASE s # r
    BY <1>0, <1>1, <2>2 DEF AnswersSold
  <2> QED BY <2>1, <2>2
<1>4. FillsSold'
  BY <1>0, FillsSame
<1> QED BY <1>1, <1>2, <1>3, <1>4

\* The POST of a SELL: rejected, accepted, or accepted without an answer.
LEMMA PostSellKeeps ==
    ASSUME Inv, NEW r \in Requests, PostSell(r)
    PROVE  Inv'
<1>0. TypeOK /\ OrdersKnown /\ SoldTruthful
  BY DEF Inv
<1> DEFINE req == requests[r]
<1>1. req.pc = "post" /\ req \in Posting /\ req # Idle
  BY <1>0, RequestIs DEF PostSell, Idle
<1>2. UNCHANGED <<durable, memory, restarts, hearsay>>
  BY DEF PostSell
<1>3. ASSUME NEW o \in OrderId \cup {NoOrder}, NEW fill \in 0..Shares \cup {Unknown}
      PROVE  /\ Responded("response", req, o, fill) \in Answered
             /\ Responded("response", req, o, fill).pc = "response"
             /\ Responded("response", req, o, fill).bet = req.bet
             /\ Responded("response", req, o, fill).limit = req.limit
             /\ Responded("response", req, o, fill).order = o
             /\ Responded("response", req, o, fill).fill = fill
  BY <1>1 DEF Responded, Answered, Posting
<1>4. ASSUME NEW x \in RequestState, requests' = [requests EXCEPT ![r] = x], UNCHANGED outside,
             \/ x = Idle
             \/ /\ x \in Answered /\ x.bet = req.bet /\ x.order = NoOrder
                /\ x.pc = "response" /\ x.fill = 0
      PROVE  Inv'
  <2>1. tracked' \subseteq Orders /\ \A b \in Bets : rows'[b] # NoOrder => rows'[b] \in Orders
    BY <1>0, <1>2 DEF OrdersKnown, durable, memory
  <2>2. x.fill = 0 => x.fill # Unknown
    BY DEF Unknown
  <2>3. /\ requests' \in [Requests -> RequestState]
        /\ OrdersKnown' /\ FillsSold' /\ AnswersSold'
    BY <1>1, <1>2, <1>4, <2>1, <2>2, GoesOn DEF outside
  <2>4. TypeOK' /\ SoldTruthful'
    BY <1>0, <1>2, <1>4, <2>3
       DEF TypeOK, RequestState, SoldTruthful, durable, memory, outside
  <2> QED BY <2>3, <2>4 DEF Inv
<1>5. ASSUME NEW f \in 0..req.n, NEW live \in BOOLEAN, Accept(req, f, live),
             NEW x \in RequestState, requests' = [requests EXCEPT ![r] = x],
             AnswerTo(r, x, posted + 1, f)
      PROVE  Inv'
  BY <1>1, <1>2, <1>5, AcceptKeeps
<1>6. Idle \in RequestState /\ Answered \subseteq RequestState
  BY DEF RequestState
<1>7. 0 \in 0..Shares /\ 0..req.n \subseteq 0..Shares /\ 0 \in 0..req.n
  BY <1>1, CloseAssumption DEF Posting
<1>8. CASE requests' = [requests EXCEPT ![r] = Idle] /\ UNCHANGED outside
  BY <1>4, <1>6, <1>8
<1>9. CASE /\ requests' = [requests EXCEPT ![r] = Responded("response", req, NoOrder, 0)]
           /\ UNCHANGED outside
  <2>1. PICK x \in Answered : x = Responded("response", req, NoOrder, 0)
    BY <1>3, <1>7
  <2>2. x.pc = "response" /\ x.bet = req.bet /\ x.order = NoOrder /\ x.fill = 0
    BY <1>3, <1>7, <2>1
  <2> QED BY <1>4, <1>6, <1>9, <2>1, <2>2
<1>10. ASSUME NEW f \in 0..req.n, NEW live \in BOOLEAN, Accept(req, f, live),
              NEW o \in {posted + 1, NoOrder}, NEW fill \in {f, Unknown},
              o = NoOrder => req.limit \/ fill # Unknown,
              requests' = [requests EXCEPT ![r] = Responded("response", req, o, fill)]
       PROVE  Inv'
  <2>1. o \in OrderId \cup {NoOrder} /\ fill \in 0..Shares \cup {Unknown}
    <3>1. posted + 1 \in OrderId
      BY <1>0, <1>10, CloseAssumption DEF Accept, TypeOK, OrderId
    <3> QED BY <1>7, <3>1
  <2>2. PICK x \in Answered : x = Responded("response", req, o, fill)
    BY <1>3, <2>1
  <2>3. /\ x.pc = "response" /\ x.bet = req.bet /\ x.limit = req.limit
        /\ x.order = o /\ x.fill = fill
    BY <1>3, <2>1, <2>2
  <2>4. AnswerTo(r, x, posted + 1, f)
    BY <1>10, <2>3 DEF AnswerTo
  <2> QED BY <1>5, <1>6, <1>10, <2>2, <2>4
<1>11. ASSUME NEW f \in 0..req.n, Accept(req, f, req.limit /\ f < req.n),
              \/ requests' = [requests EXCEPT ![r] =
                    Responded("response", req, posted + 1, IF req.limit THEN Unknown ELSE f)]
              \/ requests' = [requests EXCEPT ![r] =
                    Responded("response", req, NoOrder, IF req.limit THEN Unknown ELSE f)]
              \/ requests' = [requests EXCEPT ![r] = Idle]
       PROVE  Inv'
  <2>1. PICK fill \in {f, Unknown} : fill = IF req.limit THEN Unknown ELSE f
    OBVIOUS
  <2>2. PICK live \in BOOLEAN : live = (req.limit /\ f < req.n)
    BY <1>1 DEF Posting
  <2>3. Accept(req, f, live)
    BY <1>11, <2>2
  <2>4. f # Unknown /\ (fill = Unknown => req.limit)
    <3>1. f \in Nat /\ Unknown \notin Nat
      BY DEF Unknown
    <3> QED BY <2>1, <3>1
  <2>5. CASE requests' = [requests EXCEPT ![r] = Idle]
    BY <1>5, <1>6, <2>3, <2>5 DEF AnswerTo
  <2> QED BY <1>10, <1>11, <2>1, <2>3, <2>4, <2>5
<1>12. CASE /\ Accept(req, 0, TRUE)
            /\ requests' = [requests EXCEPT ![r] = Responded("response", req, posted + 1, Unknown)]
  <2>1. posted + 1 # NoOrder
    BY <1>0 DEF TypeOK, NoOrder
  <2> QED BY <1>7, <1>10, <1>12, <2>1
<1> QED BY <1>8, <1>9, <1>11, <1>12 DEF PostSell

\* An attestation is stored while the orders stay as they are.
LEMMA AttestsTruly ==
    ASSUME TypeOK, SoldTruthful, UNCHANGED <<sold, hearsay>>, NEW b \in Bets, NEW n \in 0..Shares,
           \/ attestSoldAmount(b, n) /\ Backed(n, sold[b])
           \/ UNCHANGED soldRow
    PROVE  soldRow' \in [Bets -> 0..Shares] /\ SoldTruthful'
<1>1. CASE attestSoldAmount(b, n) /\ Backed(n, sold[b])
  BY <1>1, AttestKeeps
<1>2. CASE UNCHANGED soldRow
  BY <1>2 DEF TypeOK, SoldTruthful
<1> QED BY <1>1, <1>2

\* The market SELL after its answer: a known fill is attested.
LEMMA MarketSellKeeps ==
    ASSUME Inv, NEW r \in Requests, submitMarketSellOrder(r)
    PROVE  Inv'
<1>0. TypeOK /\ OrdersKnown /\ AnswersSold /\ SoldTruthful
  BY DEF Inv
<1> DEFINE req == requests[r]
<1>1. /\ req \in Answered /\ req # Idle /\ req.bet \in Bets /\ req.n \in 1..Shares
      /\ req.pc = "response" /\ ~req.limit
  BY <1>0, RequestIs DEF submitMarketSellOrder, Idle, Answered
<1>2. UNCHANGED <<rows, tracked, finalized, clob, posted, resolved, sold, restarts, hearsay>>
  BY DEF submitMarketSellOrder, memory, outside
<1>3. tracked' \subseteq Orders /\ \A b \in Bets : rows'[b] # NoOrder => rows'[b] \in Orders
  BY <1>0, <1>2 DEF OrdersKnown
<1>4. \E n \in 0..Shares : \/ attestSoldAmount(req.bet, n) /\ Backed(n, sold[req.bet])
                           \/ UNCHANGED soldRow
  <2>1. CASE req.fill # Unknown /\ attestSoldAmount(req.bet, soldAmount(req.n, req.fill))
    <3>1. req.fill \in 0..Shares /\ req.fill <= sold[req.bet] /\ sold[req.bet] \in Nat
      BY <1>0, <1>1, <2>1 DEF Answered, AnswersSold, TypeOK
    <3>2. /\ soldAmount(req.n, req.fill) \in 0..Shares
          /\ soldAmount(req.n, req.fill) <= req.fill + Dust
      BY <1>1, <3>1, SoldAmountBound
    <3>3. Backed(soldAmount(req.n, req.fill), sold[req.bet])
      BY <3>1, <3>2, CloseAssumption DEF Backed
    <3> QED BY <2>1, <3>2, <3>3
  <2>2. CASE UNCHANGED soldRow
    <3>1. 0 \in 0..Shares
      BY CloseAssumption
    <3> QED BY <2>2, <3>1
  <2> QED BY <2>1, <2>2 DEF submitMarketSellOrder
<1>5. soldRow' \in [Bets -> 0..Shares] /\ SoldTruthful'
  BY <1>0, <1>1, <1>2, <1>4, AttestsTruly
<1>6. /\ requests' \in [Requests -> RequestState]
      /\ OrdersKnown' /\ FillsSold' /\ AnswersSold'
  <2>1. CASE requests' = [requests EXCEPT ![r] = Idle]
    <3>1. Idle \in RequestState
      BY DEF RequestState
    <3> QED BY <1>1, <1>2, <1>3, <2>1, <3>1, GoesOn
  <2>2. CASE /\ req.fill = Unknown
             /\ requests' = [requests EXCEPT ![r] = Responded("confirm", req, req.order, Unknown)]
    <3>1. PICK x \in Answered : x = Responded("confirm", req, req.order, Unknown)
      BY <1>1 DEF Responded, Answered
    <3>2. /\ x.pc = "confirm" /\ x.bet = req.bet /\ x.order = req.order /\ x.fill = Unknown
          /\ x \in RequestState
      BY <3>1 DEF Responded, RequestState
    <3>3. x.order \in Orders /\ clob[x.order].bet = x.bet
      BY <1>0, <1>1, <2>2, <3>2 DEF OrdersKnown
    <3> QED BY <1>1, <1>2, <1>3, <2>2, <3>1, <3>2, <3>3, GoesOn
  <2> QED BY <2>1, <2>2 DEF submitMarketSellOrder
<1>7. TypeOK'
  BY <1>0, <1>2, <1>5, <1>6 DEF TypeOK, RequestState
<1> QED BY <1>5, <1>6, <1>7 DEF Inv

\* The confirmation attests the size only when the size was sold, within Tolerance.
LEMMA ConfirmSellKeeps ==
    ASSUME Inv, NEW r \in Requests, confirmSellFilled(r)
    PROVE  Inv'
<1>0. TypeOK /\ OrdersKnown /\ FillsSold /\ SoldTruthful
  BY DEF Inv
<1> DEFINE req == requests[r]
<1>1. /\ req \in Answered /\ req # Idle /\ req.bet \in Bets /\ req.n \in 1..Shares
      /\ req.pc = "confirm"
  BY <1>0, RequestIs DEF confirmSellFilled, Idle, Answered
<1>2. /\ UNCHANGED <<rows, tracked, finalized, clob, posted, resolved, sold, restarts,
                     hearsay>>
      /\ requests' = [requests EXCEPT ![r] = Idle]
  BY DEF confirmSellFilled, memory, outside
<1>3. req.order \in Orders /\ clob[req.order].bet = req.bet
  BY <1>0, <1>1 DEF OrdersKnown
<1>4. \/ attestSoldAmount(req.bet, req.n) /\ Backed(req.n, sold[req.bet])
      \/ UNCHANGED soldRow
  <2>1. CASE Filled(req.order) + Tolerance >= req.n /\ attestSoldAmount(req.bet, req.n)
    <3>1. /\ Filled(req.order) <= sold[req.bet] /\ sold[req.bet] \in Nat
          /\ Filled(req.order) \in Nat
      BY <1>0, <1>1, <1>3, OrderIs DEF FillsSold, TypeOK
    <3>2. req.n <= sold[req.bet] + Tolerance
      BY <1>1, <2>1, <3>1, CloseAssumption
    <3> QED BY <2>1, <3>2 DEF Backed
  <2> QED BY <2>1 DEF confirmSellFilled
<1>5. soldRow' \in [Bets -> 0..Shares] /\ SoldTruthful'
  <2>1. req.n \in 0..Shares
    BY <1>1
  <2> QED BY <1>0, <1>1, <1>2, <1>4, <2>1, AttestsTruly
<1>6. /\ requests' \in [Requests -> RequestState]
      /\ OrdersKnown' /\ FillsSold' /\ AnswersSold'
  <2>1. tracked' \subseteq Orders /\ \A b \in Bets : rows'[b] # NoOrder => rows'[b] \in Orders
    BY <1>0, <1>2 DEF OrdersKnown
  <2>2. Idle \in RequestState
    BY DEF RequestState
  <2> QED BY <1>1, <1>2, <2>1, <2>2, GoesOn
<1>7. TypeOK'
  BY <1>0, <1>2, <1>5, <1>6 DEF TypeOK, RequestState
<1> QED BY <1>5, <1>6, <1>7 DEF Inv

\* The limit SELL after its answer: the order is tracked, or dropped.
LEMMA LimitSellKeeps ==
    ASSUME Inv, NEW r \in Requests, submitLimitSellOrder(r)
    PROVE  Inv'
<1>0. TypeOK /\ OrdersKnown /\ SoldTruthful
  BY DEF Inv
<1> DEFINE req == requests[r]
<1>1. req \in Answered /\ req # Idle /\ req.bet \in Bets /\ req.pc = "response"
  BY <1>0, RequestIs DEF submitLimitSellOrder, Idle, Answered
<1>2. /\ UNCHANGED <<soldRow, finalized, clob, posted, resolved, sold, restarts, hearsay>>
      /\ requests' = [requests EXCEPT ![r] = Idle]
  BY DEF submitLimitSellOrder, outside
<1>3. /\ tracked' \subseteq Orders /\ \A b \in Bets : rows'[b] # NoOrder => rows'[b] \in Orders
      /\ tracked' \subseteq OrderId /\ rows' \in [Bets -> OrderId \cup {NoOrder}]
  <2>1. CASE UNCHANGED <<tracked, rows>>
    BY <1>0, <2>1 DEF OrdersKnown, TypeOK
  <2>2. CASE /\ req.order # NoOrder /\ tracked' = tracked \cup {req.order}
             /\ rows' = [rows EXCEPT ![req.bet] = req.order]
    <3>1. req.order \in Orders /\ req.order \in OrderId
      BY <1>0, <1>1, <2>2, OrderIs DEF OrdersKnown
    <3>2. rows \in [Bets -> OrderId \cup {NoOrder}] /\ tracked \subseteq OrderId
      BY <1>0 DEF TypeOK
    <3>3. \A b \in Bets : rows'[b] = rows[b] \/ rows'[b] = req.order
      BY <1>1, <2>2, <3>2
    <3> QED BY <1>0, <1>1, <2>2, <3>1, <3>2, <3>3 DEF OrdersKnown
  <2> QED BY <2>1, <2>2 DEF submitLimitSellOrder, trackOrder
<1>4. /\ requests' \in [Requests -> RequestState]
      /\ OrdersKnown' /\ FillsSold' /\ AnswersSold'
  <2>1. Idle \in RequestState
    BY DEF RequestState
  <2> QED BY <1>1, <1>2, <1>3, <2>1, GoesOn
<1>5. TypeOK' /\ SoldTruthful'
  BY <1>0, <1>2, <1>3, <1>4 DEF TypeOK, RequestState, SoldTruthful
<1> QED BY <1>4, <1>5 DEF Inv

-----------------------------------------------------------------------------
(* The fill tracker, the operator's script, the CLOB and restarts.         *)

\* The end of a tracked order attests what it sold, or less, or is hearsay.
LEMMA FinalizeKeeps ==
    ASSUME Inv, NEW o \in tracked, NEW fill \in 0..Shares, finalizeSell(o, fill),
           \/ fill <= Filled(o) /\ UNCHANGED hearsay
           \/ hearsay' = hearsay \cup {clob[o].bet},
           UNCHANGED <<requests, outside, restarts>>
    PROVE  Inv'
<1>0. TypeOK /\ OrdersKnown /\ FillsSold /\ AnswersSold /\ SoldTruthful
  BY DEF Inv
<1>1. o \in Orders
  BY <1>0 DEF OrdersKnown
<1>2. PICK b \in Bets, size \in 1..Shares : b = clob[o].bet /\ size = clob[o].size
  BY <1>0, <1>1, OrderIs
<1>3. UNCHANGED <<clob, posted, sold, resolved>>
  BY DEF outside
<1>4. /\ finalized' = finalized \cup {b} /\ tracked' = tracked \ {o}
      /\ rows' = [rows EXCEPT ![b] = NoOrder]
      /\ attestSoldAmount(b, soldAmount(size, fill))
  BY <1>2 DEF finalizeSell
<1>5. /\ hearsay' \subseteq Bets /\ hearsay \subseteq hearsay'
      /\ fill <= Filled(o) \/ b \in hearsay'
  BY <1>0, <1>2 DEF TypeOK
<1>6. soldRow' \in [Bets -> 0..Shares] /\ SoldTruthful'
  <2>1. /\ soldAmount(size, fill) \in 0..Shares /\ soldAmount(size, fill) <= fill + Dust
    BY SoldAmountBound
  <2>2. Filled(o) <= sold[b] /\ Filled(o) \in Nat /\ sold[b] \in Nat
    BY <1>0, <1>1, <1>2, OrderIs DEF FillsSold, TypeOK
  <2>3. b \in hearsay' \/ Backed(soldAmount(size, fill), sold[b])
    BY <1>5, <2>1, <2>2, CloseAssumption DEF Backed
  <2> QED BY <1>0, <1>3, <1>4, <1>5, <2>1, <2>3, AttestKeeps
<1>7. /\ rows \in [Bets -> OrderId \cup {NoOrder}]
      /\ rows' \in [Bets -> OrderId \cup {NoOrder}]
      /\ \A c \in Bets : rows'[c] = rows[c] \/ rows'[c] = NoOrder
  BY <1>0, <1>4 DEF TypeOK
<1>8. OrdersKnown' /\ AnswersSold' /\ FillsSold'
  BY <1>0, <1>3, <1>4, <1>7, FillsSame DEF OrdersKnown, AnswersSold, Orders
<1>9. TypeOK'
  BY <1>0, <1>3, <1>4, <1>5, <1>6, <1>7 DEF TypeOK
<1> QED BY <1>6, <1>8, <1>9 DEF Inv

\* What the tracker ends is a fill the order had, or none.
LEMMA TrackerKeeps ==
    ASSUME Inv, NEW o, trackerEnds(o)
    PROVE  Inv'
<1>0. TypeOK /\ OrdersKnown /\ FillsSold
  BY DEF Inv
<1>1. o \in tracked /\ o \in Orders
  BY <1>0 DEF trackerEnds, OrdersKnown
<1>2. /\ clob[o].made \in Nat /\ clob[o].taken \in Nat /\ clob[o].size \in 1..Shares
      /\ Filled(o) <= clob[o].size
  BY <1>0, <1>1, OrderIs DEF FillsSold
<1>3. /\ Filled(o) \in 0..Shares /\ Filled(o) <= Filled(o)
      /\ clob[o].made \in 0..Shares /\ clob[o].made <= Filled(o)
  BY <1>2, CloseAssumption DEF Filled
<1>4. finalizeSell(o, Filled(o)) \/ finalizeSell(o, clob[o].made)
  BY DEF trackerEnds
<1>5. UNCHANGED <<requests, outside, restarts, hearsay>>
  BY DEF trackerEnds
<1> QED BY <1>1, <1>3, <1>4, <1>5, FinalizeKeeps

\* What the message of another order says is hearsay.
LEMMA FindTrackedKeeps ==
    ASSUME Inv, NEW o, NEW fill \in 0..Shares, findTracked(o, fill)
    PROVE  Inv'
<1>1. /\ o \in tracked /\ finalizeSell(o, fill) /\ hearsay' = hearsay \cup {clob[o].bet}
      /\ UNCHANGED <<requests, outside, restarts>>
  BY DEF findTracked
<1> QED BY <1>1, FinalizeKeeps

\* The cancellation of a resolved market's order is a zero fill, and attests nothing.
LEMMA CancelOrdersKeeps ==
    ASSUME Inv, NEW b \in Bets, cancelOrdersForMarket(b)
    PROVE  Inv'
<1>0. TypeOK /\ OrdersKnown
  BY DEF Inv
<1>1. PICK o \in tracked : finalizeSell(o, 0)
  BY DEF cancelOrdersForMarket
<1>2. Filled(o) \in Nat
  BY <1>0, OrderIs DEF OrdersKnown
<1>3. 0 \in 0..Shares /\ 0 <= Filled(o)
  BY <1>2, CloseAssumption
<1>4. UNCHANGED <<requests, outside, restarts, hearsay>>
  BY DEF cancelOrdersForMarket
<1> QED BY <1>1, <1>3, <1>4, FinalizeKeeps

\* What the operator attests is hearsay.
LEMMA AttestSoldKeeps ==
    ASSUME Inv, NEW b \in Bets, attestSold(b)
    PROVE  Inv'
<1>0. TypeOK /\ OrdersKnown /\ FillsSold /\ AnswersSold /\ SoldTruthful
  BY DEF Inv
<1>1. /\ UNCHANGED <<rows, tracked, finalized, requests, clob, posted, resolved, sold, restarts>>
      /\ soldRow' = [soldRow EXCEPT ![b] = Shares] /\ hearsay' = hearsay \cup {b}
  BY DEF attestSold, memory, outside
<1>2. soldRow \in [Bets -> 0..Shares] /\ Shares \in 0..Shares
  BY <1>0, CloseAssumption DEF TypeOK
<1>3. soldRow' \in [Bets -> 0..Shares] /\ \A c \in Bets : c # b => soldRow'[c] = soldRow[c]
  BY <1>1, <1>2
<1>4. SoldTruthful'
  BY <1>0, <1>1, <1>3 DEF SoldTruthful
<1>5. OrdersKnown' /\ AnswersSold' /\ FillsSold'
  BY <1>0, <1>1, FillsSame DEF OrdersKnown, AnswersSold, Orders
<1>6. TypeOK'
  BY <1>0, <1>1, <1>3 DEF TypeOK
<1> QED BY <1>4, <1>5, <1>6 DEF Inv

\* What a live order sells more its bet has sold more.
LEMMA FillSellKeeps ==
    ASSUME Inv, NEW o \in OrderId, FillSell(o)
    PROVE  Inv'
<1>0. TypeOK /\ OrdersKnown /\ FillsSold /\ AnswersSold /\ SoldTruthful
  BY DEF Inv
<1>1. o \in Orders /\ clob[o].live /\ Filled(o) < clob[o].size
  BY DEF FillSell, Orders
<1>2. PICK b \in Bets : b = clob[o].bet
  BY <1>0, <1>1, OrderIs
<1>3. UNCHANGED <<soldRow, rows, tracked, finalized, requests, posted, resolved,
                  restarts, hearsay>>
  BY DEF FillSell, durable, memory
<1>4. /\ clob[o] \in Order /\ clob[o].size \in 1..Shares /\ clob[o].limit \in BOOLEAN
      /\ clob[o].made \in Nat /\ clob[o].taken \in Nat
  BY <1>0, <1>1, OrderIs
<1>5. clob \in [Orders -> Order]
  BY <1>0 DEF TypeOK, Orders
<1>6. PICK new \in Order : /\ clob' = [clob EXCEPT ![o] = new]
                           /\ new.bet = b /\ new.size = clob[o].size
                           /\ new.made + new.taken = Filled(o) + 1
  <2> DEFINE made == IF clob[o].limit THEN clob[o].made + 1 ELSE clob[o].made
             taken == IF clob[o].limit THEN clob[o].taken ELSE clob[o].taken + 1
             live == Filled(o) + 1 < clob[o].size
             n == [clob[o] EXCEPT !.made = made, !.taken = taken, !.live = live]
  <2>1. Shares \in Nat /\ clob[o].made + clob[o].taken < clob[o].size
    BY <1>1, CloseAssumption DEF Filled
  <2>2. made \in 0..Shares /\ taken \in 0..Shares /\ made + taken = Filled(o) + 1
    BY <1>4, <2>1 DEF Filled
  <2>3. live \in BOOLEAN
    OBVIOUS
  <2>4. clob' = [clob EXCEPT ![o] = n]
    BY <1>1, <1>5 DEF FillSell
  <2> HIDE DEF made, taken, live
  <2>5. n \in Order
    BY <1>4, <2>2, <2>3 DEF Order
  <2>6. n.bet = b /\ n.size = clob[o].size /\ n.made = made /\ n.taken = taken
    BY <1>2, <1>4 DEF Order
  <2> QED BY <2>2, <2>4, <2>5, <2>6
<1>7. /\ clob' \in [1..posted' -> Order] /\ clob'[o] = new
      /\ \A p \in Orders : p # o => clob'[p] = clob[p]
      /\ \A p \in Orders : clob'[p].bet = clob[p].bet
  BY <1>1, <1>2, <1>3, <1>5, <1>6 DEF Orders
<1>8. sold \in [Bets -> Nat] /\ sold' = [sold EXCEPT ![b] = @ + 1]
  BY <1>0, <1>2 DEF TypeOK, FillSell
<1>9. /\ sold' \in [Bets -> Nat] /\ sold'[b] = sold[b] + 1
      /\ \A c \in Bets : c # b => sold'[c] = sold[c]
      /\ \A c \in Bets : sold[c] \in Nat /\ sold'[c] \in Nat /\ sold[c] <= sold'[c]
  BY <1>8
<1>10. OrdersKnown'
  BY <1>0, <1>3, <1>7 DEF OrdersKnown, Orders
<1>11. FillsSold'
  <2> SUFFICES ASSUME NEW p \in Orders
               PROVE  /\ clob'[p].made + clob'[p].taken <= clob'[p].size
                      /\ clob'[p].made + clob'[p].taken <= sold'[clob'[p].bet]
    BY <1>3 DEF FillsSold, Orders, Filled
  <2>1. Filled(p) <= clob[p].size /\ Filled(p) <= sold[clob[p].bet]
    BY <1>0 DEF FillsSold
  <2>2. Filled(p) \in Nat /\ clob[p].bet \in Bets
    BY <1>0, OrderIs
  <2>3. CASE p = o
    <3>1. Filled(o) + 1 <= clob[o].size /\ Filled(o) + 1 <= sold'[b]
      BY <1>1, <1>2, <1>4, <1>9, <2>1, <2>2, <2>3
    <3> QED BY <1>6, <1>7, <2>3, <3>1
  <2>4. CASE p # o
    <3>1. clob'[p] = clob[p] /\ Filled(p) <= sold'[clob[p].bet]
      BY <1>7, <1>9, <2>1, <2>2, <2>4
    <3> QED BY <2>1, <3>1 DEF Filled
  <2> QED BY <2>3, <2>4
<1>12. AnswersSold'
  <2> SUFFICES ASSUME NEW s \in Requests, requests[s].pc = "response", requests[s].fill # Unknown
               PROVE  requests[s].fill <= sold'[requests[s].bet]
    BY <1>3 DEF AnswersSold
  <2>1. requests[s].bet \in Bets /\ requests[s].fill \in Nat
    BY <1>0, RequestIs, CloseAssumption DEF Answered
  <2>2. requests[s].fill <= sold[requests[s].bet]
    BY <1>0 DEF AnswersSold
  <2> QED BY <1>9, <2>1, <2>2
<1>13. SoldTruthful'
  BY <1>0, <1>3, <1>9, SoldMore
<1>14. TypeOK'
  BY <1>0, <1>3, <1>7, <1>9 DEF TypeOK
<1> QED BY <1>10, <1>11, <1>12, <1>13, <1>14 DEF Inv

\* Orders that end without selling more keep the invariant.
LEMMA OrdersEnd ==
    ASSUME Inv, clob' \in [1..posted -> Order],
           \A o \in Orders : /\ clob'[o].bet = clob[o].bet /\ clob'[o].size = clob[o].size
                             /\ clob'[o].made = clob[o].made /\ clob'[o].taken = clob[o].taken
                             /\ clob'[o].live => clob[o].live,
           resolved' \subseteq Bets,
           UNCHANGED <<durable, memory, requests, posted, sold, restarts, hearsay>>
    PROVE  Inv'
<1>0. TypeOK /\ OrdersKnown /\ FillsSold /\ AnswersSold /\ SoldTruthful
  BY DEF Inv
<1>1. UNCHANGED <<soldRow, rows, tracked, finalized, requests, posted, sold,
                  restarts, hearsay>>
  BY DEF durable, memory
<1>2. OrdersKnown'
  BY <1>0, <1>1 DEF OrdersKnown, Orders
<1>3. FillsSold'
  BY <1>0, <1>1 DEF FillsSold, Orders, Filled
<1>4. AnswersSold' /\ SoldTruthful'
  BY <1>0, <1>1 DEF AnswersSold, SoldTruthful
<1>5. TypeOK'
  BY <1>0, <1>1 DEF TypeOK
<1> QED BY <1>2, <1>3, <1>4, <1>5 DEF Inv

\* An order that expires or is killed sold what it sold.
LEMMA ExpireKeeps ==
    ASSUME Inv, NEW o, Expire(o)
    PROVE  Inv'
<1>1. TypeOK /\ o \in Orders
  BY DEF Inv, Expire, Orders
<1>2. clob \in [1..posted -> Order] /\ \A p \in Orders : clob[p] \in Order
  BY <1>1 DEF TypeOK, Orders
<1>3. PICK end \in Order : /\ clob' = [clob EXCEPT ![o] = end] /\ ~end.live
                           /\ end.bet = clob[o].bet /\ end.size = clob[o].size
                           /\ end.made = clob[o].made /\ end.taken = clob[o].taken
  <2>1. [clob[o] EXCEPT !.live = FALSE] \in Order
    BY <1>1, <1>2 DEF Order
  <2>2. clob' = [clob EXCEPT ![o] = [clob[o] EXCEPT !.live = FALSE]]
    BY <1>1, <1>2 DEF Expire
  <2> QED BY <1>1, <1>2, <2>1, <2>2 DEF Order
<1>4. clob' \in [1..posted -> Order]
  BY <1>2, <1>3
<1>5. \A p \in Orders : clob'[p] = IF p = o THEN end ELSE clob[p]
  BY <1>2, <1>3 DEF Orders
<1>6. \A p \in Orders : /\ clob'[p].bet = clob[p].bet /\ clob'[p].size = clob[p].size
                        /\ clob'[p].made = clob[p].made /\ clob'[p].taken = clob[p].taken
                        /\ clob'[p].live => clob[p].live
  BY <1>3, <1>5
<1>7. /\ UNCHANGED <<durable, memory, requests, posted, sold, restarts, hearsay>>
      /\ resolved' \subseteq Bets
  BY <1>1 DEF Expire, TypeOK
<1> QED BY <1>4, <1>6, <1>7, OrdersEnd

\* So did the orders of a market that resolves.
LEMMA ResolveKeeps ==
    ASSUME Inv, NEW b \in Bets, Resolve(b)
    PROVE  Inv'
<1>1. TypeOK
  BY DEF Inv
<1>2. clob \in [1..posted -> Order] /\ DOMAIN clob = 1..posted
  BY <1>1 DEF TypeOK
<1> DEFINE end(p) == IF clob[p].bet = b THEN [clob[p] EXCEPT !.live = FALSE] ELSE clob[p]
<1>3. \A p \in 1..posted :
         /\ end(p) \in Order /\ end(p).bet = clob[p].bet /\ end(p).size = clob[p].size
         /\ end(p).made = clob[p].made /\ end(p).taken = clob[p].taken
         /\ end(p).live => clob[p].live
  BY <1>2 DEF Order
<1>4. clob' = [p \in 1..posted |-> end(p)]
  BY <1>2 DEF Resolve
<1>5. clob' \in [1..posted -> Order] /\ \A p \in Orders : clob'[p] = end(p) /\ p \in 1..posted
  BY <1>3, <1>4 DEF Orders
<1>6. \A p \in Orders : /\ clob'[p].bet = clob[p].bet /\ clob'[p].size = clob[p].size
                        /\ clob'[p].made = clob[p].made /\ clob'[p].taken = clob[p].taken
                        /\ clob'[p].live => clob[p].live
  BY <1>3, <1>5
<1>7. /\ UNCHANGED <<durable, memory, requests, posted, sold, restarts, hearsay>>
      /\ resolved' \subseteq Bets
  BY <1>1 DEF Resolve, TypeOK
<1> QED BY <1>5, <1>6, <1>7, OrdersEnd

\* A restart loses the requests, and tracks again what the rows hold.
LEMMA RestartKeeps ==
    ASSUME Inv, Restart
    PROVE  Inv'
<1>0. TypeOK /\ OrdersKnown /\ FillsSold /\ AnswersSold /\ SoldTruthful
  BY DEF Inv
<1>1. /\ UNCHANGED <<soldRow, clob, posted, resolved, sold, hearsay>>
      /\ restarts' = restarts + 1 /\ restarts < MaxRestarts
      /\ \A o \in tracked' : \E b \in Bets : o = rows[b] /\ rows[b] # NoOrder
      /\ finalized' \subseteq Bets
      /\ rows' = [b \in Bets |-> IF soldRow[b] > 0 THEN NoOrder ELSE rows[b]]
      /\ requests' = [r \in Requests |-> Idle]
  BY DEF Restart, outside
<1>2. rows' \in [Bets -> OrderId \cup {NoOrder}] /\ \A b \in Bets : rows'[b] \in {rows[b], NoOrder}
  BY <1>0, <1>1 DEF TypeOK
<1>3. tracked' \subseteq Orders /\ Orders \subseteq OrderId
  BY <1>0, <1>1, OrderIs DEF OrdersKnown
<1>4. requests' \in [Requests -> RequestState] /\ \A r \in Requests : requests'[r] = Idle
  BY <1>1 DEF RequestState
<1>5. OrdersKnown' /\ AnswersSold' /\ SoldTruthful' /\ FillsSold'
  <2>1. OrdersKnown'
    BY <1>0, <1>1, <1>2, <1>3, <1>4 DEF OrdersKnown, Orders, Idle
  <2>2. AnswersSold'
    BY <1>4 DEF AnswersSold, Idle
  <2> QED BY <1>0, <1>1, <2>1, <2>2, FillsSame DEF SoldTruthful
<1>6. restarts' \in 0..MaxRestarts
  BY <1>0, <1>1, CloseAssumption DEF TypeOK
<1>7. TypeOK'
  BY <1>0, <1>1, <1>2, <1>3, <1>4, <1>6 DEF TypeOK, RequestState
<1> QED BY <1>5, <1>7 DEF Inv

-----------------------------------------------------------------------------
(* The theorems.                                                           *)

\* Nothing has been asked for or sold at the start.
LEMMA InitInv == Init => Inv
<1> SUFFICES ASSUME Init PROVE Inv
  OBVIOUS
<1>1. /\ soldRow = [b \in Bets |-> 0] /\ rows = [b \in Bets |-> NoOrder]
      /\ tracked = {} /\ finalized = BoughtOnLimit /\ resolved = {}
      /\ hearsay = {} /\ requests = [r \in Requests |-> Idle] /\ posted = 0
      /\ restarts = 0 /\ sold = [b \in Bets |-> 0] /\ clob = [o \in 1..0 |-> Idle]
  BY DEF Init
<1>2. Orders = {} /\ 1..0 = {}
  BY <1>1 DEF Orders
<1>3. clob \in [1..posted -> Order]
  BY <1>1, <1>2
<1>4. 0 \in 0..Shares /\ 0 \in 0..MaxOrders /\ 0 \in 0..MaxRestarts /\ Backed(0, 0)
  BY CloseAssumption DEF Backed
<1>5. TypeOK
  BY <1>1, <1>3, <1>4, CloseAssumption DEF TypeOK
<1>6. OrdersKnown /\ FillsSold /\ AnswersSold /\ SoldTruthful
  BY <1>1, <1>2, <1>4 DEF OrdersKnown, FillsSold, AnswersSold, SoldTruthful, Idle
<1> QED BY <1>5, <1>6 DEF Inv

\* Every step of the service, of the CLOB and of the operator keeps the invariant.
LEMMA NextInv == Inv /\ [Next]_vars => Inv'
<1> SUFFICES ASSUME Inv, [Next]_vars PROVE Inv'
  OBVIOUS
<1>1. CASE \E r \in Requests : PostSell(r)
  BY <1>1, PostSellKeeps
<1>2. CASE \E r \in Requests : submitMarketSellOrder(r)
  BY <1>2, MarketSellKeeps
<1>3. CASE \E r \in Requests : confirmSellFilled(r)
  BY <1>3, ConfirmSellKeeps
<1>4. CASE \E r \in Requests : submitLimitSellOrder(r)
  BY <1>4, LimitSellKeeps
<1>5. CASE \E r \in Requests, b \in Bets, limit \in BOOLEAN, n \in 1..Shares :
              closeRequest(r, b, limit, n)
  BY <1>5, CloseRequestKeeps
<1>6. CASE \E o \in OrderId : trackerEnds(o)
  BY <1>6, TrackerKeeps
<1>7. CASE \E o \in OrderId : FillSell(o)
  BY <1>7, FillSellKeeps
<1>8. CASE \E o \in OrderId : Expire(o)
  BY <1>8, ExpireKeeps
<1>9. CASE \E b \in Bets : cancelOrdersForMarket(b)
  BY <1>9, CancelOrdersKeeps
<1>10. CASE \E b \in Bets : attestSold(b)
  BY <1>10, AttestSoldKeeps
<1>11. CASE \E b \in Bets : Resolve(b)
  BY <1>11, ResolveKeeps
<1>12. CASE Restart
  BY <1>12, RestartKeeps
<1>13. CASE \E o \in OrderId, fill \in 0..Shares : findTracked(o, fill)
  BY <1>13, FindTrackedKeeps
<1>14. CASE UNCHANGED vars
  <2>1. UNCHANGED <<soldRow, rows, tracked, finalized, requests, clob, posted,
                    resolved, sold, restarts, hearsay>>
    BY <1>14 DEF vars, durable, memory, outside
  <2>2. TypeOK' /\ OrdersKnown' /\ AnswersSold' /\ SoldTruthful' /\ FillsSold'
    BY <2>1, FillsSame
       DEF Inv, TypeOK, OrdersKnown, AnswersSold, SoldTruthful, Orders
  <2> QED BY <2>2 DEF Inv
<1> QED BY <1>1, <1>2, <1>3, <1>4, <1>5, <1>6, <1>7, <1>8, <1>9, <1>10, <1>11, <1>12, <1>13, <1>14
        DEF Next

\* The variables keep their types: requests are at a step of the sale with what that
\* step holds, and the CLOB's orders are numbered without a gap.
THEOREM TypeCorrect == Spec => []TypeOK
<1>1. Inv => TypeOK
  BY DEF Inv
<1> QED BY InitInv, NextInv, <1>1, PTL DEF Spec

\* What the market path, the limit path or the fill tracker attests as sold was sold,
\* within the path's tolerance, whatever answers are lost, closes overlap or processes
\* restart.  Of a row that rests on the operator's word (attestSold.ts) or on another
\* order's message (findTracked) it says nothing.
THEOREM AttestationsTruthful == Spec => []SoldTruthful
<1>1. Inv => SoldTruthful
  BY DEF Inv
<1> QED BY InitInv, NextInv, <1>1, PTL DEF Spec

==============================================================================
