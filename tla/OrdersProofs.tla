---------------------------- MODULE OrdersProofs ----------------------------
(***************************************************************************)
(* Theorems about the order life cycle, for every number of bets, requests *)
(* and orders: type correctness; every attested share was bought, through  *)
(* every number of restarts and under every fault but one (Inv); every     *)
(* step is one of the abstract Outcomes.  Until the process restarts: the  *)
(* CLOB gets one order per bet (OnceInv); a marker without an order id     *)
(* stands for none (MarkedInv); an outcome is the truth (TruthInv).        *)
(***************************************************************************)
EXTENDS Orders, TLAPS

\* Whatever refers to an order refers to one the CLOB has accepted, and whatever
\* is attested for a bet on the strength of an order refers to an order of the bet.
OrdersKnown ==
    /\ tracked \subseteq 1..posted
    /\ \A b \in Bets : rows[b] # NoOrder => rows[b] \in 1..posted
    /\ \A b \in Bets : submissions[b].order # NoOrder =>
          submissions[b].order \in 1..posted /\ clob[submissions[b].order].bet = b
    /\ \A c \in Cancels : cancels[c].pc \in {"cancel", "confirm"} =>
          cancels[c].order \in 1..posted
    /\ \A c \in Cancels : cancels[c].pc = "reconcile" /\ cancels[c].order # NoOrder =>
          cancels[c].order \in 1..posted /\ clob[cancels[c].order].bet = cancels[c].bet

\* A fill the CLOB reports was bought, and no order fills beyond its size.
FillsBought ==
    \A o \in 1..posted : /\ clob[o].made + clob[o].taken <= bought[clob[o].bet]
                         /\ clob[o].made + clob[o].taken <= Shares

\* So was the fill the listener holds between the POST and the attestation.
ResponseBought ==
    listener.pc = "response" =>
        /\ listener.fill # Unknown => listener.fill <= bought[listener.bet]
        /\ listener.order # NoOrder =>
              listener.order \in 1..posted /\ clob[listener.order].bet = listener.bet

\* Every row is backed; a message for another bet of the same token can break that.
RowsBacked ==
    \A b \in Bets : "sharedToken" \in Faults \/ Backed(attestations[b], bought[b])

Inv ==
    /\ TypeOK
    /\ OrdersKnown
    /\ FillsBought
    /\ ResponseBought
    /\ RowsBacked

-----------------------------------------------------------------------------
\* The outcome attestTerminal reads off a fill is backed by the fill.
LEMMA ClassifyBacked ==
    ASSUME NEW fill \in 0..Shares, NEW n \in Nat, fill <= n
    PROVE  Classify(fill) \in Row /\ Backed(Classify(fill), n)
BY OrdersAssumption DEF Classify, Row, Backed

\* A FAILED row needs no backing.
LEMMA FailedBacked ==
    ASSUME NEW n \in Nat
    PROVE  FailedRow \in Row /\ Backed(FailedRow, n)
BY OrdersAssumption DEF FailedRow, Row, Backed

\* Storing a backed row keeps every stored row backed.
LEMMA StoreBacked ==
    ASSUME DurableOK, RowsBacked, NEW b \in Bets, NEW row \in Row,
           "sharedToken" \in Faults \/ Backed(row, bought[b]), signAndStoreAttestation(b, row), bought' = bought
    PROVE  attestations' \in [Bets -> Row] /\ RowsBacked'
<1>1. CASE attestations' = [attestations EXCEPT ![b] = IF @ = NoRow THEN row ELSE @]
  <2>1. attestations' \in [Bets -> Row]
    BY <1>1 DEF DurableOK
  <2>2. ASSUME NEW x \in Bets PROVE "sharedToken" \in Faults \/ Backed(attestations'[x], bought'[x])
    <3>1. CASE x = b
      <4>1. attestations'[b] = IF attestations[b] = NoRow THEN row ELSE attestations[b]
        BY <1>1 DEF DurableOK
      <4> QED BY <3>1, <4>1 DEF RowsBacked
    <3>2. CASE x # b
      <4>1. attestations'[x] = attestations[x]
        BY <1>1, <3>2 DEF DurableOK
      <4> QED BY <4>1 DEF RowsBacked
    <3> QED BY <3>1, <3>2
  <2> QED BY <2>1, <2>2 DEF RowsBacked
<1>2. CASE UNCHANGED attestations
  BY <1>2 DEF DurableOK, RowsBacked
<1> QED BY <1>1, <1>2 DEF signAndStoreAttestation

\* finalize attests what the order filled, or less when the trades show less.
LEMMA FinalizeBacked ==
    ASSUME DurableOK, MemoryOK, OutsideOK, RowsBacked, NEW o \in 1..posted, NEW fill \in 0..Shares,
           "sharedToken" \in Faults \/ fill <= bought[clob[o].bet], finalize(o, fill), bought' = bought
    PROVE  /\ attestations' \in [Bets -> Row] /\ RowsBacked'
           /\ finalized' \subseteq Bets
           /\ tracked' \subseteq tracked
           /\ rows' \in [Bets -> OrderId \cup {NoOrder}]
           /\ \A b \in Bets : rows'[b] \in {rows[b], NoOrder}
<1> DEFINE b == clob[o].bet
<1>1. b \in Bets /\ bought[b] \in Nat
  BY DEF OutsideOK, Order
<1>2. Classify(fill) \in Row /\ ("sharedToken" \in Faults \/ Backed(Classify(fill), bought[b]))
  <2>1. Classify(fill) \in Row
    BY OrdersAssumption DEF Classify, Row
  <2> QED BY <1>1, <2>1, ClassifyBacked
<1>3. attestations' \in [Bets -> Row] /\ RowsBacked'
  BY <1>1, <1>2, StoreBacked DEF finalize
<1>4. /\ finalized' \subseteq Bets
      /\ tracked' \subseteq tracked
      /\ rows' \in [Bets -> OrderId \cup {NoOrder}]
      /\ \A x \in Bets : rows'[x] \in {rows[x], NoOrder}
  BY <1>1 DEF finalize, DurableOK, MemoryOK
<1> QED BY <1>3, <1>4

\* The initial state has no order, no row and no attestation.
LEMMA InitInv == Init => Inv
<1> SUFFICES ASSUME Init PROVE Inv
  OBVIOUS
<1> USE OrdersAssumption
<1>1. TypeOK
  BY DEF Init, TypeOK, DurableOK, MemoryOK, ListenerOK, CancelsOK, OutsideOK, Submission, NoSubmission, Row, NoRow, NoOrder, Idle, OrderId, Order
<1>2. OrdersKnown
  BY DEF Init, OrdersKnown, NoSubmission, NoOrder, Idle
<1>3. FillsBought /\ ResponseBought
  BY DEF Init, FillsBought, ResponseBought, Idle
<1>4. RowsBacked
  BY DEF Init, RowsBacked, Backed, NoRow
<1> QED BY <1>1, <1>2, <1>3, <1>4 DEF Inv

\* Starting on a bet changes nothing but the listener.
LEMMA HandleInv ==
    ASSUME Inv, NEW b \in Bets, handleBetRecord(b)
    PROVE  Inv'
<1> USE DEF Inv, handleBetRecord, At, durable, memory, outside
<1>1. TypeOK'
  BY DEF TypeOK, DurableOK, MemoryOK, ListenerOK, ListenerPC, CancelsOK, OutsideOK
<1>2. OrdersKnown' /\ FillsBought' /\ RowsBacked'
  BY DEF OrdersKnown, FillsBought, RowsBacked
<1>3. ResponseBought'
  BY DEF ResponseBought
<1> QED BY <1>1, <1>2, <1>3

\* Taking up a bet may attest FAILED.
LEMMA ProcessInv ==
    ASSUME Inv, NEW b \in Bets, processBetEvent(b)
    PROVE  Inv'
<1> USE DEF Inv, processBetEvent, At, outside
<1>1. attestations' \in [Bets -> Row] /\ RowsBacked'
  <2>1. CASE signAndStoreAttestation(b, FailedRow)
    <3>1. bought[b] \in Nat /\ bought' = bought
      BY DEF TypeOK, OutsideOK
    <3> QED BY <2>1, <3>1, FailedBacked, StoreBacked DEF TypeOK
  <2>2. CASE UNCHANGED attestations
    BY <2>2 DEF TypeOK, DurableOK, RowsBacked
  <2> QED BY <2>1, <2>2
<1>2. listener' \in {Idle, At("fund", b)}
  OBVIOUS
<1>3. TypeOK'
  <2>1. DurableOK' /\ OutsideOK' /\ CancelsOK' /\ restarts' \in 0..MaxRestarts
    BY <1>1 DEF TypeOK, DurableOK, CancelsOK, OutsideOK
  <2>2. ListenerOK'
    BY <1>2 DEF ListenerOK, ListenerPC
  <2>3. MemoryOK' /\ started' \subseteq Bets
    BY DEF TypeOK, MemoryOK
  <2> QED BY <2>1, <2>2, <2>3 DEF TypeOK
<1>4. OrdersKnown' /\ FillsBought'
  BY DEF OrdersKnown, FillsBought
<1>5. ResponseBought'
  BY <1>2 DEF ResponseBought, Idle
<1> QED BY <1>1, <1>3, <1>4, <1>5

\* A bet that cannot be funded is attested FAILED.
LEMMA FundInv ==
    ASSUME Inv, NEW b \in Bets, Fund(b)
    PROVE  Inv'
<1> USE DEF Inv, Fund, At, memory, outside
<1>1. attestations' \in [Bets -> Row] /\ RowsBacked'
  <2>1. CASE signAndStoreAttestation(b, FailedRow)
    <3>1. bought[b] \in Nat /\ bought' = bought
      BY DEF TypeOK, OutsideOK
    <3> QED BY <2>1, <3>1, FailedBacked, StoreBacked DEF TypeOK
  <2>2. CASE UNCHANGED attestations
    BY <2>2 DEF TypeOK, DurableOK, RowsBacked
  <2> QED BY <2>1, <2>2
<1>2. listener' \in {Idle, At("post", b), At("mark", b)}
  OBVIOUS
<1>3. TypeOK'
  BY <1>1, <1>2 DEF TypeOK, DurableOK, MemoryOK, ListenerOK, ListenerPC, CancelsOK, OutsideOK
<1>4. OrdersKnown' /\ FillsBought'
  BY DEF OrdersKnown, FillsBought
<1>5. ResponseBought'
  BY <1>2 DEF ResponseBought, Idle
<1> QED BY <1>1, <1>3, <1>4, <1>5

\* The marker carries no order id.
LEMMA MarkInv ==
    ASSUME Inv, NEW b \in Bets, markMarketSubmitting(b)
    PROVE  Inv'
<1> USE DEF Inv, markMarketSubmitting, At, memory, outside
<1>1. /\ submissions' \in [Bets -> Submission]
      /\ \A x \in Bets : submissions'[x].order = submissions[x].order
  BY DEF TypeOK, DurableOK, Submission, NoSubmission
<1>2. TypeOK'
  BY <1>1 DEF TypeOK, DurableOK, MemoryOK, ListenerOK, ListenerPC, CancelsOK, OutsideOK
<1>3. OrdersKnown' /\ FillsBought' /\ RowsBacked'
  BY <1>1 DEF OrdersKnown, FillsBought, RowsBacked
<1>4. ResponseBought'
  BY DEF ResponseBought
<1> QED BY <1>2, <1>3, <1>4

\* New orders and new fills leave what refers to an order intact.
LEMMA KnownGrows ==
    ASSUME OrdersKnown, posted \in Nat, posted' \in Nat, posted <= posted',
           \A o \in 1..posted : clob'[o].bet = clob[o].bet,
           UNCHANGED <<submissions, rows, tracked, cancels>>
    PROVE  OrdersKnown'
BY DEF OrdersKnown

\* An accepted order is new and what it filled at once was bought.
LEMMA AcceptInv ==
    ASSUME TypeOK, FillsBought, NEW b \in Bets, NEW made \in 0..Shares,
           NEW taken \in 0..Shares, NEW live \in BOOLEAN, Accept(b, made, taken, live),
           made + taken <= Shares
    PROVE  /\ OutsideOK' /\ FillsBought'
           /\ posted' = posted + 1
           /\ \A o \in 1..posted : clob'[o] = clob[o]
           /\ clob'[posted + 1].bet = b
           /\ \A x \in Bets : bought'[x] >= bought[x]
           /\ bought'[b] >= made + taken
<1> USE OrdersAssumption DEF Accept
<1> DEFINE new == [bet |-> b, live |-> live, made |-> made, taken |-> taken]
<1>1. posted \in Nat /\ posted' = posted + 1 /\ posted' \in 0..MaxOrders
  BY DEF TypeOK, OutsideOK
<1>2. new \in Order
  BY DEF Order
<1>3. /\ \A o \in 1..posted : clob'[o] = clob[o]
      /\ clob'[posted + 1] = new
      /\ clob' \in [1..posted' -> Order]
  BY <1>1, <1>2 DEF TypeOK, OutsideOK
<1>4. /\ bought' \in [Bets -> Nat]
      /\ \A x \in Bets : bought'[x] >= bought[x]
      /\ bought'[b] >= made + taken
  BY DEF TypeOK, OutsideOK
<1>5. OutsideOK'
  BY <1>1, <1>3, <1>4 DEF TypeOK, OutsideOK
<1>6. ASSUME NEW o \in 1..posted'
      PROVE  /\ clob'[o].made + clob'[o].taken <= bought'[clob'[o].bet]
             /\ clob'[o].made + clob'[o].taken <= Shares
  <2>1. CASE o \in 1..posted
    <3>1. clob[o] \in Order /\ bought \in [Bets -> Nat]
      BY <2>1 DEF TypeOK, OutsideOK
    <3> QED BY <2>1, <3>1, <1>3, <1>4 DEF FillsBought, Order
  <2>2. CASE o = posted + 1
    BY <2>2, <1>3, <1>4
  <2> QED BY <2>1, <2>2, <1>1
<1> QED BY <1>1, <1>3, <1>4, <1>5, <1>6 DEF FillsBought

\* The answer to the POST tells no more than was bought.
LEMMA PostInv ==
    ASSUME Inv, NEW b \in Bets, Post(b)
    PROVE  Inv'
<1> USE OrdersAssumption DEF Inv
<1>0. UNCHANGED <<durable, memory, cancels, restarts, started>>
  BY DEF Post
<1>1. CASE UNCHANGED outside
  <2>1. listener' \in {Idle, Responded(b, NoOrder, 0), Responded(b, NoOrder, Unknown)}
    BY <1>1 DEF Post, outside, Accept, TypeOK, OutsideOK
  <2>2. TypeOK'
    BY <1>0, <1>1, <2>1 DEF durable, memory, outside, TypeOK, DurableOK, MemoryOK,
        ListenerOK, CancelsOK, OutsideOK, Responded, OrderId, NoOrder, Unknown
  <2>3. OrdersKnown' /\ FillsBought' /\ RowsBacked'
    BY <1>0, <1>1 DEF durable, memory, outside, OrdersKnown, FillsBought, RowsBacked
  <2>4. ResponseBought'
    <3>1. bought'[b] \in Nat
      BY <2>2 DEF TypeOK, OutsideOK
    <3> QED BY <2>1, <3>1 DEF ResponseBought, Responded, Idle, NoOrder, Unknown
  <2> QED BY <2>2, <2>3, <2>4
<1>2. ASSUME NEW made \in 0..Shares, NEW taken \in 0..Shares, NEW live \in BOOLEAN,
             Accept(b, made, taken, live),
             listener' \in {Idle, Responded(b, posted + 1, Unknown),
                            Responded(b, posted + 1, made + taken)},
             made + taken <= Shares
      PROVE  Inv'
  <2>1. /\ OutsideOK' /\ FillsBought'
        /\ posted' = posted + 1
        /\ \A o \in 1..posted : clob'[o] = clob[o]
        /\ clob'[posted + 1].bet = b
        /\ \A x \in Bets : bought'[x] >= bought[x]
        /\ bought'[b] >= made + taken
    BY <1>2, AcceptInv
  <2>2. posted \in Nat /\ posted' \in Nat /\ posted' \in OrderId
    BY <2>1 DEF TypeOK, OutsideOK, OrderId
  <2>3. ListenerOK'
    BY <1>2, <2>1, <2>2 DEF ListenerOK, Responded, Unknown
  <2>4. TypeOK'
    BY <1>0, <2>1, <2>3 DEF durable, memory, TypeOK, DurableOK, MemoryOK, CancelsOK
  <2>5. OrdersKnown'
    BY <1>0, <2>1, <2>2, KnownGrows DEF durable, memory
  <2>6. RowsBacked'
    <3>1. bought \in [Bets -> Nat] /\ bought' \in [Bets -> Nat] /\ attestations \in [Bets -> Row]
      BY <2>1 DEF TypeOK, OutsideOK, DurableOK
    <3> QED BY <1>0, <2>1, <3>1 DEF durable, RowsBacked, Backed, Row
  <2>7. ResponseBought'
    BY <1>2, <2>1, <2>2 DEF ResponseBought, Responded, Idle, Unknown, NoOrder
  <2> QED BY <2>1, <2>4, <2>5, <2>6, <2>7
<1>3. ASSUME NEW f \in 0..Shares, NEW live \in BOOLEAN, Accept(b, 0, f, live),
             listener' \in {Idle, Responded(b, posted + 1, Unknown), Responded(b, posted + 1, f)}
      PROVE  Inv'
  BY <1>2, <1>3
<1>4. CASE \E f \in 0..Shares :
             b \notin Limit /\ Accept(b, 0, f, FALSE) /\ listener' = Responded(b, posted + 1, f)
  BY <1>3, <1>4
<1>5. CASE Accept(b, 0, 0, TRUE) /\ listener' = Responded(b, posted + 1, Unknown)
  <2>1. 0 \in 0..Shares
    OBVIOUS
  <2> QED BY <1>3, <1>5, <2>1, Zenon
<1>6. CASE \E f \in 0..Shares : /\ Accept(b, 0, f, f < Shares)
                                /\ listener' = Responded(b, posted + 1, Unknown)
  <2>1. PICK f \in 0..Shares : /\ Accept(b, 0, f, f < Shares)
                               /\ listener' = Responded(b, posted + 1, Unknown)
    BY <1>6
  <2>2. (f < Shares) \in BOOLEAN
    OBVIOUS
  <2> QED BY <1>3, <2>1, <2>2
<1>7. CASE /\ \/ Accept(b, 0, 0, TRUE)
              \/ \E f \in 0..Shares : Accept(b, 0, f, FALSE)
           /\ listener' = Idle
  <2>1. CASE Accept(b, 0, 0, TRUE)
    <3>1. 0 \in 0..Shares
      OBVIOUS
    <3> QED BY <1>3, <1>7, <2>1, <3>1, Zenon
  <2>2. CASE \E f \in 0..Shares : Accept(b, 0, f, FALSE)
    BY <1>3, <1>7, <2>2, Zenon
  <2> QED BY <1>7, <2>1, <2>2
<1> QED
  BY <1>1, <1>4, <1>5, <1>6, <1>7 DEF Post

\* A market order's answer is stored under its bet and attested as it was read.
LEMMA FAKInv ==
    ASSUME Inv, NEW b \in Bets, submitFAKOrder(b)
    PROVE  Inv'
<1> USE OrdersAssumption DEF Inv
<1>0. /\ UNCHANGED <<rows, memory, cancels, outside, restarts, started>>
      /\ listener' = Idle
      /\ listener.pc = "response" /\ listener.bet = b
  BY DEF submitFAKOrder
<1>1. listener.order \in OrderId \cup {NoOrder} /\ listener.fill \in 0..Shares \cup {Unknown}
  BY <1>0 DEF TypeOK, ListenerOK, ListenerPC, Idle
<1>2. attestations' \in [Bets -> Row] /\ RowsBacked'
  <2>1. CASE listener.fill = Unknown
    BY <1>0, <2>1 DEF submitFAKOrder, TypeOK, DurableOK, RowsBacked, outside
  <2>2. CASE listener.fill # Unknown
    <3>1. /\ listener.fill \in 0..Shares /\ bought[b] \in Nat /\ bought' = bought
          /\ listener.fill <= bought[b]
      BY <1>0, <1>1, <2>2 DEF outside, TypeOK, OutsideOK, ResponseBought
    <3>2. Classify(listener.fill) \in Row /\ Backed(Classify(listener.fill), bought[b])
      BY <3>1, ClassifyBacked
    <3>3. signAndStoreAttestation(b, Classify(listener.fill))
      BY <2>2 DEF submitFAKOrder
    <3> QED BY <3>1, <3>2, <3>3, StoreBacked DEF TypeOK
  <2> QED BY <2>1, <2>2
<1>3. /\ submissions' \in [Bets -> Submission]
      /\ \A x \in Bets :
            \/ submissions'[x].order = submissions[x].order
            \/ (x = b) /\ submissions'[x].order = listener.order
  <2>1. CASE UNCHANGED submissions
    BY <2>1 DEF TypeOK, DurableOK
  <2>2. CASE submissions' = [submissions EXCEPT ![b] = [order |-> listener.order, age |-> @.age]]
    BY <1>1, <2>2 DEF TypeOK, DurableOK, Submission
  <2> QED BY <2>1, <2>2 DEF submitFAKOrder, setMarketOrderId
<1>4. TypeOK'
  BY <1>0, <1>2, <1>3 DEF TypeOK, DurableOK, MemoryOK, ListenerOK, CancelsOK, OutsideOK,
      memory, outside
<1>5. OrdersKnown'
  <2>1. ASSUME NEW x \in Bets, submissions'[x].order # NoOrder
        PROVE  submissions'[x].order \in 1..posted /\ clob[submissions'[x].order].bet = x
    BY <1>0, <1>3, <2>1 DEF OrdersKnown, ResponseBought
  <2> QED BY <1>0, <2>1 DEF OrdersKnown, memory, outside
<1>6. FillsBought' /\ ResponseBought'
  BY <1>0 DEF FillsBought, ResponseBought, Idle, outside
<1> QED BY <1>2, <1>4, <1>5, <1>6

\* A limit order is tracked, or rejected and attested FAILED.
LEMMA LimitInv ==
    ASSUME Inv, NEW b \in Bets, submitLimitOrder(b)
    PROVE  Inv'
<1> USE OrdersAssumption DEF Inv
<1>0. /\ UNCHANGED <<submissions, inFlight, finalized, cancels, outside, restarts, started>>
      /\ listener' = Idle
      /\ listener.pc = "response" /\ listener.bet = b
  BY DEF submitLimitOrder
<1>1. attestations' \in [Bets -> Row] /\ RowsBacked'
  <2>1. CASE signAndStoreAttestation(b, FailedRow)
    <3>1. bought[b] \in Nat /\ bought' = bought
      BY <1>0 DEF TypeOK, OutsideOK, outside
    <3> QED BY <2>1, <3>1, FailedBacked, StoreBacked DEF TypeOK
  <2>2. CASE UNCHANGED attestations
    BY <1>0, <2>2 DEF TypeOK, DurableOK, RowsBacked, outside
  <2> QED BY <2>1, <2>2 DEF submitLimitOrder
<1>2. \/ UNCHANGED <<tracked, rows>>
      \/ /\ listener.order \in OrderId /\ listener.order \in 1..posted
         /\ tracked' = tracked \cup {listener.order}
         /\ rows' = [rows EXCEPT ![b] = listener.order]
  <2>1. listener.order \in OrderId \cup {NoOrder}
    BY <1>0 DEF TypeOK, ListenerOK, ListenerPC, Idle
  <2>2. listener.order # NoOrder => listener.order \in 1..posted
    BY <1>0 DEF ResponseBought
  <2> QED BY <2>1, <2>2 DEF submitLimitOrder, trackOrder
<1>3. TypeOK'
  <2>1. MemoryOK' /\ DurableOK'
    BY <1>0, <1>1, <1>2 DEF TypeOK, DurableOK, MemoryOK
  <2>2. ListenerOK' /\ CancelsOK' /\ OutsideOK'
    BY <1>0 DEF TypeOK, ListenerOK, CancelsOK, OutsideOK, outside
  <2> QED BY <1>0, <2>1, <2>2 DEF TypeOK
<1>4. OrdersKnown'
  <2>1. tracked' \subseteq 1..posted
    BY <1>2 DEF OrdersKnown
  <2>2. \A x \in Bets : rows'[x] # NoOrder => rows'[x] \in 1..posted
    BY <1>2 DEF OrdersKnown, TypeOK, DurableOK
  <2> QED BY <1>0, <2>1, <2>2 DEF OrdersKnown, outside
<1>5. FillsBought' /\ ResponseBought'
  BY <1>0 DEF FillsBought, ResponseBought, Idle, outside
<1> QED BY <1>1, <1>3, <1>4, <1>5

-----------------------------------------------------------------------------
\* Steps of the tracker: they finalize a known order with at most its fill.
LEMMA TrackerInv ==
    ASSUME Inv, NEW o \in 1..posted, NEW fill \in 0..Shares,
           "sharedToken" \in Faults \/ fill <= bought[clob[o].bet], finalize(o, fill), CancelsOK',
           UNCHANGED <<submissions, inFlight, listener, outside, restarts, started>>,
           \A c \in Cancels : cancels'[c] \in {cancels[c], Idle}
    PROVE  Inv'
<1> USE DEF Inv
<1>1. /\ attestations' \in [Bets -> Row] /\ RowsBacked'
      /\ finalized' \subseteq Bets
      /\ tracked' \subseteq tracked
      /\ rows' \in [Bets -> OrderId \cup {NoOrder}]
      /\ \A b \in Bets : rows'[b] \in {rows[b], NoOrder}
  BY FinalizeBacked DEF TypeOK, outside
<1>2. TypeOK'
  <2>1. DurableOK' /\ MemoryOK'
    BY <1>1 DEF TypeOK, DurableOK, MemoryOK
  <2>2. ListenerOK' /\ OutsideOK'
    BY DEF TypeOK, ListenerOK, OutsideOK, outside
  <2> QED BY <2>1, <2>2 DEF TypeOK
<1>3. OrdersKnown'
  BY <1>1 DEF OrdersKnown, outside, Idle, NoOrder
<1>4. FillsBought' /\ ResponseBought'
  BY DEF FillsBought, ResponseBought, outside
<1> QED BY <1>1, <1>2, <1>3, <1>4

\* The fills the CLOB holds for an order are numbers of shares the pool bought.
LEMMA FilledBounds ==
    ASSUME Inv, NEW o \in 1..posted
    PROVE  /\ clob[o].made \in 0..Shares /\ clob[o].made <= bought[clob[o].bet]
           /\ Filled(o) \in 0..Shares /\ Filled(o) <= bought[clob[o].bet]
           /\ 0 \in 0..Shares /\ 0 <= bought[clob[o].bet]
<1>1. clob[o] \in Order /\ bought \in [Bets -> Nat]
  BY DEF Inv, TypeOK, OutsideOK
<1>2. /\ clob[o].made + clob[o].taken <= bought[clob[o].bet]
      /\ clob[o].made + clob[o].taken <= Shares
  BY DEF Inv, FillsBought
<1> QED BY <1>1, <1>2, OrdersAssumption DEF Order, Filled

\* Both ways reconcileOne has of finalizing an order.
LEMMA ReconcileOneInv ==
    ASSUME Inv, NEW o \in OrderId, reconcileOne(o)
    PROVE  Inv'
<1> USE DEF reconcileOne, confirmFillViaTrades
<1>1. o \in 1..posted
  BY DEF Inv, OrdersKnown
<1>2. CancelsOK' /\ \A c \in Cancels : cancels'[c] \in {cancels[c], Idle}
  BY DEF Inv, TypeOK, CancelsOK
<1>3. CASE finalize(o, Filled(o))
  BY <1>1, <1>2, <1>3, FilledBounds, TrackerInv
<1>4. CASE finalize(o, clob[o].made)
  BY <1>1, <1>2, <1>4, FilledBounds, TrackerInv
<1> QED BY <1>3, <1>4

\* The user channel finalizes a tracked order with the fill of the message's order,
\* which is an order of the same bet unless bets share a token.
LEMMA HandleOneInv ==
    ASSUME Inv, NEW o \in OrderId, handleOne(o)
    PROVE  Inv'
<1> USE DEF handleOne
<1>1. PICK t \in findTracked(o) : finalize(t, Filled(o))
  OBVIOUS
<1>2. t \in 1..posted /\ ("sharedToken" \in Faults \/ clob[t].bet = clob[o].bet)
  BY DEF Inv, OrdersKnown, findTracked
<1>3. Filled(o) \in 0..Shares /\ ("sharedToken" \in Faults \/ Filled(o) <= bought[clob[t].bet])
  BY <1>2, FilledBounds
<1>4. CancelsOK' /\ \A c \in Cancels : cancels'[c] \in {cancels[c], Idle}
  BY DEF Inv, TypeOK, CancelsOK
<1> QED BY <1>1, <1>2, <1>3, <1>4, TrackerInv

\* A resolved market's order is finalized with a zero fill.
LEMMA CancelMarketInv ==
    ASSUME Inv, NEW b \in Bets, cancelOrdersForMarket(b)
    PROVE  Inv'
<1> USE DEF cancelOrdersForMarket
<1>1. PICK o \in tracked : finalize(o, 0)
  OBVIOUS
<1>2. o \in 1..posted
  BY DEF Inv, OrdersKnown
<1>3. CancelsOK' /\ \A c \in Cancels : cancels'[c] \in {cancels[c], Idle}
  BY DEF Inv, TypeOK, CancelsOK
<1> QED BY <1>1, <1>2, <1>3, FilledBounds, TrackerInv

-----------------------------------------------------------------------------
\* A request remembers the order id of the bet's submission, or attests FAILED
\* where there is none.
LEMMA CancelBetInv ==
    ASSUME Inv, NEW c \in Cancels, NEW b \in Bets, CancelBet(c, b)
    PROVE  Inv'
<1> USE OrdersAssumption DEF Inv
<1>0. UNCHANGED <<submissions, rows, memory, listener, outside, restarts, started>>
  BY DEF CancelBet
<1>1. attestations' \in [Bets -> Row] /\ RowsBacked'
  <2>1. CASE signAndStoreAttestation(b, FailedRow)
    <3>1. bought[b] \in Nat /\ bought' = bought
      BY <1>0 DEF TypeOK, OutsideOK, outside
    <3> QED BY <2>1, <3>1, FailedBacked, StoreBacked DEF TypeOK
  <2>2. CASE UNCHANGED attestations
    BY <1>0, <2>2 DEF TypeOK, DurableOK, RowsBacked, outside
  <2> QED BY <2>1, <2>2 DEF CancelBet
<1>2. \/ cancels' = cancels
      \/ cancels' = [cancels EXCEPT ![c] = Request("client", b, NoOrder)]
      \/ cancels' = [cancels EXCEPT ![c] = Request("reconcile", b, submissions[b].order)]
  BY DEF CancelBet
<1>3. submissions[b].order \in OrderId \cup {NoOrder}
  BY DEF TypeOK, DurableOK, Submission
<1>4. TypeOK'
  <2>1. CancelsOK'
    BY <1>2, <1>3 DEF TypeOK, CancelsOK, CancelPC, Request
  <2>2. DurableOK' /\ MemoryOK' /\ ListenerOK' /\ OutsideOK'
    BY <1>0, <1>1 DEF TypeOK, DurableOK, MemoryOK, ListenerOK, OutsideOK, memory, outside
  <2> QED BY <1>0, <2>1, <2>2 DEF TypeOK
<1>5. OrdersKnown'
  <2>1. ASSUME NEW x \in Cancels
        PROVE  /\ cancels'[x].pc \in {"cancel", "confirm"} => cancels'[x].order \in 1..posted
               /\ cancels'[x].pc = "reconcile" /\ cancels'[x].order # NoOrder =>
                    /\ cancels'[x].order \in 1..posted
                    /\ clob[cancels'[x].order].bet = cancels'[x].bet
    <3>1. \/ cancels'[x] = cancels[x]
          \/ cancels'[x] = Request("client", b, NoOrder)
          \/ cancels'[x] = Request("reconcile", b, submissions[b].order)
      BY <1>2 DEF TypeOK, CancelsOK
    <3> QED BY <3>1 DEF OrdersKnown, Request
  <2> QED BY <1>0, <2>1 DEF OrdersKnown, memory, outside
<1>6. FillsBought' /\ ResponseBought'
  BY <1>0 DEF FillsBought, ResponseBought, outside
<1> QED BY <1>1, <1>4, <1>5, <1>6

\* A request goes on to cancel an order that is tracked.
LEMMA CancelTrackedInv ==
    ASSUME Inv, NEW c \in Cancels, cancelTrackedOrder(c)
    PROVE  Inv'
<1> USE OrdersAssumption DEF Inv
<1>0. /\ UNCHANGED <<durable, memory, listener, outside, restarts, started>>
      /\ cancels[c].pc = "client"
  BY DEF cancelTrackedOrder
<1>1. cancels[c].bet \in Bets
  BY <1>0 DEF TypeOK, CancelsOK, Idle
<1>2. \/ cancels' = [cancels EXCEPT ![c] = Idle]
      \/ \E o \in tracked : cancels' = [cancels EXCEPT ![c] = Request("cancel", cancels[c].bet, o)]
  BY DEF cancelTrackedOrder
<1>3. PICK new : /\ new = Idle \/ \E o \in tracked : new = Request("cancel", cancels[c].bet, o)
                 /\ cancels' = [cancels EXCEPT ![c] = new]
  BY <1>2
<1>4. new \in {Idle} \cup [pc : CancelPC, bet : Bets, order : OrderId \cup {NoOrder}]
  BY <1>1, <1>3 DEF TypeOK, MemoryOK, Request, CancelPC
<1>5. TypeOK'
  BY <1>0, <1>3, <1>4 DEF TypeOK, DurableOK, MemoryOK, ListenerOK, CancelsOK, OutsideOK,
      durable, memory, outside
<1>6. OrdersKnown'
  <2>1. ASSUME NEW x \in Cancels
        PROVE  /\ cancels'[x].pc \in {"cancel", "confirm"} => cancels'[x].order \in 1..posted
               /\ cancels'[x].pc = "reconcile" /\ cancels'[x].order # NoOrder =>
                    /\ cancels'[x].order \in 1..posted
                    /\ clob[cancels'[x].order].bet = cancels'[x].bet
    <3>1. cancels'[x] \in {cancels[x], new}
      BY <1>3 DEF TypeOK, CancelsOK
    <3>2. new = Idle \/ (new.pc = "cancel" /\ new.order \in 1..posted)
      <4>1. ASSUME NEW o \in tracked, new = Request("cancel", cancels[c].bet, o)
            PROVE  new.pc = "cancel" /\ new.order \in 1..posted
        BY <4>1 DEF OrdersKnown, Request
      <4> QED BY <1>3, <4>1
    <3> QED BY <3>1, <3>2 DEF OrdersKnown, Idle
  <2> QED BY <1>0, <2>1 DEF OrdersKnown, durable, memory, outside
<1>7. FillsBought' /\ ResponseBought' /\ RowsBacked'
  BY <1>0 DEF FillsBought, ResponseBought, RowsBacked, durable, outside
<1> QED BY <1>5, <1>6, <1>7

\* Orders that leave the book keep their bets and their fills.
LEMMA OffBookInv ==
    ASSUME Inv, posted' = posted, bought' = bought, resolved' \subseteq Bets,
           clob' \in [1..posted -> {OffBook(clob[o]) : o \in 1..posted} \cup {clob[o] : o \in 1..posted}],
           \A o \in 1..posted : clob'[o] \in {clob[o], OffBook(clob[o])}
    PROVE  /\ OutsideOK' /\ FillsBought'
           /\ \A o \in 1..posted : clob'[o].bet = clob[o].bet
<1>1. ASSUME NEW o \in 1..posted
      PROVE  /\ clob'[o] \in Order
             /\ clob'[o].bet = clob[o].bet
             /\ clob'[o].made = clob[o].made /\ clob'[o].taken = clob[o].taken
  <2>1. clob[o] \in Order
    BY DEF Inv, TypeOK, OutsideOK
  <2>2. /\ OffBook(clob[o]) \in Order
        /\ OffBook(clob[o]).bet = clob[o].bet
        /\ OffBook(clob[o]).made = clob[o].made /\ OffBook(clob[o]).taken = clob[o].taken
    BY <2>1 DEF OffBook, Order
  <2>3. clob'[o] = clob[o] \/ clob'[o] = OffBook(clob[o])
    OBVIOUS
  <2> QED BY <2>1, <2>2, <2>3
<1>2. clob' \in [1..posted -> Order]
  BY <1>1
<1>3. OutsideOK'
  BY <1>2 DEF Inv, TypeOK, OutsideOK
<1>4. FillsBought'
  BY <1>1 DEF Inv, FillsBought
<1> QED BY <1>1, <1>3, <1>4

\* Cancelling at the CLOB takes the order off the book.
LEMMA CancelAtCLOBInv ==
    ASSUME Inv, NEW c \in Cancels, CancelAtCLOB(c)
    PROVE  Inv'
<1> USE OrdersAssumption DEF Inv
<1>0. /\ UNCHANGED <<durable, memory, listener, posted, resolved, bought, restarts, started>>
      /\ cancels[c].pc = "cancel"
      /\ cancels' = [cancels EXCEPT ![c] = Request("confirm", @.bet, @.order)]
  BY DEF CancelAtCLOB
<1>1. /\ cancels[c].order \in 1..posted
      /\ cancels[c] \in [pc : CancelPC, bet : Bets, order : OrderId \cup {NoOrder}]
  BY <1>0 DEF OrdersKnown, TypeOK, CancelsOK, Idle
<1>2. /\ OutsideOK' /\ FillsBought'
      /\ \A o \in 1..posted : clob'[o].bet = clob[o].bet
  <2>1. CASE UNCHANGED clob
    BY <1>0, <2>1 DEF TypeOK, OutsideOK, FillsBought
  <2>2. CASE clob' = [clob EXCEPT ![cancels[c].order] = OffBook(@)]
    <3>1. \A o \in 1..posted : clob'[o] \in {clob[o], OffBook(clob[o])}
      BY <2>2 DEF TypeOK, OutsideOK
    <3>2. clob' \in [1..posted -> {OffBook(clob[o]) : o \in 1..posted} \cup {clob[o] : o \in 1..posted}]
      BY <1>1, <2>2 DEF TypeOK, OutsideOK
    <3> QED BY <1>0, <3>1, <3>2, OffBookInv DEF TypeOK, OutsideOK
  <2> QED BY <2>1, <2>2 DEF CancelAtCLOB
<1>3. TypeOK'
  <2>1. CancelsOK'
    BY <1>0, <1>1 DEF TypeOK, CancelsOK, CancelPC, Request
  <2>2. DurableOK' /\ MemoryOK' /\ ListenerOK'
    BY <1>0 DEF TypeOK, DurableOK, MemoryOK, ListenerOK, durable, memory
  <2> QED BY <1>0, <1>2, <2>1, <2>2 DEF TypeOK
<1>4. OrdersKnown'
  <2>1. ASSUME NEW x \in Cancels
        PROVE  /\ cancels'[x].pc \in {"cancel", "confirm"} => cancels'[x].order \in 1..posted
               /\ cancels'[x].pc = "reconcile" /\ cancels'[x].order # NoOrder =>
                    /\ cancels'[x].order \in 1..posted
                    /\ clob'[cancels'[x].order].bet = cancels'[x].bet
    <3>1. CASE x = c
      BY <1>0, <1>1, <3>1 DEF TypeOK, CancelsOK, Request
    <3>2. CASE x # c
      BY <1>0, <1>2, <3>2 DEF OrdersKnown, TypeOK, CancelsOK
    <3> QED BY <3>1, <3>2
  <2>2. \A b \in Bets : submissions'[b].order # NoOrder =>
           submissions'[b].order \in 1..posted' /\ clob'[submissions'[b].order].bet = b
    BY <1>0, <1>2 DEF OrdersKnown, durable
  <2>3. tracked' \subseteq 1..posted' /\ \A b \in Bets : rows'[b] # NoOrder => rows'[b] \in 1..posted'
    BY <1>0 DEF OrdersKnown, durable, memory
  <2> QED BY <1>0, <2>1, <2>2, <2>3 DEF OrdersKnown
<1>5. ResponseBought' /\ RowsBacked'
  BY <1>0, <1>2 DEF ResponseBought, RowsBacked, durable
<1> QED BY <1>2, <1>3, <1>4, <1>5

\* The end of a cancellation finalizes with the order's fill or the trades'.
LEMMA ConfirmCancelInv ==
    ASSUME Inv, NEW c \in Cancels, ConfirmCancel(c)
    PROVE  Inv'
<1> DEFINE o == cancels[c].order
<1>0. /\ UNCHANGED <<submissions, inFlight, listener, outside, restarts, started>>
      /\ cancels[c].pc = "confirm"
      /\ cancels' = [cancels EXCEPT ![c] = Idle]
  BY DEF ConfirmCancel, confirmFillViaTrades
<1>1. o \in 1..posted
  BY <1>0 DEF Inv, OrdersKnown
<1>2. CancelsOK' /\ \A x \in Cancels : cancels'[x] \in {cancels[x], Idle}
  BY <1>0 DEF Inv, TypeOK, CancelsOK
<1>3. CASE finalize(o, Filled(o))
  BY <1>0, <1>1, <1>2, <1>3, FilledBounds, TrackerInv
<1>4. CASE finalize(o, clob[o].made)
  BY <1>0, <1>1, <1>2, <1>4, FilledBounds, TrackerInv
<1>5. CASE UNCHANGED <<attestations, tracked, rows, finalized>>
  <2>1. TypeOK'
    BY <1>0, <1>2, <1>5 DEF Inv, TypeOK, DurableOK, MemoryOK, ListenerOK, OutsideOK, outside
  <2>2. OrdersKnown'
    BY <1>0, <1>2, <1>5 DEF Inv, OrdersKnown, outside, Idle
  <2>3. FillsBought' /\ ResponseBought' /\ RowsBacked'
    BY <1>0, <1>5 DEF Inv, FillsBought, ResponseBought, RowsBacked, outside
  <2> QED BY <2>1, <2>2, <2>3 DEF Inv
<1> QED BY <1>3, <1>4, <1>5 DEF ConfirmCancel, confirmFillViaTrades

\* A reconciled market order is attested as the CLOB reports it.
LEMMA ReconcileMarketInv ==
    ASSUME Inv, NEW c \in Cancels, reconcileMarketSubmission(c)
    PROVE  Inv'
<1> DEFINE b == cancels[c].bet
           o == cancels[c].order
<1>0. /\ UNCHANGED <<submissions, rows, memory, listener, outside, restarts, started>>
      /\ cancels[c].pc = "reconcile"
      /\ cancels' = [cancels EXCEPT ![c] = Idle]
  BY DEF reconcileMarketSubmission
<1>1. b \in Bets /\ bought[b] \in Nat /\ bought' = bought
  BY <1>0 DEF Inv, TypeOK, CancelsOK, OutsideOK, Idle, outside
<1>2. attestations' \in [Bets -> Row] /\ RowsBacked'
  <2>1. CASE signAndStoreAttestation(b, FailedRow)
    BY <1>1, <2>1, FailedBacked, StoreBacked DEF Inv, TypeOK
  <2>2. CASE o # NoOrder /\ signAndStoreAttestation(b, Classify(Filled(o)))
    <3>1. o \in 1..posted /\ clob[o].bet = b
      BY <1>0, <2>2 DEF Inv, OrdersKnown
    <3>2. Filled(o) \in 0..Shares /\ Filled(o) <= bought[b]
      BY <3>1, FilledBounds
    <3>3. Classify(Filled(o)) \in Row /\ Backed(Classify(Filled(o)), bought[b])
      BY <1>1, <3>2, ClassifyBacked
    <3> QED BY <1>1, <2>2, <3>3, StoreBacked DEF Inv, TypeOK
  <2>3. CASE UNCHANGED attestations
    BY <1>1, <2>3 DEF Inv, TypeOK, DurableOK, RowsBacked
  <2> QED BY <2>1, <2>2, <2>3 DEF reconcileMarketSubmission
<1>3. CancelsOK' /\ \A x \in Cancels : cancels'[x] \in {cancels[x], Idle}
  BY <1>0 DEF Inv, TypeOK, CancelsOK
<1>4. TypeOK'
  BY <1>0, <1>2, <1>3 DEF Inv, TypeOK, DurableOK, MemoryOK, ListenerOK, OutsideOK, memory, outside
<1>5. OrdersKnown'
  BY <1>0, <1>3 DEF Inv, OrdersKnown, memory, outside, Idle
<1>6. FillsBought' /\ ResponseBought'
  BY <1>0 DEF Inv, FillsBought, ResponseBought, outside
<1> QED BY <1>2, <1>4, <1>5, <1>6 DEF Inv

-----------------------------------------------------------------------------
\* A fill is bought as it happens.
LEMMA FillInv ==
    ASSUME Inv, NEW o \in OrderId, Fill(o)
    PROVE  Inv'
<1> USE OrdersAssumption DEF Inv
<1> DEFINE b == clob[o].bet
<1>0. /\ UNCHANGED <<durable, memory, tasks, posted, resolved, restarts, started>>
      /\ o \in 1..posted /\ Filled(o) < Shares
  BY DEF Fill
<1>1. clob[o] \in Order /\ b \in Bets /\ posted \in Nat
  BY <1>0 DEF TypeOK, OutsideOK, Order
<1>2. /\ bought' \in [Bets -> Nat]
      /\ bought'[b] = bought[b] + 1
      /\ \A x \in Bets : bought'[x] >= bought[x]
  BY <1>1 DEF Fill, TypeOK, OutsideOK
<1>3. /\ clob' \in [1..posted -> Order]
      /\ clob'[o].bet = b /\ clob'[o].made = clob[o].made + 1 /\ clob'[o].taken = clob[o].taken
      /\ \A x \in 1..posted : x # o => clob'[x] = clob[x]
  <2> DEFINE new == [bet |-> b, live |-> Filled(o) + 1 < Shares,
                     made |-> clob[o].made + 1, taken |-> clob[o].taken]
  <2>1. clob' = [clob EXCEPT ![o] = new]
    BY DEF Fill
  <2>2. (Filled(o) + 1 < Shares) \in BOOLEAN
    OBVIOUS
  <2>3. new \in Order
    BY <1>0, <1>1, <2>2 DEF Order, Filled
  <2> HIDE DEF new
  <2>4. /\ clob' \in [1..posted -> Order] /\ clob'[o] = new
        /\ \A x \in 1..posted : x # o => clob'[x] = clob[x]
    BY <1>0, <2>1, <2>3 DEF TypeOK, OutsideOK
  <2> QED BY <2>4 DEF new
<1>4. OutsideOK'
  BY <1>0, <1>2, <1>3 DEF TypeOK, OutsideOK
<1>5. FillsBought'
  <2>1. ASSUME NEW x \in 1..posted
        PROVE  /\ clob'[x].made + clob'[x].taken <= bought'[clob'[x].bet]
               /\ clob'[x].made + clob'[x].taken <= Shares
    <3>1. clob[x] \in Order /\ bought \in [Bets -> Nat]
      BY DEF TypeOK, OutsideOK
    <3>2. CASE x = o
      <4>1. /\ clob[o].made + clob[o].taken <= bought[b]
            /\ clob[o].made + clob[o].taken < Shares
        BY <1>0 DEF FillsBought, Filled
      <4>2. bought[b] \in Nat /\ clob[o].made \in Nat /\ clob[o].taken \in Nat
        BY <1>1, <3>1 DEF Order
      <4>3. clob'[o].made + clob'[o].taken = clob[o].made + clob[o].taken + 1
        BY <1>3, <4>2
      <4>4. bought'[clob'[o].bet] = bought[b] + 1
        BY <1>2, <1>3
      <4> QED BY <3>2, <4>1, <4>2, <4>3, <4>4
    <3>3. CASE x # o
      <4>1. clob'[x] = clob[x]
        BY <1>3, <3>3
      <4>2. clob[x].bet \in Bets /\ clob[x].made \in Nat /\ clob[x].taken \in Nat
        BY <3>1 DEF Order
      <4>3. /\ clob[x].made + clob[x].taken <= bought[clob[x].bet]
            /\ clob[x].made + clob[x].taken <= Shares
        BY DEF FillsBought
      <4>4. bought'[clob[x].bet] >= bought[clob[x].bet] /\ bought[clob[x].bet] \in Nat
            /\ bought'[clob[x].bet] \in Nat
        BY <1>2, <3>1, <4>2
      <4> QED BY <4>1, <4>2, <4>3, <4>4
    <3> QED BY <3>2, <3>3
  <2> QED BY <1>0, <2>1 DEF FillsBought
<1>6. TypeOK'
  BY <1>0, <1>4 DEF TypeOK, DurableOK, MemoryOK, ListenerOK, CancelsOK, durable, memory, tasks
<1>7. \A x \in 1..posted : clob'[x].bet = clob[x].bet
  BY <1>3
<1>8. OrdersKnown'
  BY <1>0, <1>1, <1>7, KnownGrows DEF durable, memory, tasks
<1>9. ResponseBought' /\ RowsBacked'
  <2>1. bought \in [Bets -> Nat] /\ attestations \in [Bets -> Row]
    BY DEF TypeOK, DurableOK, OutsideOK
  <2>2. RowsBacked'
    BY <1>0, <1>2, <2>1 DEF RowsBacked, Backed, Row, durable
  <2>3. ResponseBought'
    <3>1. SUFFICES ASSUME listener.pc = "response" PROVE ResponseBought'
      BY <1>0 DEF ResponseBought, tasks
    <3>2. listener.bet \in Bets /\ listener.fill \in 0..Shares \cup {Unknown}
      BY <3>1 DEF TypeOK, ListenerOK, ListenerPC, Idle
    <3> QED BY <1>0, <1>2, <1>7, <2>1, <3>1, <3>2 DEF ResponseBought, tasks
  <2> QED BY <2>2, <2>3
<1> QED BY <1>5, <1>6, <1>8, <1>9

\* Orders expire, or die with their market.
LEMMA OffBookStepInv ==
    ASSUME Inv, \/ \E o \in OrderId : Expire(o)
                \/ \E b \in Bets : Resolve(b)
    PROVE  Inv'
<1> USE DEF Inv
<1>0. UNCHANGED <<durable, memory, tasks, posted, bought, restarts, started>>
  BY DEF Expire, Resolve
<1>1. resolved' \subseteq Bets
  BY DEF Expire, Resolve, TypeOK, OutsideOK
<1>2. /\ \A o \in 1..posted : clob'[o] \in {clob[o], OffBook(clob[o])}
      /\ clob' \in [1..posted -> {OffBook(clob[o]) : o \in 1..posted} \cup {clob[o] : o \in 1..posted}]
  <2>1. clob \in [1..posted -> Order]
    BY DEF TypeOK, OutsideOK
  <2>2. CASE \E o \in OrderId : Expire(o)
    BY <2>1, <2>2 DEF Expire
  <2>3. CASE \E b \in Bets : Resolve(b)
    BY <2>1, <2>3 DEF Resolve
  <2> QED BY <2>2, <2>3
<1>3. /\ OutsideOK' /\ FillsBought'
      /\ \A o \in 1..posted : clob'[o].bet = clob[o].bet
  BY <1>0, <1>1, <1>2, OffBookInv
<1>4. TypeOK'
  BY <1>0, <1>3 DEF TypeOK, DurableOK, MemoryOK, ListenerOK, CancelsOK, durable, memory, tasks
<1>5. OrdersKnown'
  <2>1. posted \in Nat
    BY OrdersAssumption DEF TypeOK, OutsideOK
  <2> QED BY <1>0, <1>3, <2>1, KnownGrows DEF durable, memory, tasks
<1>6. ResponseBought' /\ RowsBacked'
  BY <1>0, <1>3 DEF ResponseBought, RowsBacked, durable, tasks
<1> QED BY <1>3, <1>4, <1>5, <1>6

\* The passing of time ages the in-flight entries and the markers.
LEMMA ElapseInv ==
    ASSUME Inv, NEW b \in Bets, Elapse120(b) \/ Elapse300(b)
    PROVE  Inv'
<1> USE DEF Inv
<1>0. UNCHANGED <<attestations, rows, tracked, finalized, tasks, outside, restarts, started>>
  BY DEF Elapse120, Elapse300, durable, memory
<1>1. /\ inFlight' \in [Bets -> {"none", "active", "stale"}]
      /\ submissions' \in [Bets -> Submission]
      /\ \A x \in Bets : submissions'[x].order = submissions[x].order
  <2>1. CASE Elapse120(b)
    BY <2>1 DEF Elapse120, TypeOK, DurableOK, MemoryOK, durable
  <2>2. CASE Elapse300(b)
    <3>1. submissions[b] \in Submission
      BY DEF TypeOK, DurableOK
    <3>2. [order |-> submissions[b].order, age |-> "stale"] \in Submission
      BY <3>1 DEF Submission
    <3> QED BY <2>2, <3>2 DEF Elapse300, TypeOK, DurableOK, MemoryOK, memory
  <2> QED BY <2>1, <2>2
<1>2. TypeOK'
  BY <1>0, <1>1 DEF TypeOK, DurableOK, MemoryOK, ListenerOK, CancelsOK, OutsideOK, tasks, outside
<1>3. OrdersKnown' /\ FillsBought' /\ ResponseBought' /\ RowsBacked'
  BY <1>0, <1>1 DEF OrdersKnown, FillsBought, ResponseBought, RowsBacked, tasks, outside
<1> QED BY <1>2, <1>3

\* A restart forgets the memory and reloads the persisted orders.
LEMMA RestartInv ==
    ASSUME Inv, Restart
    PROVE  Inv'
<1> USE OrdersAssumption DEF Inv, Restart
<1>1. /\ tracked' \subseteq 1..posted /\ tracked' \subseteq OrderId
      /\ finalized' \subseteq Bets
  BY DEF OrdersKnown, TypeOK, DurableOK
<1>2. /\ rows' \in [Bets -> OrderId \cup {NoOrder}]
      /\ \A b \in Bets : rows'[b] \in {rows[b], NoOrder}
  BY DEF TypeOK, DurableOK
<1>3. TypeOK'
  <2>1. DurableOK' /\ MemoryOK'
    BY <1>1, <1>2 DEF TypeOK, DurableOK, MemoryOK
  <2>2. ListenerOK' /\ CancelsOK' /\ OutsideOK'
    BY DEF TypeOK, ListenerOK, CancelsOK, OutsideOK, outside
  <2>3. restarts' \in 0..MaxRestarts /\ started' \subseteq Bets
    BY DEF TypeOK
  <2> QED BY <2>1, <2>2, <2>3 DEF TypeOK
<1>4. OrdersKnown'
  BY <1>1, <1>2 DEF OrdersKnown, outside, Idle
<1>5. FillsBought' /\ ResponseBought' /\ RowsBacked'
  BY DEF FillsBought, ResponseBought, RowsBacked, outside, Idle
<1> QED BY <1>3, <1>4, <1>5

\* The invariant is inductive: one step per action.
LEMMA NextInv == Inv /\ [Next]_vars => Inv'
<1> SUFFICES ASSUME Inv, [Next]_vars PROVE Inv'
  OBVIOUS
<1>1. CASE UNCHANGED vars
  BY <1>1 DEF vars, durable, memory, tasks, outside, Inv, TypeOK, DurableOK, MemoryOK,
      ListenerOK, CancelsOK, OutsideOK, OrdersKnown, FillsBought, ResponseBought, RowsBacked
<1>2. ASSUME NEW b \in Bets, Listen(b) PROVE Inv'
  BY <1>2, HandleInv, ProcessInv, FundInv, MarkInv, PostInv, FAKInv, LimitInv DEF Listen
<1>3. ASSUME NEW b \in Bets, cancelOrdersForMarket(b) PROVE Inv'
  BY <1>3, CancelMarketInv
<1>4. ASSUME NEW b \in Bets, Elapse120(b) \/ Elapse300(b) PROVE Inv'
  BY <1>4, ElapseInv
<1>5. ASSUME NEW c \in Cancels, Cancel(c) PROVE Inv'
  BY <1>5, CancelTrackedInv, CancelAtCLOBInv, ConfirmCancelInv, ReconcileMarketInv DEF Cancel
<1>6. ASSUME NEW c \in Cancels, NEW b \in Bets, CancelBet(c, b) PROVE Inv'
  BY <1>6, CancelBetInv
<1>7. ASSUME NEW o \in OrderId, reconcileOne(o) PROVE Inv'
  BY <1>7, ReconcileOneInv
<1>8. ASSUME NEW o \in OrderId, Fill(o) PROVE Inv'
  BY <1>8, FillInv
<1>9. CASE (\E o \in OrderId : Expire(o)) \/ (\E b \in Bets : Resolve(b))
  BY <1>9, OffBookStepInv
<1>10. CASE Restart
  BY <1>10, RestartInv
<1>11. ASSUME NEW o \in OrderId, handleOne(o) PROVE Inv'
  BY <1>11, HandleOneInv
<1> QED
  BY <1>1, <1>2, <1>3, <1>4, <1>5, <1>6, <1>7, <1>8, <1>9, <1>10, <1>11 DEF Next

\* The inductive invariant holds in every reachable state.
LEMMA Invariance == Spec => []Inv
<1>1. Init => Inv
  BY InitInv
<1>2. Inv /\ [Next]_vars => Inv'
  BY NextInv
<1> QED BY <1>1, <1>2, PTL DEF Spec

\* Every variable of the order life cycle keeps its type, for any number of bets,
\* cancellation requests, orders and restarts.
THEOREM TypeCorrect == Spec => []TypeOK
<1>1. Inv => TypeOK
  BY DEF Inv
<1> QED BY <1>1, Invariance, PTL

\* Whatever the CLOB, the clock, the operator's host and the bettors do, no
\* attestation of the signing layer stands for shares the pool did not buy, as long
\* as no two bets are on one token: the other faults make an outcome untrue, and
\* none of them makes it overstate the fill.
THEOREM AttestedSharesAreBacked ==
    ASSUME "sharedToken" \notin Faults
    PROVE  Spec => []SharesBacked
<1>1. Inv => SharesBacked
  BY DEF Inv, RowsBacked, SharesBacked
<1> QED BY <1>1, Invariance, PTL

-----------------------------------------------------------------------------
(* Orders implements Outcomes: the initial states are initial states of the *)
(* abstract specification, and every step buys, decides or shows nothing.   *)

Shown == Out!Next \/ UNCHANGED <<attestations, bought>>

\* Storing a supported outcome is a decision, or nothing when there is one already.
LEMMA StoreShown ==
    ASSUME Inv, NEW b \in Bets, NEW row \in Row, row.type # "none",
           Backed(row, bought[b]), signAndStoreAttestation(b, row), bought' = bought
    PROVE  Shown
<1>0. attestations \in [Bets -> Row]
  BY DEF Inv, TypeOK, DurableOK
<1>1. CASE UNCHANGED attestations
  BY <1>1 DEF Shown
<1>2. CASE attestations' = [attestations EXCEPT ![b] = IF @ = NoRow THEN row ELSE @]
  <2>1. CASE attestations[b] # NoRow
    <3>1. attestations' = attestations
      BY <1>0, <1>2, <2>1
    <3> QED BY <1>1, <3>1
  <2>2. CASE attestations[b] = NoRow
    <3>1. attestations[b] = Out!Undecided
      BY <2>2 DEF NoRow, Out!Undecided
    <3>2. row \in Out!Outcome /\ Out!Supports(bought[b], row)
      BY DEF Row, Backed, Out!Outcome, Out!Supports
    <3>3. attestations' = [attestations EXCEPT ![b] = row]
      BY <1>0, <1>2, <2>2
    <3>4. Out!Decide(b)
      BY <3>1, <3>2, <3>3 DEF Out!Decide
    <3> QED BY <3>4 DEF Shown, Out!Next
  <2> QED BY <2>1, <2>2
<1> QED BY <1>1, <1>2 DEF signAndStoreAttestation

\* So is storing what attestTerminal reads off a fill, and a rejection.
LEMMA ClassifiedShown ==
    ASSUME Inv, NEW b \in Bets, NEW fill \in 0..Shares, fill <= bought[b],
           signAndStoreAttestation(b, Classify(fill)), bought' = bought
    PROVE  Shown
<1>1. bought[b] \in Nat
  BY DEF Inv, TypeOK, OutsideOK
<1>2. Classify(fill) \in Row /\ Backed(Classify(fill), bought[b])
  BY <1>1, ClassifyBacked
<1>3. Classify(fill).type # "none"
  BY DEF Classify
<1> QED BY <1>2, <1>3, StoreShown

\* Storing FAILED is a decision of the abstract specification, or nothing.
LEMMA FailedShown ==
    ASSUME Inv, NEW b \in Bets, signAndStoreAttestation(b, FailedRow), bought' = bought
    PROVE  Shown
<1>1. bought[b] \in Nat
  BY DEF Inv, TypeOK, OutsideOK
<1>2. FailedRow \in Row /\ Backed(FailedRow, bought[b])
  BY <1>1, FailedBacked
<1>3. FailedRow.type # "none"
  BY DEF FailedRow
<1> QED BY <1>2, <1>3, StoreShown

\* So is what finalize stores for an order of a known fill.
LEMMA FinalizeShown ==
    ASSUME Inv, NEW o \in 1..posted, NEW fill \in 0..Shares, fill <= bought[clob[o].bet],
           finalize(o, fill), bought' = bought
    PROVE  Shown
<1>1. clob[o].bet \in Bets
  BY DEF Inv, TypeOK, OutsideOK, Order
<1> QED BY <1>1, ClassifiedShown DEF finalize

\* Buying up to Shares more for a bet is a purchase, or nothing.
LEMMA BuyShown ==
    ASSUME Inv, NEW b \in Bets, NEW n \in 0..Shares,
           bought' = [bought EXCEPT ![b] = @ + n], UNCHANGED attestations
    PROVE  Shown
<1>0. bought \in [Bets -> Nat]
  BY DEF Inv, TypeOK, OutsideOK
<1>1. CASE n = 0
  <2>1. bought' = bought
    BY <1>0, <1>1
  <2> QED BY <2>1 DEF Shown
<1>2. CASE n \in 1..Shares
  <2>1. Out!Buy(b)
    BY <1>2 DEF Out!Buy
  <2> QED BY <2>1 DEF Shown, Out!Next
<1> QED BY <1>1, <1>2, OrdersAssumption

\* The listener: a rejection, the purchase of the POST, the outcome of its answer.
LEMMA ListenShown ==
    ASSUME Inv, NEW b \in Bets, Listen(b)
    PROVE  Shown
<1>1. CASE handleBetRecord(b) \/ markMarketSubmitting(b)
  BY <1>1 DEF handleBetRecord, markMarketSubmitting, durable, outside, Shown
<1>2. CASE processBetEvent(b)
  BY <1>2, FailedShown DEF processBetEvent, outside, Shown
<1>3. CASE Fund(b)
  BY <1>3, FailedShown DEF Fund, outside, Shown
<1>4. CASE Post(b)
  <2>1. UNCHANGED attestations
    BY <1>4 DEF Post, durable
  <2>2. ASSUME NEW f \in 0..Shares, NEW live \in BOOLEAN, Accept(b, 0, f, live)
        PROVE  Shown
    <3>1. bought' = [bought EXCEPT ![b] = @ + 0 + f] /\ bought \in [Bets -> Nat]
      BY <2>2 DEF Accept, Inv, TypeOK, OutsideOK
    <3>2. bought' = [bought EXCEPT ![b] = @ + f]
      <4>1. bought[b] + 0 + f = bought[b] + f
        BY <3>1
      <4> QED BY <3>1, <4>1
    <3> QED BY <2>1, <3>2, BuyShown
  <2>3. \/ UNCHANGED outside
        \/ \E f \in 0..Shares, live \in BOOLEAN : Accept(b, 0, f, live)
    <3>1. 0 \in 0..Shares /\ \A f \in 0..Shares : (f < Shares) \in BOOLEAN
      BY OrdersAssumption
    <3> QED BY <1>4, <3>1 DEF Post
  <2>4. CASE UNCHANGED outside
    BY <2>1, <2>4 DEF outside, Shown
  <2> QED BY <2>2, <2>3, <2>4
<1>5. CASE submitFAKOrder(b)
  <2>1. bought' = bought
    BY <1>5 DEF submitFAKOrder, outside
  <2>2. CASE listener.fill = Unknown
    BY <1>5, <2>1, <2>2 DEF submitFAKOrder, Shown
  <2>3. CASE listener.fill # Unknown
    <3>1. listener.fill \in 0..Shares /\ listener.fill <= bought[b]
      <4>1. listener.pc = "response" /\ listener.bet = b
        BY <1>5 DEF submitFAKOrder
      <4>2. listener.fill \in 0..Shares \cup {Unknown}
        BY <4>1 DEF Inv, TypeOK, ListenerOK, ListenerPC, Idle
      <4> QED BY <2>3, <4>1, <4>2 DEF Inv, ResponseBought
    <3>2. signAndStoreAttestation(b, Classify(listener.fill))
      BY <1>5, <2>3 DEF submitFAKOrder
    <3> QED BY <2>1, <3>1, <3>2, ClassifiedShown
  <2> QED BY <2>2, <2>3
<1>6. CASE submitLimitOrder(b)
  BY <1>6, FailedShown DEF submitLimitOrder, outside, Shown
<1> QED BY <1>1, <1>2, <1>3, <1>4, <1>5, <1>6 DEF Listen

\* The tracker finalizes a known order with at most what was bought for its bet.
LEMMA TrackerShown ==
    ASSUME Inv, "sharedToken" \notin Faults
    PROVE  /\ \A b \in Bets : cancelOrdersForMarket(b) => Shown
           /\ \A o \in OrderId : handleOne(o) => Shown
           /\ \A o \in OrderId : reconcileOne(o) => Shown
<1>1. ASSUME NEW b \in Bets, cancelOrdersForMarket(b) PROVE Shown
  <2>1. PICK o \in tracked : finalize(o, 0)
    BY <1>1 DEF cancelOrdersForMarket
  <2>2. o \in 1..posted
    BY DEF Inv, OrdersKnown
  <2>3. bought' = bought
    BY <1>1 DEF cancelOrdersForMarket, outside
  <2> QED BY <2>1, <2>2, <2>3, FilledBounds, FinalizeShown
<1>2. ASSUME NEW o \in OrderId, handleOne(o) PROVE Shown
  <2>1. PICK t \in findTracked(o) : finalize(t, Filled(o))
    BY <1>2 DEF handleOne
  <2>2. t \in 1..posted /\ clob[t].bet = clob[o].bet /\ o \in 1..posted
    BY <1>2 DEF handleOne, Inv, OrdersKnown, findTracked
  <2>3. Filled(o) \in 0..Shares /\ Filled(o) <= bought[clob[t].bet]
    BY <2>2, FilledBounds
  <2>4. bought' = bought
    BY <1>2 DEF handleOne, outside
  <2> QED BY <2>1, <2>2, <2>3, <2>4, FinalizeShown
<1>3. ASSUME NEW o \in OrderId, reconcileOne(o) PROVE Shown
  <2>1. o \in 1..posted /\ bought' = bought
    BY <1>3 DEF reconcileOne, confirmFillViaTrades, Inv, OrdersKnown, outside
  <2>2. finalize(o, Filled(o)) \/ finalize(o, clob[o].made)
    BY <1>3 DEF reconcileOne, confirmFillViaTrades
  <2> QED BY <2>1, <2>2, FilledBounds, FinalizeShown
<1> QED BY <1>1, <1>2, <1>3

\* A cancellation request attests a rejection, or what the order is known to have filled.
LEMMA CancelShown ==
    ASSUME Inv, NEW c \in Cancels, Cancel(c)
    PROVE  Shown
<1> DEFINE o == cancels[c].order
<1>1. CASE cancelTrackedOrder(c)
  BY <1>1 DEF cancelTrackedOrder, durable, outside, Shown
<1>2. CASE CancelAtCLOB(c)
  BY <1>2 DEF CancelAtCLOB, durable, Shown
<1>3. CASE ConfirmCancel(c)
  <2>1. o \in 1..posted /\ bought' = bought
    BY <1>3 DEF ConfirmCancel, confirmFillViaTrades, Inv, OrdersKnown, outside
  <2>2. \/ finalize(o, Filled(o)) \/ finalize(o, clob[o].made)
        \/ UNCHANGED attestations
    BY <1>3 DEF ConfirmCancel, confirmFillViaTrades
  <2>3. CASE UNCHANGED attestations
    BY <2>1, <2>3 DEF Shown
  <2> QED BY <2>1, <2>2, <2>3, FilledBounds, FinalizeShown
<1>4. CASE reconcileMarketSubmission(c)
  <2> DEFINE b == cancels[c].bet
  <2>1. /\ cancels[c].pc = "reconcile" /\ bought' = bought
    BY <1>4 DEF reconcileMarketSubmission, outside
  <2>2. b \in Bets
    BY <2>1 DEF Inv, TypeOK, CancelsOK, Idle
  <2>3. CASE signAndStoreAttestation(b, FailedRow)
    BY <2>1, <2>2, <2>3, FailedShown
  <2>4. CASE o # NoOrder /\ signAndStoreAttestation(b, Classify(Filled(o)))
    <3>1. o \in 1..posted /\ clob[o].bet = b
      BY <2>1, <2>4 DEF Inv, OrdersKnown
    <3>2. Filled(o) \in 0..Shares /\ Filled(o) <= bought[b]
      BY <3>1, FilledBounds
    <3> QED BY <2>1, <2>2, <2>4, <3>2, ClassifiedShown
  <2>5. CASE UNCHANGED attestations
    BY <2>1, <2>5 DEF Shown
  <2> QED BY <1>4, <2>3, <2>4, <2>5 DEF reconcileMarketSubmission
<1> QED BY <1>1, <1>2, <1>3, <1>4 DEF Cancel

\* The CLOB fills by one share; nothing else outside the process shows.
LEMMA OutsideShown ==
    ASSUME Inv
    PROVE  /\ \A o \in OrderId : Fill(o) \/ Expire(o) => Shown
           /\ \A b \in Bets : Resolve(b) \/ Elapse120(b) \/ Elapse300(b) => Shown
           /\ Restart => Shown
<1>1. ASSUME NEW o \in OrderId, Fill(o) PROVE Shown
  <2>1. clob[o].bet \in Bets /\ 1 \in 0..Shares
    BY <1>1, OrdersAssumption DEF Fill, Inv, TypeOK, OutsideOK, Order
  <2>2. bought' = [bought EXCEPT ![clob[o].bet] = @ + 1] /\ UNCHANGED attestations
    BY <1>1 DEF Fill, durable
  <2> QED BY <2>1, <2>2, BuyShown
<1>2. ASSUME NEW o \in OrderId, Expire(o) PROVE Shown
  BY <1>2 DEF Expire, durable, Shown
<1>3. ASSUME NEW b \in Bets, Resolve(b) \/ Elapse120(b) \/ Elapse300(b) PROVE Shown
  BY <1>3 DEF Resolve, Elapse120, Elapse300, durable, outside, Shown
<1>4. CASE Restart
  BY <1>4 DEF Restart, outside, Shown
<1> QED BY <1>1, <1>2, <1>3, <1>4

\* Every step of the signing layer and of its environment is a step of Outcomes or
\* shows nothing.
LEMMA NextShown ==
    ASSUME Inv, [Next]_vars, "sharedToken" \notin Faults
    PROVE  Shown
<1>1. CASE UNCHANGED vars
  BY <1>1 DEF vars, durable, outside, Shown
<1>2. ASSUME NEW c \in Cancels, NEW b \in Bets, CancelBet(c, b) PROVE Shown
  <2>1. bought' = bought
    BY <1>2 DEF CancelBet, outside
  <2>2. CASE signAndStoreAttestation(b, FailedRow)
    BY <2>1, <2>2, FailedShown
  <2>3. CASE UNCHANGED attestations
    BY <2>1, <2>3 DEF Shown
  <2> QED BY <1>2, <2>2, <2>3 DEF CancelBet
<1>3. ASSUME NEW b \in Bets, Listen(b) PROVE Shown
  BY <1>3, ListenShown
<1>4. ASSUME NEW c \in Cancels, Cancel(c) PROVE Shown
  BY <1>4, CancelShown
<1> QED BY <1>1, <1>2, <1>3, <1>4, TrackerShown, OutsideShown DEF Next

\* The signing layer implements Outcomes for any number of bets, requests, orders and
\* restarts and under every fault but two bets on one token: what it attests about a
\* bet is decided once, for good, and within what has been bought.
THEOREM OrdersImplementOutcomes ==
    ASSUME "sharedToken" \notin Faults
    PROVE  Spec => ImplementsOutcomes
<1>1. Init => Out!Init
  BY DEF Init, Out!Init, NoRow, Out!Undecided
<1>2. Inv /\ [Next]_vars => [Out!Next]_(Out!vars)
  BY NextShown DEF Shown, Out!vars
<1> QED BY <1>1, <1>2, Invariance, PTL DEF Spec, ImplementsOutcomes, Out!Spec

-----------------------------------------------------------------------------
(* One order per bet, and the truth of its outcome.                        *)

\* A bet that is not taken up has no order and is not being submitted; while its
\* submission is under way it has none either, until the POST.
OnceInv ==
    /\ restarts = 0
    /\ listener.pc = "record" => inFlight[listener.bet] = "none"
    /\ \A b \in Bets : inFlight[b] = "none" => ~Submitting(b)
    /\ \A o \in 1..posted : inFlight[clob[o].bet] # "none"
    /\ listener.pc \in {"fund", "mark", "post"} =>
         \A o \in 1..posted : clob[o].bet # listener.bet
    /\ SubmittedOnce

\* A FAK is marked before it is posted, the mark does not age while the submission is
\* under way, and an order whose id is not stored is in the listener's hands.
MarkedInv ==
    \A b \in Bets \ Limit :
        /\ inFlight[b] = "none" \/ (Submitting(b) /\ listener.pc \in {"fund", "mark"})
             => submissions[b] = NoSubmission
        /\ Submitting(b) /\ listener.pc \in {"post", "response"} => submissions[b].age = "fresh"
        /\ \A o \in 1..posted : clob[o].bet = b =>
              \/ submissions[b].order # NoOrder
              \/ listener.pc = "response" /\ listener.bet = b /\ listener.order = o

\* An order's fill is all that was bought for its bet.
BoughtInv ==
    /\ resolved = {}
    /\ \A b \in Bets : (\A o \in 1..posted : clob[o].bet # b) => bought[b] = 0
    /\ \A o \in 1..posted : bought[clob[o].bet] = Filled(o)
    /\ "purged" \in Faults =>
         \A o \in 1..posted : clob[o].bet \in Limit => clob[o].taken = 0

\* While the listener has a bet, nothing else deals with it.
AloneInv ==
    /\ started = {b \in Bets : inFlight[b] # "none"}
    /\ \A b \in Bets : HasOutcome(b) => b \in started
    /\ \A b \in Bets : Submitting(b) => inFlight[b] = "active" /\ ~HasOutcome(b)
    /\ \A o \in tracked : clob[o].bet \in Limit /\ ~Submitting(clob[o].bet)
    /\ \A c \in Cancels : cancels[c].pc # "idle" =>
         cancels[c].bet \in started /\ ~Submitting(cancels[c].bet)
    /\ finalized \subseteq {b \in Bets : HasOutcome(b)}

\* What those who attest hold is the truth about the bet.
HeldInv ==
    /\ listener.pc = "response" =>
         IF listener.order = NoOrder
         THEN \A o \in 1..posted : clob[o].bet # listener.bet
         ELSE listener.fill # Unknown =>
                ~clob[listener.order].live /\ Filled(listener.order) = listener.fill
    /\ \A o \in 1..posted : clob[o].bet \in Limit =>
         \/ o \in tracked \/ HasOutcome(clob[o].bet)
         \/ listener.pc = "response" /\ listener.order = o
    /\ \A c \in Cancels :
         /\ cancels[c].pc \in {"cancel", "confirm"} =>
              clob[cancels[c].order].bet \in Limit /\ clob[cancels[c].order].bet = cancels[c].bet
         /\ cancels[c].pc = "confirm" => ~clob[cancels[c].order].live
         /\ cancels[c].pc = "reconcile" /\ cancels[c].order = NoOrder =>
              \A o \in 1..posted : clob[o].bet # cancels[c].bet

\* What the environment must not do for the three results: the second is about the
\* windows and the answers of the FAK, the third about everything that tells a fill.
Once == MaxRestarts = 0
Prompt == Faults \cap {"lostResponse", "noOrderId", "slowSubmit"} = {}
Calm ==
    /\ Faults \subseteq {"delayed", "crossing", "purged"}
    /\ ~({"crossing", "purged"} \subseteq Faults)

\* The listener goes on with the same bet before the POST, or lets it go.
GoesOn ==
    \/ listener' = listener
    \/ listener'.pc = "idle"
    \/ /\ listener'.pc \in {"fund", "mark", "post"} /\ listener.pc \in {"fund", "mark", "post"}
       /\ listener'.bet = listener.bet

\* No bet is taken up, and no order accepted.
SameBets ==
    /\ UNCHANGED <<restarts, posted>>
    /\ \A o \in 1..posted : clob'[o].bet = clob[o].bet
    /\ \A b \in Bets : inFlight'[b] = "none" <=> inFlight[b] = "none"

\* The orders of the CLOB are numbered without a gap.
LEMMA OrderNumbers ==
    ASSUME TypeOK
    PROVE  /\ DOMAIN clob = 1..posted /\ posted \in Nat /\ posted <= MaxOrders
           /\ \A o \in 1..posted : clob[o] \in Order /\ clob[o].bet \in Bets
                                   /\ clob[o].made \in 0..Shares /\ clob[o].taken \in 0..Shares
BY OrdersAssumption DEF TypeOK, OutsideOK, Order

\* An order keeps its bet, and one off the book stays what it was.
LEMMA ClobKeeps ==
    ASSUME Inv,
           \/ \E c \in Cancels : CancelAtCLOB(c)
           \/ \E o \in OrderId : Fill(o) \/ Expire(o)
           \/ \E b \in Bets : Resolve(b)
    PROVE  /\ posted' = posted /\ UNCHANGED <<durable, memory, listener, restarts, started>>
           /\ \A o \in 1..posted :
                 /\ clob'[o].bet = clob[o].bet /\ clob'[o].taken = clob[o].taken
                 /\ ~clob[o].live => clob'[o] = clob[o]
<1> DEFINE R(o, r) == /\ r.bet = clob[o].bet /\ r.taken = clob[o].taken
                      /\ ~clob[o].live => r = clob[o]
<1>0. /\ DOMAIN clob = 1..posted
      /\ \A o \in 1..posted : clob[o] \in Order
  BY OrderNumbers DEF Inv
<1>1. \A o \in 1..posted : R(o, clob[o]) /\ R(o, OffBook(clob[o]))
  BY <1>0 DEF OffBook, Order
<1>2. ASSUME NEW c \in Cancels, CancelAtCLOB(c)
      PROVE  /\ posted' = posted /\ UNCHANGED <<durable, memory, listener, restarts, started>>
             /\ \A o \in 1..posted : R(o, clob'[o])
  <2>1. \A o \in 1..posted : clob'[o] \in {clob[o], OffBook(clob[o])}
    BY <1>0, <1>2 DEF CancelAtCLOB
  <2> QED BY <1>1, <1>2, <2>1 DEF CancelAtCLOB
<1>3. ASSUME NEW x \in OrderId, Fill(x)
      PROVE  /\ posted' = posted /\ UNCHANGED <<durable, memory, listener, restarts, started>>
             /\ \A o \in 1..posted : R(o, clob'[o])
  <2>1. \A o \in 1..posted : o # x => clob'[o] = clob[o]
    BY <1>0, <1>3 DEF Fill
  <2>2. clob[x].live /\ x \in 1..posted
    BY <1>3 DEF Fill
  <2>3. clob'[x] = [bet |-> clob[x].bet, live |-> Filled(x) + 1 < Shares,
                    made |-> clob[x].made + 1, taken |-> clob[x].taken]
    BY <1>0, <1>3, <2>2 DEF Fill
  <2>4. R(x, clob'[x])
    BY <2>2, <2>3
  <2> QED BY <1>1, <1>3, <2>1, <2>4 DEF Fill, tasks
<1>4. ASSUME NEW x \in OrderId, Expire(x)
      PROVE  /\ posted' = posted /\ UNCHANGED <<durable, memory, listener, restarts, started>>
             /\ \A o \in 1..posted : R(o, clob'[o])
  <2>1. \A o \in 1..posted : clob'[o] \in {clob[o], OffBook(clob[o])}
    BY <1>0, <1>4 DEF Expire
  <2> QED BY <1>1, <1>4, <2>1 DEF Expire, tasks
<1>5. ASSUME NEW b \in Bets, Resolve(b)
      PROVE  /\ posted' = posted /\ UNCHANGED <<durable, memory, listener, restarts, started>>
             /\ \A o \in 1..posted : R(o, clob'[o])
  <2>1. \A o \in 1..posted : clob'[o] \in {clob[o], OffBook(clob[o])}
    BY <1>0, <1>5 DEF Resolve
  <2> QED BY <1>1, <1>5, <2>1 DEF Resolve, tasks
<1> QED BY <1>2, <1>3, <1>4, <1>5

\* What all but three steps of the listener, and a restart, are for a bet's orders
LEMMA Others ==
    ASSUME Inv,
           \/ \E b \in Bets : cancelOrdersForMarket(b) \/ Resolve(b) \/ Elapse120(b) \/ Elapse300(b)
           \/ \E c \in Cancels : Cancel(c) \/ \E b \in Bets : CancelBet(c, b)
           \/ \E o \in OrderId : handleOne(o) \/ reconcileOne(o) \/ Fill(o) \/ Expire(o)
           \/ UNCHANGED vars
    PROVE  SameBets /\ listener' = listener
<1>1. CASE \/ \E b \in Bets : cancelOrdersForMarket(b) \/ Elapse300(b)
           \/ \E o \in OrderId : handleOne(o) \/ reconcileOne(o)
           \/ UNCHANGED vars
  BY <1>1 DEF SameBets, cancelOrdersForMarket, Elapse300, handleOne, reconcileOne, vars, memory,
              durable, tasks, outside
<1>2. CASE \E b \in Bets : Elapse120(b)
  BY <1>2 DEF SameBets, Elapse120, Inv, TypeOK, MemoryOK, tasks, outside
<1>3. CASE \/ \E c \in Cancels : CancelAtCLOB(c)
           \/ \E o \in OrderId : Fill(o) \/ Expire(o)
           \/ \E b \in Bets : Resolve(b)
  BY <1>3, ClobKeeps DEF SameBets, memory
<1>4. CASE \E c \in Cancels : \/ cancelTrackedOrder(c) \/ ConfirmCancel(c)
                              \/ reconcileMarketSubmission(c)
                              \/ \E b \in Bets : CancelBet(c, b)
  BY <1>4 DEF SameBets, cancelTrackedOrder, ConfirmCancel, reconcileMarketSubmission, CancelBet,
              memory, outside
<1> QED BY <1>1, <1>2, <1>3, <1>4 DEF Cancel

-----------------------------------------------------------------------------
(* One order per bet.                                                      *)

\* Steps that take up no bet and post no order
LEMMA OnceKeeps ==
    ASSUME Inv, Inv', OnceInv, SameBets, GoesOn
    PROVE  OnceInv'
<1>1. DOMAIN clob' = 1..posted
  BY OrderNumbers DEF Inv, TypeOK, OutsideOK, SameBets
<1>2. \A o \in 1..posted : clob[o].bet \in Bets /\ inFlight'[clob[o].bet] # "none"
  BY OrderNumbers DEF Inv, OnceInv, SameBets
<1>3. listener'.pc = "record" => inFlight'[listener'.bet] = "none"
  <2>1. listener.pc = "record" => listener.bet \in Bets
    BY DEF Inv, TypeOK, ListenerOK, Idle
  <2> QED BY <2>1 DEF OnceInv, GoesOn, SameBets
<1>4. \A b \in Bets : inFlight'[b] = "none" => ~Submitting(b)'
  BY DEF OnceInv, SameBets, GoesOn, Submitting
<1>5. listener'.pc \in {"fund", "mark", "post"} =>
         \A o \in 1..posted : clob'[o].bet # listener'.bet
  BY DEF OnceInv, GoesOn, SameBets
<1>6. SubmittedOnce'
  BY <1>1, OrderNumbers DEF OnceInv, SubmittedOnce, SameBets, Inv
<1> QED BY <1>2, <1>3, <1>4, <1>5, <1>6 DEF OnceInv, SameBets

\* The listener takes up a bet that no memory of a submission holds.
LEMMA TakeUpOnce ==
    ASSUME Inv, Inv', OnceInv, NEW b \in Bets, handleBetRecord(b) \/ processBetEvent(b)
    PROVE  OnceInv'
<1>1. CASE handleBetRecord(b)
  <2>1. listener' = At("record", b) /\ inFlight[b] = "none"
        /\ UNCHANGED <<inFlight, clob, posted, restarts>>
    BY <1>1 DEF handleBetRecord, memory, outside
  <2> QED BY <2>1 DEF OnceInv, SubmittedOnce, Submitting, At
<1>2. CASE processBetEvent(b)
  <2>1. /\ listener = At("record", b) /\ UNCHANGED <<clob, posted, restarts>>
        /\ listener' \in {Idle, At("fund", b)}
        /\ \/ inFlight' = [inFlight EXCEPT ![b] = "active"]
           \/ listener' = Idle /\ UNCHANGED inFlight
    BY <1>2 DEF processBetEvent, outside
  <2>2. \A o \in 1..posted : clob[o].bet # b
    BY <2>1 DEF OnceInv, At
  <2>3. \A x \in Bets : inFlight'[x] = "none" => inFlight[x] = "none" /\ (x # b \/ listener' = Idle)
    BY <2>1 DEF Inv, TypeOK, MemoryOK
  <2>4. \A o \in 1..posted : clob[o].bet \in Bets
    BY OrderNumbers DEF Inv
  <2> QED BY <2>1, <2>2, <2>3, <2>4 DEF OnceInv, SubmittedOnce, Submitting, At, Idle
<1> QED BY <1>1, <1>2

\* The POST puts the one order of its bet on the book.
LEMMA PostOnce ==
    ASSUME Inv, Inv', OnceInv, NEW b \in Bets, Post(b)
    PROVE  OnceInv'
<1>1. /\ listener = At("post", b) /\ UNCHANGED <<inFlight, restarts>>
      /\ listener'.pc \in {"idle", "response"} /\ (listener'.pc = "response" => listener'.bet = b)
  <2>1. listener' = Idle \/ \E o, f : listener' = Responded(b, o, f)
    BY DEF Post
  <2>2. listener'.pc \in {"idle", "response"} /\ (listener'.pc = "response" => listener'.bet = b)
    BY <2>1 DEF Idle, Responded
  <2> QED BY <2>2 DEF Post, memory
<1>2. /\ \A o \in 1..posted : clob[o].bet # b
      /\ Submitting(b) /\ inFlight[b] # "none"
  BY <1>1 DEF OnceInv, At, Submitting
<1>3. CASE UNCHANGED <<clob, posted>>
  BY <1>1, <1>2, <1>3 DEF OnceInv, SubmittedOnce, Submitting
<1>4. ASSUME NEW made, NEW taken, NEW live, Accept(b, made, taken, live)
      PROVE  OnceInv'
  <2>1. posted \in Nat /\ DOMAIN clob = 1..posted /\ \A o \in 1..posted : clob[o].bet \in Bets
    BY OrderNumbers DEF Inv
  <2>2. posted' = posted + 1 /\ DOMAIN clob' = 1..(posted + 1)
    BY <1>4, <2>1 DEF Accept
  <2>3. \A o \in 1..posted : clob'[o] = clob[o]
    BY <1>4, <2>1 DEF Accept
  <2>4. clob'[posted + 1].bet = b
    BY <1>4, <2>1 DEF Accept
  <2>5. \A o \in 1..(posted + 1) : o \in 1..posted \/ o = posted + 1
    BY <2>1
  <2>6. \A o \in 1..posted' : inFlight'[clob'[o].bet] # "none"
    BY <1>1, <1>2, <2>2, <2>3, <2>4, <2>5 DEF OnceInv
  <2>7. SubmittedOnce'
    BY <1>2, <2>1, <2>2, <2>3, <2>4, <2>5 DEF OnceInv, SubmittedOnce
  <2>8. \A x \in Bets : inFlight'[x] = "none" => ~Submitting(x)'
    BY <1>1, <1>2 DEF OnceInv, Submitting
  <2> QED BY <1>1, <2>6, <2>7, <2>8 DEF OnceInv
<1> QED BY <1>3, <1>4 DEF Post, outside

\* The invariant is kept without a restart, whatever else goes wrong.
LEMMA OnceNext ==
    ASSUME Once, Inv, Inv', OnceInv, [Next]_vars
    PROVE  OnceInv'
<1>1. CASE \/ \E b \in Bets : cancelOrdersForMarket(b) \/ Resolve(b) \/ Elapse120(b) \/ Elapse300(b)
           \/ \E c \in Cancels : Cancel(c) \/ \E b \in Bets : CancelBet(c, b)
           \/ \E o \in OrderId : handleOne(o) \/ reconcileOne(o) \/ Fill(o) \/ Expire(o)
           \/ UNCHANGED vars
  BY <1>1, Others, OnceKeeps DEF GoesOn
<1>2. ASSUME NEW b \in Bets, handleBetRecord(b) \/ processBetEvent(b) PROVE OnceInv'
  BY <1>2, TakeUpOnce
<1>3. ASSUME NEW b \in Bets, Post(b) PROVE OnceInv'
  BY <1>3, PostOnce
<1>4. ASSUME NEW b \in Bets, \/ Fund(b) \/ markMarketSubmitting(b)
                             \/ submitFAKOrder(b) \/ submitLimitOrder(b)
      PROVE  OnceInv'
  <2>1. GoesOn
    BY <1>4 DEF Fund, markMarketSubmitting, submitFAKOrder, submitLimitOrder, GoesOn, At, Idle
  <2>2. SameBets
    BY <1>4 DEF Fund, markMarketSubmitting, submitFAKOrder, submitLimitOrder, SameBets, memory, outside
  <2> QED BY <2>1, <2>2, OnceKeeps
<1>5. ~Restart
  BY DEF Once, OnceInv, Restart
<1> QED BY <1>1, <1>2, <1>3, <1>4, <1>5 DEF Next, Listen

\* It holds at first.
LEMMA OnceInit == Init => OnceInv
BY DEF Init, OnceInv, SubmittedOnce, Submitting, Idle

\* The CLOB gets one BUY order per bet, whatever answers are lost or late, for any
\* number of bets and of /cancel-bet requests, until the process restarts
\* (eventListener.ts handleBetRecord).
THEOREM OneOrderPerBet ==
    ASSUME MaxRestarts = 0
    PROVE  Spec => []SubmittedOnce
<1>1. Inv /\ OnceInv /\ [Next]_vars => (Inv /\ OnceInv)'
  BY NextInv, OnceNext DEF Once
<1>2. Init => Inv /\ OnceInv
  BY InitInv, OnceInit
<1>3. OnceInv => SubmittedOnce
  BY DEF OnceInv
<1> QED BY <1>1, <1>2, <1>3, PTL DEF Spec

-----------------------------------------------------------------------------
(* The durable marker.                                                     *)

\* Steps that leave the markers and let no response go
LEMMA MarkedKeeps ==
    ASSUME Inv, OnceInv, MarkedInv, SameBets, submissions' = submissions,
           \/ listener' = listener
           \/ /\ listener'.pc = "idle"
              /\ listener.pc # "response" \/ listener.bet \in Limit
    PROVE  MarkedInv'
<1> SUFFICES ASSUME NEW b \in Bets \ Limit
             PROVE  /\ inFlight'[b] = "none" \/ (Submitting(b)' /\ listener'.pc \in {"fund", "mark"})
                         => submissions[b] = NoSubmission
                    /\ Submitting(b)' /\ listener'.pc \in {"post", "response"}
                         => submissions[b].age = "fresh"
                    /\ \A o \in 1..posted : clob'[o].bet = b =>
                          \/ submissions[b].order # NoOrder
                          \/ listener'.pc = "response" /\ listener'.bet = b /\ listener'.order = o
  BY DEF MarkedInv, SameBets
<1>1. Submitting(b)' => Submitting(b) /\ listener' = listener
  BY DEF Submitting
<1>2. /\ inFlight'[b] = "none" \/ (Submitting(b)' /\ listener'.pc \in {"fund", "mark"})
           => submissions[b] = NoSubmission
      /\ Submitting(b)' /\ listener'.pc \in {"post", "response"} => submissions[b].age = "fresh"
  BY <1>1 DEF MarkedInv, SameBets
<1>3. ASSUME NEW o \in 1..posted, clob'[o].bet = b
      PROVE  \/ submissions[b].order # NoOrder
             \/ listener'.pc = "response" /\ listener'.bet = b /\ listener'.order = o
  <2>1. clob[o].bet = b
    BY <1>3 DEF SameBets
  <2> QED BY <2>1 DEF MarkedInv
<1> QED BY <1>2, <1>3

\* The listener takes up a bet without a marker, and fails it or goes on to fund it.
LEMMA TakeUpMarked ==
    ASSUME Inv, OnceInv, MarkedInv, NEW b \in Bets, handleBetRecord(b) \/ processBetEvent(b) \/ Fund(b)
    PROVE  MarkedInv'
<1>1. UNCHANGED <<submissions, clob, posted>>
  BY DEF handleBetRecord, processBetEvent, Fund, durable, outside
<1>2. CASE handleBetRecord(b)
  <2>1. listener.pc = "idle" /\ listener' = At("record", b) /\ UNCHANGED inFlight
    BY <1>2 DEF handleBetRecord, memory
  <2> QED BY <1>1, <2>1 DEF MarkedInv, Submitting, At
<1>3. CASE processBetEvent(b)
  <2>1. /\ listener = At("record", b) /\ listener' \in {Idle, At("fund", b)}
        /\ \/ inFlight' = [inFlight EXCEPT ![b] = "active"]
           \/ listener' = Idle /\ UNCHANGED inFlight
    BY <1>3 DEF processBetEvent
  <2>2. inFlight[b] = "none" /\ \A x \in Bets : inFlight'[x] = "none" => inFlight[x] = "none"
    BY <2>1 DEF OnceInv, Inv, TypeOK, MemoryOK, At
  <2> QED BY <1>1, <2>1, <2>2 DEF MarkedInv, Submitting, At, Idle
<1>4. CASE Fund(b)
  <2>1. listener = At("fund", b) /\ UNCHANGED inFlight
        /\ listener' \in {Idle, At(IF b \in Limit THEN "post" ELSE "mark", b)}
    BY <1>4 DEF Fund, memory
  <2>2. CASE listener' = Idle
    BY <1>1, <2>1, <2>2 DEF MarkedInv, Submitting, At, Idle
  <2>3. CASE listener' = At("mark", b)
    BY <1>1, <2>1, <2>3 DEF MarkedInv, Submitting, At
  <2>4. CASE b \in Limit /\ listener' = At("post", b)
    BY <1>1, <2>1, <2>4 DEF MarkedInv, Submitting, At
  <2> QED BY <2>1, <2>2, <2>3, <2>4
<1> QED BY <1>2, <1>3, <1>4

\* The marker is written for a bet that has none.
LEMMA MarkMarked ==
    ASSUME Inv, OnceInv, MarkedInv, NEW b \in Bets, markMarketSubmitting(b)
    PROVE  MarkedInv'
<1>1. /\ listener = At("mark", b) /\ listener' = At("post", b)
      /\ UNCHANGED <<inFlight, clob, posted>>
      /\ submissions' = [submissions EXCEPT ![b] =
            IF @ = NoSubmission THEN [order |-> NoOrder, age |-> "fresh"] ELSE @]
  BY DEF markMarketSubmitting, memory, outside
<1>2. submissions \in [Bets -> Submission]
  BY DEF Inv, TypeOK, DurableOK
<1>3. Submitting(b) /\ inFlight[b] # "none" /\ \A o \in 1..posted : clob[o].bet # b
  BY <1>1 DEF OnceInv, Submitting, At
<1>4. \A x \in Bets : x # b => submissions'[x] = submissions[x]
  BY <1>1, <1>2
<1>5. b \notin Limit => submissions'[b] = [order |-> NoOrder, age |-> "fresh"]
  BY <1>1, <1>2, <1>3 DEF MarkedInv, At
<1>6. \A x \in Bets : x # b => ~Submitting(x) /\ ~Submitting(x)'
  BY <1>1 DEF Submitting, At
<1> QED BY <1>1, <1>3, <1>4, <1>5, <1>6 DEF MarkedInv, Submitting, At

\* The order that the POST places is in the listener's hands.
LEMMA PostMarked ==
    ASSUME Prompt, Inv, OnceInv, MarkedInv, NEW b \in Bets, Post(b)
    PROVE  MarkedInv'
<1>1. /\ listener = At("post", b) /\ UNCHANGED <<inFlight, submissions>>
      /\ Submitting(b) /\ inFlight[b] # "none" /\ \A o \in 1..posted : clob[o].bet # b
  BY DEF Post, memory, durable, OnceInv, Submitting, At
<1>2. listener' = Idle \/ \E o, f : listener' = Responded(b, o, f)
  BY DEF Post
<1>3. /\ listener'.pc \in {"idle", "response"} /\ (listener'.pc = "response" => listener'.bet = b)
      /\ \A x \in Bets : Submitting(x)' => x = b /\ listener'.pc = "response"
  BY <1>2 DEF Idle, Responded, Submitting
<1>4. b \notin Limit => submissions[b].age = "fresh"
  BY <1>1 DEF MarkedInv, At
<1>5. CASE UNCHANGED <<clob, posted>>
  BY <1>1, <1>3, <1>4, <1>5 DEF MarkedInv, Submitting, At
<1>6. ASSUME NEW made, NEW taken, NEW live, NEW fill, Accept(b, made, taken, live),
             listener' = Responded(b, posted + 1, fill)
      PROVE  MarkedInv'
  <2>1. posted \in Nat /\ DOMAIN clob = 1..posted
    BY OrderNumbers DEF Inv
  <2>2. /\ posted' = posted + 1
        /\ \A o \in 1..posted : clob'[o] = clob[o]
        /\ \A o \in 1..(posted + 1) : o \in 1..posted \/ o = posted + 1
        /\ clob'[posted + 1].bet = b
    BY <1>6, <2>1 DEF Accept
  <2>3. listener'.order = posted + 1 /\ listener'.pc = "response" /\ listener'.bet = b
    BY <1>6 DEF Responded
  <2>4. ASSUME NEW x \in Bets \ Limit, NEW o \in 1..posted', clob'[o].bet = x
        PROVE  \/ submissions'[x].order # NoOrder
               \/ listener'.pc = "response" /\ listener'.bet = x /\ listener'.order = o
    <3>1. CASE o = posted + 1
      BY <2>2, <2>3, <2>4, <3>1
    <3>2. CASE o \in 1..posted
      BY <1>1, <2>2, <2>4, <3>2 DEF MarkedInv, At
    <3> QED BY <2>2, <3>1, <3>2
  <2> QED BY <1>1, <1>3, <1>4, <2>4 DEF MarkedInv
<1> QED BY <1>5, <1>6 DEF Post, outside, Prompt

\* The order's id is stored when the answer has come.
LEMMA FAKMarked ==
    ASSUME Prompt, Inv, OnceInv, MarkedInv, NEW b \in Bets, submitFAKOrder(b)
    PROVE  MarkedInv'
<1>1. /\ listener.pc = "response" /\ listener.bet = b /\ b \notin Limit /\ listener' = Idle
      /\ UNCHANGED <<inFlight, clob, posted>>
      /\ submissions' = IF listener.order = NoOrder \/ submissions[b] = NoSubmission THEN submissions
                        ELSE [submissions EXCEPT ![b] = [order |-> listener.order, age |-> @.age]]
  BY DEF submitFAKOrder, setMarketOrderId, Prompt, memory, outside
<1>2. submissions \in [Bets -> Submission]
  BY DEF Inv, TypeOK, DurableOK
<1>3. Submitting(b) /\ inFlight[b] # "none" /\ submissions[b].age = "fresh"
  BY <1>1 DEF OnceInv, MarkedInv, Submitting
<1>4. submissions[b] # NoSubmission
  BY <1>3 DEF NoSubmission
<1>5. /\ \A x \in Bets : x # b => submissions'[x] = submissions[x]
      /\ listener.order # NoOrder => submissions'[b].order = listener.order
      /\ listener.order = NoOrder => submissions'[b] = submissions[b]
  BY <1>1, <1>2, <1>4
<1>6. ASSUME NEW o \in 1..posted, clob[o].bet = b PROVE submissions'[b].order # NoOrder
  <2>1. o # NoOrder
    BY DEF NoOrder
  <2> QED BY <1>1, <1>5, <1>6, <2>1 DEF MarkedInv
<1>7. \A x \in Bets : ~Submitting(x)' /\ (x # b => ~Submitting(x))
  BY <1>1 DEF Submitting, Idle
<1> QED BY <1>1, <1>3, <1>5, <1>6, <1>7 DEF MarkedInv, Idle

\* Time passes for a marker only when its submission is over.
LEMMA ElapseMarked ==
    ASSUME Prompt, Inv, OnceInv, MarkedInv, NEW b \in Bets, Elapse300(b)
    PROVE  MarkedInv'
<1>1. /\ submissions[b].age = "fresh" /\ ~Submitting(b)
      /\ submissions' = [submissions EXCEPT ![b] = [order |-> @.order, age |-> "stale"]]
      /\ UNCHANGED <<inFlight, listener, clob, posted>>
  BY DEF Elapse300, Prompt, memory, tasks, outside
<1>2. /\ \A x \in Bets : x # b => submissions'[x] = submissions[x]
      /\ submissions'[b].order = submissions[b].order
  BY <1>1 DEF Inv, TypeOK, DurableOK
<1>3. submissions[b] # NoSubmission
  BY <1>1 DEF NoSubmission
<1> QED BY <1>1, <1>2, <1>3 DEF MarkedInv, Submitting

\* The invariant is kept as long as answers come with their ids, in time.
LEMMA MarkedNext ==
    ASSUME Once, Prompt, Inv, OnceInv, MarkedInv, [Next]_vars
    PROVE  MarkedInv'
<1>1. CASE \/ \E b \in Bets : cancelOrdersForMarket(b) \/ Resolve(b) \/ Elapse120(b)
           \/ \E c \in Cancels : Cancel(c) \/ \E b \in Bets : CancelBet(c, b)
           \/ \E o \in OrderId : handleOne(o) \/ reconcileOne(o) \/ Fill(o) \/ Expire(o)
           \/ UNCHANGED vars
  <2>1. SameBets /\ listener' = listener
    BY <1>1, Others
  <2>2. submissions' = submissions
    <3>1. CASE \/ \E c \in Cancels : CancelAtCLOB(c)
               \/ \E o \in OrderId : Fill(o) \/ Expire(o)
               \/ \E b \in Bets : Resolve(b)
      BY <3>1, ClobKeeps DEF durable
    <3>2. CASE \/ \E b \in Bets : cancelOrdersForMarket(b) \/ Elapse120(b)
               \/ \E o \in OrderId : handleOne(o) \/ reconcileOne(o)
               \/ UNCHANGED vars
      BY <3>2 DEF cancelOrdersForMarket, Elapse120, handleOne, reconcileOne, vars, durable
    <3>3. CASE \E c \in Cancels : \/ cancelTrackedOrder(c) \/ ConfirmCancel(c)
                                  \/ reconcileMarketSubmission(c)
                                  \/ \E b \in Bets : CancelBet(c, b)
      BY <3>3 DEF cancelTrackedOrder, ConfirmCancel, reconcileMarketSubmission, CancelBet, durable
    <3> QED BY <1>1, <3>1, <3>2, <3>3 DEF Cancel
  <2> QED BY <2>1, <2>2, MarkedKeeps
<1>2. ASSUME NEW b \in Bets, Elapse300(b) PROVE MarkedInv'
  BY <1>2, ElapseMarked
<1>3. ASSUME NEW b \in Bets, Listen(b) PROVE MarkedInv'
  <2>1. CASE submitLimitOrder(b)
    <3>1. SameBets /\ submissions' = submissions /\ listener'.pc = "idle" /\ listener.bet \in Limit
      BY <2>1 DEF submitLimitOrder, SameBets, outside, Idle
    <3> QED BY <3>1, MarkedKeeps
  <2> QED BY <1>3, <2>1, TakeUpMarked, MarkMarked, PostMarked, FAKMarked DEF Listen
<1>4. ~Restart
  BY DEF Once, OnceInv, Restart
<1> QED BY <1>1, <1>2, <1>3, <1>4 DEF Next

\* It holds at first.
LEMMA MarkedInit == Init => MarkedInv
BY DEF Init, MarkedInv, Submitting, Idle

\* A stale marker without an order id stands for a FAK the CLOB never got, so that
\* reconcileMarketSubmission may fail the bet: as long as no accepting answer is lost
\* or without its id, submissions end within the windows, and nothing restarts.
THEOREM MarkerWithoutIdIsUnplaced ==
    ASSUME MaxRestarts = 0, Faults \cap {"lostResponse", "noOrderId", "slowSubmit"} = {}
    PROVE  Spec => []NoOrderIdMeansUnplaced
<1>1. Inv /\ OnceInv /\ MarkedInv /\ [Next]_vars => (Inv /\ OnceInv /\ MarkedInv)'
  BY NextInv, OnceNext, MarkedNext DEF Once, Prompt
<1>2. Init => Inv /\ OnceInv /\ MarkedInv
  BY InitInv, OnceInit, MarkedInit
<1>3. Inv /\ MarkedInv => NoOrderIdMeansUnplaced
  <2> SUFFICES ASSUME Inv, MarkedInv, NEW b \in Bets \ Limit,
                      submissions[b].age = "stale", submissions[b].order = NoOrder,
                      NEW o \in DOMAIN clob, clob[o].bet = b
               PROVE  FALSE
    BY DEF NoOrderIdMeansUnplaced
  <2>1. o \in 1..posted
    BY OrderNumbers DEF Inv
  <2>2. listener.pc = "response" /\ Submitting(b)
    BY <2>1 DEF MarkedInv, Submitting
  <2> QED BY <2>2 DEF MarkedInv
<1> QED BY <1>1, <1>2, <1>3, PTL DEF Spec

-----------------------------------------------------------------------------
(* The truth of an outcome.                                                *)

TruthInv == BoughtInv /\ AloneInv /\ HeldInv /\ OutcomeTruthful

\* The row tells what became of the bet, which has no order on the book.
IsTrue(b, row) ==
    /\ row.type # "none"
    /\ \A o \in 1..posted : clob[o].bet = b => ~clob[o].live
    /\ row.type = "FAILED" => bought[b] = 0
    /\ row.type = "PARTIAL" => bought[b] = row.shares
    /\ row.type = "FILLED" => bought[b] + Dust >= Shares

\* A calm environment keeps its answers, ids and windows.
LEMMA CalmIs ==
    ASSUME Calm
    PROVE  /\ Prompt
           /\ {"storeError", "transientMiss", "cancelError", "resolution", "sharedToken",
               "earlyCancel", "noOrderId", "slowSubmit", "lostResponse"} \cap Faults = {}
           /\ "crossing" \notin Faults \/ "purged" \notin Faults
BY DEF Calm, Prompt

\* Once a bet has a row, it has an outcome.
LEMMA StoreTrue ==
    ASSUME Inv, Calm, OutcomeTruthful, NEW b \in Bets, NEW row, IsTrue(b, row),
           signAndStoreAttestation(b, row), UNCHANGED <<clob, bought>>
    PROVE  /\ OutcomeTruthful'
           /\ \A x \in Bets : HasOutcome(x)' <=> HasOutcome(x) \/ x = b
<1>1. attestations' = [attestations EXCEPT ![b] = IF @ = NoRow THEN row ELSE @]
  BY CalmIs DEF signAndStoreAttestation
<1>2. attestations \in [Bets -> Row] /\ DOMAIN clob = 1..posted
  BY OrderNumbers DEF Inv, TypeOK, DurableOK
<1>3. row # NoRow
  BY DEF IsTrue, NoRow
<1>4. /\ \A x \in Bets : x # b => attestations'[x] = attestations[x]
      /\ attestations'[b] = IF attestations[b] = NoRow THEN row ELSE attestations[b]
  BY <1>1, <1>2
<1>5. OutcomeTruthful'
  BY <1>2, <1>4 DEF OutcomeTruthful, HasOutcome, IsTrue
<1> QED BY <1>3, <1>4, <1>5 DEF HasOutcome

\* A step that stores no row leaves the outcomes true.
LEMMA NothingStored ==
    ASSUME OutcomeTruthful, UNCHANGED <<attestations, clob, bought>>
    PROVE  /\ OutcomeTruthful'
           /\ \A x \in Bets : HasOutcome(x)' <=> HasOutcome(x)
BY DEF OutcomeTruthful, HasOutcome

\* An outcome read off all that was bought is true.
LEMMA ClassifyTrue ==
    ASSUME NEW b \in Bets, NEW fill \in Nat, bought[b] = fill,
           \A o \in 1..posted : clob[o].bet = b => ~clob[o].live
    PROVE  IsTrue(b, Classify(fill))
BY OrdersAssumption DEF IsTrue, Classify

\* A bet without an order may be failed.
LEMMA FailedTrue ==
    ASSUME BoughtInv, NEW b \in Bets, \A o \in 1..posted : clob[o].bet # b
    PROVE  IsTrue(b, FailedRow) /\ IsTrue(b, Classify(0))
BY OrdersAssumption DEF IsTrue, FailedRow, Classify, BoughtInv

\* The fill of a bet's order, once it is off the book, is the outcome.
LEMMA OrderTrue ==
    ASSUME Inv, OnceInv, BoughtInv, NEW o \in 1..posted, ~clob[o].live
    PROVE  IsTrue(clob[o].bet, Classify(Filled(o)))
<1>1. /\ DOMAIN clob = 1..posted /\ clob[o].bet \in Bets
      /\ clob[o].made \in 0..Shares /\ clob[o].taken \in 0..Shares
  BY OrderNumbers DEF Inv
<1>2. Filled(o) \in Nat /\ bought[clob[o].bet] = Filled(o)
  BY <1>1, OrdersAssumption DEF Filled, BoughtInv
<1>3. \A x \in 1..posted : clob[x].bet = clob[o].bet => ~clob[x].live
  BY <1>1 DEF OnceInv, SubmittedOnce
<1> QED BY <1>1, <1>2, <1>3, ClassifyTrue

\* What a /cancel-bet request may hold
FineRequest(r) ==
    /\ r.bet \in started /\ ~Submitting(r.bet)
    /\ r.pc = "cancel" => clob[r.order].bet \in Limit /\ clob[r.order].bet = r.bet
    /\ r.pc # "confirm"
    /\ r.pc = "reconcile" /\ r.order = NoOrder => \A o \in 1..posted : clob[o].bet # r.bet

\* Steps that attest, track or finalize, but take up no bet and do not touch the CLOB
LEMMA AttestKeeps ==
    ASSUME Inv, TruthInv, UNCHANGED <<clob, posted, bought, resolved, inFlight, started>>,
           listener' \in {listener, Idle}, OutcomeTruthful',
           \A x \in Bets : HasOutcome(x) => HasOutcome(x)',
           \A x \in Bets : HasOutcome(x)' /\ ~HasOutcome(x) => x \in started /\ ~Submitting(x)',
           \A o \in tracked' : clob[o].bet \in Limit /\ ~Submitting(clob[o].bet)',
           \A x \in finalized' : x \in Bets /\ HasOutcome(x)',
           \A o \in 1..posted : clob[o].bet \in Limit =>
               \/ o \in tracked' \/ HasOutcome(clob[o].bet)'
               \/ listener'.pc = "response" /\ listener'.order = o,
           \A c \in Cancels : cancels'[c] \in {Idle, cancels[c]} \/ FineRequest(cancels'[c])
    PROVE  TruthInv'
<1>1. \A x : Submitting(x)' => Submitting(x) /\ listener' = listener
  BY DEF Submitting, Idle
<1>2. BoughtInv'
  BY DEF TruthInv, BoughtInv, Filled
<1>3. AloneInv'
  <2>1. \A x \in Bets : Submitting(x)' => inFlight[x] = "active" /\ ~HasOutcome(x)'
    BY <1>1 DEF TruthInv, AloneInv
  <2>2. ASSUME NEW c \in Cancels
        PROVE  (cancels[c].pc # "idle" => cancels[c].bet \in started /\ ~Submitting(cancels[c].bet))'
    <3>1. PICK r : r = cancels'[c]
      OBVIOUS
    <3>2. r.pc # "idle" => r.bet \in started /\ ~Submitting(r.bet)
      BY <3>1 DEF TruthInv, AloneInv, FineRequest, Idle
    <3>3. r.pc # "idle" => r.bet \in started /\ ~Submitting(r.bet)'
      BY <1>1, <3>2
    <3> QED BY <3>1, <3>3 DEF Submitting
  <2>3. \A x \in Bets : HasOutcome(x)' => x \in started
    BY DEF TruthInv, AloneInv
  <2>4. started = {b \in Bets : inFlight[b] # "none"}
    BY DEF TruthInv, AloneInv
  <2>5. \A o \in tracked' : (clob[o].bet \in Limit /\ ~Submitting(clob[o].bet))'
    BY DEF Submitting
  <2> QED BY <2>1, <2>2, <2>3, <2>4, <2>5 DEF AloneInv
<1>4. HeldInv'
  <2>1. listener'.pc = "response" =>
         IF listener'.order = NoOrder
         THEN \A o \in 1..posted : clob[o].bet # listener'.bet
         ELSE listener'.fill # Unknown =>
                ~clob[listener'.order].live /\ Filled(listener'.order) = listener'.fill
    BY DEF TruthInv, HeldInv, Idle
  <2>2. ASSUME NEW c \in Cancels
        PROVE  /\ cancels'[c].pc \in {"cancel", "confirm"} =>
                    clob[cancels'[c].order].bet \in Limit /\ clob[cancels'[c].order].bet = cancels'[c].bet
               /\ cancels'[c].pc = "confirm" => ~clob[cancels'[c].order].live
               /\ cancels'[c].pc = "reconcile" /\ cancels'[c].order = NoOrder =>
                    \A o \in 1..posted : clob[o].bet # cancels'[c].bet
    <3>1. CASE cancels'[c] = Idle
      BY <3>1 DEF Idle
    <3>2. CASE cancels'[c] = cancels[c]
      BY <3>2 DEF TruthInv, HeldInv
    <3>3. CASE FineRequest(cancels'[c])
      BY <3>3 DEF FineRequest
    <3> QED BY <3>1, <3>2, <3>3
  <2> QED BY <2>1, <2>2 DEF HeldInv, Filled
<1> QED BY <1>2, <1>3, <1>4 DEF TruthInv

\* finalize, of the bet's order and with all that it filled
LEMMA FinalizeKeeps ==
    ASSUME Inv, OnceInv, TruthInv, Calm, NEW o \in 1..posted, ~clob[o].live,
           clob[o].bet \in Limit, ~Submitting(clob[o].bet), finalize(o, Filled(o)),
           UNCHANGED <<clob, posted, bought, resolved, inFlight, started, listener>>,
           \A c \in Cancels : cancels'[c] \in {Idle, cancels[c]}
    PROVE  TruthInv'
<1> DEFINE b == clob[o].bet
<1>1. b \in Bets /\ b \in started
  BY OrderNumbers DEF Inv, OnceInv, TruthInv, AloneInv
<1>2. /\ OutcomeTruthful'
      /\ \A x \in Bets : HasOutcome(x)' <=> HasOutcome(x) \/ x = b
  BY <1>1, OrderTrue, StoreTrue DEF TruthInv, finalize
<1>3. finalized' = finalized \cup {b} /\ tracked' = tracked \ {o}
  BY DEF finalize
<1>4. \A x \in Bets : Submitting(x)' <=> Submitting(x)
  BY DEF Submitting
<1>5. \A x \in 1..posted : clob[x].bet \in Bets
  BY OrderNumbers DEF Inv
<1>6. tracked \subseteq 1..posted
  BY DEF Inv, OrdersKnown
<1>7. \A x \in tracked' : clob[x].bet \in Limit /\ ~Submitting(clob[x].bet)'
  BY <1>3, <1>4, <1>5, <1>6 DEF TruthInv, AloneInv
<1>8. \A x \in finalized' : x \in Bets /\ HasOutcome(x)'
  BY <1>1, <1>2, <1>3 DEF TruthInv, AloneInv
<1>9. \A x \in 1..posted : clob[x].bet \in Limit =>
         \/ x \in tracked' \/ HasOutcome(clob[x].bet)'
         \/ listener'.pc = "response" /\ listener'.order = x
  <2> SUFFICES ASSUME NEW x \in 1..posted, clob[x].bet \in Limit
               PROVE  \/ x \in tracked' \/ HasOutcome(clob[x].bet)'
                      \/ listener'.pc = "response" /\ listener'.order = x
    OBVIOUS
  <2>1. PICK y \in Bets : y = clob[x].bet
    BY <1>5
  <2>2. x = o => HasOutcome(y)'
    BY <1>1, <1>2, <2>1
  <2>3. HasOutcome(y) => HasOutcome(y)'
    BY <1>2
  <2>4. HasOutcome(y)' => HasOutcome(clob[x].bet)'
    BY <2>1
  <2> QED BY <1>3, <2>1, <2>2, <2>3, <2>4 DEF TruthInv, HeldInv
<1>10. \A x \in Bets : HasOutcome(x)' /\ ~HasOutcome(x) => x \in started /\ ~Submitting(x)'
  BY <1>1, <1>2, <1>4
<1> QED BY <1>2, <1>7, <1>8, <1>9, <1>10, AttestKeeps

\* The tracker finalizes an order that it tracks, with what the order filled.
LEMMA TrackerTrue ==
    ASSUME Inv, OnceInv, TruthInv, Calm,
           \/ \E o \in OrderId : handleOne(o) \/ reconcileOne(o)
           \/ \E b \in Bets : cancelOrdersForMarket(b)
    PROVE  TruthInv'
<1>1. /\ tracked \subseteq 1..posted
      /\ \A t \in tracked : clob[t].bet \in Limit /\ ~Submitting(clob[t].bet)
  BY DEF Inv, OrdersKnown, TruthInv, AloneInv
<1>2. ASSUME NEW o \in OrderId, handleOne(o)
      PROVE  TruthInv'
  <2>1. PICK t \in findTracked(o) : finalize(t, Filled(o))
    BY <1>2 DEF handleOne
  <2>2. t \in tracked /\ clob[t].bet = clob[o].bet
    BY <2>1, CalmIs DEF findTracked
  <2>3. o \in 1..posted /\ ~clob[o].live
    BY <1>2 DEF handleOne
  <2>4. t = o
    BY <1>1, <2>2, <2>3, OrderNumbers DEF OnceInv, SubmittedOnce, Inv
  <2> QED BY <1>1, <1>2, <2>1, <2>2, <2>3, <2>4, FinalizeKeeps DEF handleOne, outside
<1>3. ASSUME NEW o \in OrderId, reconcileOne(o)
      PROVE  TruthInv'
  <2>1. o \in tracked
    BY <1>3 DEF reconcileOne
  <2>2. ~clob[o].live /\ finalize(o, Filled(o))
    <3>1. CASE Reported(o) /\ finalize(o, Filled(o))
      BY <3>1 DEF Reported
    <3>2. CASE MayMiss(o) /\ finalize(o, confirmFillViaTrades(o))
      <4>1. ~clob[o].live /\ "purged" \in Faults
        BY <3>2, CalmIs DEF MayMiss
      <4>2. clob[o].taken = 0 /\ clob[o].made \in Nat
        BY <1>1, <2>1, <4>1, OrderNumbers DEF TruthInv, BoughtInv, Inv
      <4>3. Filled(o) = confirmFillViaTrades(o)
        BY <4>2 DEF Filled, confirmFillViaTrades
      <4> QED BY <3>2, <4>1, <4>3
    <3> QED BY <1>3, <3>1, <3>2 DEF reconcileOne
  <2> QED BY <1>1, <1>3, <2>1, <2>2, FinalizeKeeps DEF reconcileOne, outside
<1>4. ASSUME NEW b \in Bets, cancelOrdersForMarket(b)
      PROVE  FALSE
  BY <1>4 DEF cancelOrdersForMarket, TruthInv, BoughtInv
<1> QED BY <1>2, <1>3, <1>4

\* A bet that no one deals with and whose marker has no order has none.
LEMMA NobodysBet ==
    ASSUME Inv, OnceInv, MarkedInv, TruthInv, NEW b \in Bets, ~isOrderTracked(b), ~HasOutcome(b),
           ~Submitting(b), submissions[b].order = NoOrder
    PROVE  \A o \in 1..posted : clob[o].bet # b
<1> SUFFICES ASSUME NEW o \in 1..posted, clob[o].bet = b PROVE FALSE
  OBVIOUS
<1>1. b \in Limit
  BY DEF MarkedInv, Submitting
<1>2. o \in tracked \/ (listener.pc = "response" /\ listener.order = o)
  BY <1>1 DEF TruthInv, HeldInv
<1>3. CASE o \in tracked
  BY <1>3 DEF isOrderTracked, TruthInv, AloneInv
<1>4. CASE listener.pc = "response" /\ listener.order = o
  BY <1>4 DEF Inv, ResponseBought, NoOrder, Submitting
<1> QED BY <1>2, <1>3, <1>4

\* A request that is taken in, goes on or ends, and decides nothing
LEMMA RequestKeeps ==
    ASSUME Inv, TruthInv, UNCHANGED <<attestations, tracked, finalized, inFlight, listener, outside,
                                      started>>,
           \A c \in Cancels : cancels'[c] \in {Idle, cancels[c]} \/ FineRequest(cancels'[c])
    PROVE  TruthInv'
<1>0. UNCHANGED <<clob, posted, bought, resolved>>
  BY DEF outside
<1>1. OutcomeTruthful' /\ \A x \in Bets : HasOutcome(x)' <=> HasOutcome(x)
  BY <1>0, NothingStored DEF TruthInv
<1>2. \A x : Submitting(x)' <=> Submitting(x)
  BY DEF Submitting
<1>3. \A x \in tracked' : clob[x].bet \in Limit /\ ~Submitting(clob[x].bet)'
  BY <1>0, <1>2 DEF TruthInv, AloneInv
<1>4. \A x \in finalized' : x \in Bets /\ HasOutcome(x)'
  BY <1>1 DEF TruthInv, AloneInv
<1>5. \A o \in 1..posted : clob[o].bet \in Limit =>
         \/ o \in tracked' \/ HasOutcome(clob[o].bet)'
         \/ listener'.pc = "response" /\ listener'.order = o
  BY <1>0 DEF TruthInv, HeldInv, HasOutcome
<1> QED BY <1>0, <1>1, <1>3, <1>4, <1>5, AttestKeeps

\* A row for a bet that is not with the listener, and nothing else
LEMMA RowKeeps ==
    ASSUME Inv, TruthInv, Calm, NEW b \in started, ~Submitting(b)', NEW row, IsTrue(b, row),
           signAndStoreAttestation(b, row), listener' \in {listener, Idle},
           UNCHANGED <<tracked, finalized, inFlight, outside, started>>,
           listener' = listener \/ listener.bet = b,
           \A c \in Cancels : cancels'[c] \in {Idle, cancels[c]}
    PROVE  TruthInv'
<1>0. b \in Bets /\ UNCHANGED <<clob, posted, bought, resolved>>
  BY DEF Inv, TypeOK, outside
<1>1. /\ OutcomeTruthful'
      /\ \A x \in Bets : HasOutcome(x)' <=> HasOutcome(x) \/ x = b
  BY <1>0, StoreTrue DEF TruthInv
<1>2. \A x : Submitting(x)' => Submitting(x)
  BY DEF Submitting, Idle
<1>3. \A x \in tracked' : clob[x].bet \in Limit /\ ~Submitting(clob[x].bet)'
  BY <1>0, <1>2 DEF TruthInv, AloneInv
<1>4. \A x \in finalized' : x \in Bets /\ HasOutcome(x)'
  BY <1>1 DEF TruthInv, AloneInv
<1>5. ASSUME NEW o \in 1..posted, clob[o].bet \in Limit
      PROVE  \/ o \in tracked' \/ HasOutcome(clob[o].bet)'
             \/ listener'.pc = "response" /\ listener'.order = o
  <2>1. PICK y \in Bets : y = clob[o].bet /\ y = clob'[o].bet
    BY <1>0, OrderNumbers DEF Inv
  <2>2. CASE listener.pc = "response" /\ listener.order = o /\ listener' # listener
    <3>0. o # NoOrder
      BY DEF NoOrder
    <3>1. y = b
      BY <2>1, <2>2, <3>0 DEF Inv, ResponseBought
    <3>2. HasOutcome(y)'
      BY <1>1, <2>1, <3>1
    <3> QED BY <2>1, <3>2
  <2>3. HasOutcome(y) => HasOutcome(y)'
    BY <1>1, <2>1
  <2>4. HasOutcome(y)' => HasOutcome(clob[o].bet)'
    BY <2>1
  <2> QED BY <1>5, <2>1, <2>2, <2>3, <2>4 DEF TruthInv, HeldInv
<1>6. \A x \in Bets : HasOutcome(x)' /\ ~HasOutcome(x) => x \in started /\ ~Submitting(x)'
  BY <1>1
<1> QED BY <1>0, <1>1, <1>3, <1>4, <1>5, <1>6, AttestKeeps

\* /cancel-bet is for a bet no submission is under way for; it fails one without an order.
LEMMA CancelBetTrue ==
    ASSUME Inv, OnceInv, MarkedInv, TruthInv, Calm, NEW c \in Cancels, NEW b \in Bets,
           CancelBet(c, b)
    PROVE  TruthInv'
<1>1. /\ b \in started /\ ~HasOutcome(b)
      /\ UNCHANGED <<submissions, rows, tracked, finalized, inFlight, listener, outside, started>>
  BY CalmIs DEF CancelBet, memory
<1>2. cancels \in [Cancels -> {Idle} \cup [pc : CancelPC, bet : Bets, order : OrderId \cup {NoOrder}]]
  BY DEF Inv, TypeOK, CancelsOK
<1>3. ASSUME NEW r, FineRequest(r), cancels' = [cancels EXCEPT ![c] = r], UNCHANGED attestations
      PROVE  TruthInv'
  <2>1. \A x \in Cancels : cancels'[x] \in {Idle, cancels[x]} \/ FineRequest(cancels'[x])
    <3>1. \A x \in Cancels : cancels'[x] = cancels[x] \/ cancels'[x] = r
      BY <1>2, <1>3
    <3> QED BY <1>3, <3>1
  <2> QED BY <1>1, <1>3, <2>1, RequestKeeps
<1>4. CASE isOrderTracked(b) /\ cancels' = [cancels EXCEPT ![c] = Request("client", b, NoOrder)]
           /\ UNCHANGED attestations
  <2>1. ~Submitting(b)
    BY <1>4 DEF isOrderTracked, TruthInv, AloneInv
  <2>2. FineRequest(Request("client", b, NoOrder))
    BY <1>1, <2>1 DEF FineRequest, Request
  <2> QED BY <1>3, <1>4, <2>2
<1>5. ASSUME ~isOrderTracked(b), NotActivelySubmitting(b), submissions[b].order = NoOrder
      PROVE  \A o \in 1..posted : clob[o].bet # b
  <2>1. ~Submitting(b)
    BY <1>5 DEF NotActivelySubmitting, TruthInv, AloneInv
  <2> QED BY <1>1, <1>5, <2>1, NobodysBet
<1>6. CASE /\ ~isOrderTracked(b) /\ NotActivelySubmitting(b)
           /\ cancels' = [cancels EXCEPT ![c] = Request("reconcile", b, submissions[b].order)]
           /\ UNCHANGED attestations
  <2>1. ~Submitting(b)
    BY <1>6 DEF NotActivelySubmitting, TruthInv, AloneInv
  <2>2. FineRequest(Request("reconcile", b, submissions[b].order))
    BY <1>1, <1>5, <1>6, <2>1 DEF FineRequest, Request
  <2> QED BY <1>3, <1>6, <2>2
<1>7. CASE /\ ~isOrderTracked(b) /\ NotActivelySubmitting(b) /\ submissions[b] = NoSubmission
           /\ signAndStoreAttestation(b, FailedRow) /\ UNCHANGED cancels
  <2>1. IsTrue(b, FailedRow)
    BY <1>5, <1>7, FailedTrue DEF TruthInv, NoSubmission
  <2>2. ~Submitting(b)'
    BY <1>1, <1>7 DEF NotActivelySubmitting, TruthInv, AloneInv, Submitting
  <2> QED BY <1>1, <1>7, <2>1, <2>2, RowKeeps
<1> QED BY <1>4, <1>6, <1>7 DEF CancelBet

\* cancelTrackedOrder is for an order of the bet; it finalizes the order once it is off
\* the book, with what it filled.
LEMMA CancelTrue ==
    ASSUME Inv, OnceInv, TruthInv, Calm, NEW c \in Cancels,
           cancelTrackedOrder(c) \/ ConfirmCancel(c) \/ reconcileMarketSubmission(c)
    PROVE  TruthInv'
<1> DEFINE b == cancels[c].bet
           o == cancels[c].order
<1>1. cancels \in [Cancels -> {Idle} \cup [pc : CancelPC, bet : Bets, order : OrderId \cup {NoOrder}]]
  BY DEF Inv, TypeOK, CancelsOK
<1>2. cancels[c].pc # "idle" => b \in started /\ ~Submitting(b)
  BY DEF TruthInv, AloneInv
<1>3. CASE cancelTrackedOrder(c)
  <2>1. cancels[c].pc # "idle"
        /\ UNCHANGED <<attestations, tracked, finalized, inFlight, listener, outside, started>>
    BY <1>3 DEF cancelTrackedOrder, durable, memory
  <2>2. \/ cancels' = [cancels EXCEPT ![c] = Idle]
        \/ \E t \in tracked : clob[t].bet = b /\ cancels' = [cancels EXCEPT ![c] = Request("cancel", b, t)]
    BY <1>3 DEF cancelTrackedOrder
  <2>3. ASSUME NEW t \in tracked, clob[t].bet = b
        PROVE  FineRequest(Request("cancel", b, t))
    BY <1>2, <2>1, <2>3 DEF FineRequest, Request, TruthInv, AloneInv
  <2>4. \A x \in Cancels : cancels'[x] \in {Idle, cancels[x]} \/ FineRequest(cancels'[x])
    <3>1. CASE cancels' = [cancels EXCEPT ![c] = Idle]
      BY <1>1, <3>1
    <3>2. ASSUME NEW t \in tracked, clob[t].bet = b, cancels' = [cancels EXCEPT ![c] = Request("cancel", b, t)]
          PROVE  \A x \in Cancels : cancels'[x] \in {Idle, cancels[x]} \/ FineRequest(cancels'[x])
      <4>1. \A x \in Cancels : cancels'[x] = cancels[x] \/ cancels'[x] = Request("cancel", b, t)
        BY <1>1, <3>2
      <4> QED BY <2>3, <3>2, <4>1
    <3> QED BY <2>2, <3>1, <3>2
  <2> QED BY <2>1, <2>4, RequestKeeps
<1>4. CASE ConfirmCancel(c)
  <2>1. /\ cancels[c].pc = "confirm"
        /\ \A x \in Cancels : cancels'[x] \in {Idle, cancels[x]}
        /\ UNCHANGED <<inFlight, listener, outside, started>>
    BY <1>1, <1>4 DEF ConfirmCancel
  <2>2. ~clob[o].live /\ clob[o].bet = b /\ b \in Limit /\ o \in 1..posted
    BY <2>1 DEF TruthInv, HeldInv, Inv, OrdersKnown
  <2>3. CASE UNCHANGED <<attestations, tracked, finalized>>
    BY <2>1, <2>3, RequestKeeps
  <2>4. CASE finalize(o, Filled(o))
    BY <1>2, <2>1, <2>2, <2>4, FinalizeKeeps DEF outside
  <2>5. CASE MayMiss(o) /\ finalize(o, confirmFillViaTrades(o))
    <3>1. clob[o].taken = 0 /\ clob[o].made \in Nat
      BY <2>2, <2>5, OrderNumbers DEF TruthInv, BoughtInv, Inv, MayMiss
    <3>2. Filled(o) = confirmFillViaTrades(o)
      BY <3>1 DEF Filled, confirmFillViaTrades
    <3>3. finalize(o, Filled(o))
      BY <2>5, <3>2
    <3> QED BY <2>4, <3>3
  <2> QED BY <1>4, <2>2, <2>3, <2>4, <2>5 DEF ConfirmCancel
<1>5. CASE reconcileMarketSubmission(c)
  <2>1. /\ cancels[c].pc = "reconcile"
        /\ \A x \in Cancels : cancels'[x] \in {Idle, cancels[x]}
        /\ UNCHANGED <<tracked, finalized, inFlight, listener, outside, started>>
    BY <1>1, <1>5 DEF reconcileMarketSubmission, memory
  <2>2. PICK y \in started : y = b /\ ~Submitting(y)'
    BY <1>2, <2>1 DEF Submitting
  <2>3. y \in Bets
    BY <2>2 DEF Inv, TypeOK
  <2>4. CASE UNCHANGED attestations
    BY <2>1, <2>4, RequestKeeps
  <2>5. CASE o = NoOrder /\ signAndStoreAttestation(b, FailedRow)
    <3>1. \A x \in 1..posted : clob[x].bet # y
      BY <2>1, <2>2, <2>5 DEF TruthInv, HeldInv
    <3>2. IsTrue(y, FailedRow)
      BY <2>3, <3>1, FailedTrue DEF TruthInv
    <3> QED BY <2>1, <2>2, <2>5, <3>2, RowKeeps
  <2>6. CASE o # NoOrder /\ Reported(o) /\ signAndStoreAttestation(b, Classify(Filled(o)))
    <3>1. o \in 1..posted /\ clob[o].bet = y
      BY <2>1, <2>2, <2>6 DEF Inv, OrdersKnown
    <3>2. IsTrue(y, Classify(Filled(o)))
      BY <2>6, <3>1, OrderTrue DEF TruthInv, Reported
    <3> QED BY <2>1, <2>2, <2>6, <3>2, RowKeeps
  <2> QED BY <1>5, <2>4, <2>5, <2>6 DEF reconcileMarketSubmission
<1> QED BY <1>3, <1>4, <1>5

\* The CLOB fills or removes orders on the book, whose bets are undecided.
LEMMA BookKeeps ==
    ASSUME Inv, Inv', TruthInv,
           UNCHANGED <<durable, memory, listener, started, posted, resolved>>,
           \A o \in 1..posted : /\ clob'[o].bet = clob[o].bet /\ clob'[o].taken = clob[o].taken
                                /\ ~clob[o].live => clob'[o] = clob[o],
           \A o \in 1..posted : bought'[clob[o].bet] = clob'[o].made + clob'[o].taken,
           \A b \in Bets : (\A o \in 1..posted : clob[o].bet = b => ~clob[o].live)
               => bought'[b] = bought[b],
           \A c \in Cancels :
               \/ cancels'[c] = cancels[c]
               \/ cancels[c].pc = "cancel" /\ ~clob'[cancels[c].order].live
                  /\ cancels'[c] = Request("confirm", cancels[c].bet, cancels[c].order)
    PROVE  TruthInv'
<1>1. DOMAIN clob = 1..posted /\ DOMAIN clob' = 1..posted
  BY OrderNumbers DEF Inv, TypeOK, OutsideOK
<1>2. \A x : Submitting(x)' <=> Submitting(x)
  BY DEF Submitting
<1>3. \A x : HasOutcome(x)' <=> HasOutcome(x)
  BY DEF HasOutcome, durable
<1>4. \A o \in 1..posted : clob[o].bet \in Bets
  BY OrderNumbers DEF Inv
<1>5. BoughtInv'
  <2>1. \A b \in Bets : (\A o \in 1..posted : clob'[o].bet # b) => bought'[b] = 0
    BY DEF TruthInv, BoughtInv
  <2>2. "purged" \in Faults =>
           \A o \in 1..posted : clob'[o].bet \in Limit => clob'[o].taken = 0
    BY DEF TruthInv, BoughtInv
  <2> QED BY <2>1, <2>2 DEF BoughtInv, TruthInv, Filled
<1>6. OutcomeTruthful'
  <2> SUFFICES ASSUME NEW b \in Bets, HasOutcome(b)
               PROVE  /\ \A o \in DOMAIN clob' : clob'[o].bet = b => ~clob'[o].live
                      /\ attestations[b].type = "FAILED" => bought'[b] = 0
                      /\ attestations[b].type = "PARTIAL" => bought'[b] = attestations[b].shares
                      /\ attestations[b].type = "FILLED" => bought'[b] + Dust >= Shares
    BY <1>3 DEF OutcomeTruthful, durable
  <2>1. \A o \in 1..posted : clob[o].bet = b => ~clob[o].live
    BY <1>1 DEF TruthInv, OutcomeTruthful
  <2>2. bought'[b] = bought[b]
    BY <2>1
  <2> QED BY <1>1, <2>1, <2>2 DEF TruthInv, OutcomeTruthful
<1>7. AloneInv'
  <2>1. \A o \in tracked : clob'[o].bet \in Limit /\ ~Submitting(clob[o].bet)
    BY DEF TruthInv, AloneInv, Inv, OrdersKnown
  <2>2. \A o \in tracked : clob'[o].bet \in Limit /\ (~Submitting(clob[o].bet))'
    BY <2>1 DEF Submitting, Inv, OrdersKnown
  <2>3. ASSUME NEW c \in Cancels
        PROVE  (cancels[c].pc # "idle" => cancels[c].bet \in started /\ ~Submitting(cancels[c].bet))'
    <3>1. PICK r : r = cancels'[c]
      OBVIOUS
    <3>2. r.pc # "idle" => cancels[c].pc # "idle" /\ r.bet = cancels[c].bet
      <4>1. CASE r = cancels[c]
        BY <4>1
      <4>2. CASE cancels[c].pc = "cancel" /\ r = Request("confirm", cancels[c].bet, cancels[c].order)
        BY <4>2 DEF Request
      <4> QED BY <3>1, <4>1, <4>2
    <3>3. r.pc # "idle" => r.bet \in started /\ ~Submitting(r.bet)
      BY <3>2 DEF TruthInv, AloneInv
    <3> QED BY <1>2, <3>1, <3>3 DEF Submitting
  <2> QED BY <1>2, <1>3, <2>2, <2>3 DEF TruthInv, AloneInv, memory
<1>8. HeldInv'
  <2>1. listener.pc = "response" =>
         IF listener.order = NoOrder
         THEN \A o \in 1..posted : clob'[o].bet # listener.bet
         ELSE listener.fill # Unknown =>
                ~clob'[listener.order].live /\ Filled(listener.order)' = listener.fill
    <3>1. listener.pc = "response" /\ listener.order # NoOrder => listener.order \in 1..posted
      BY DEF Inv, ResponseBought
    <3> QED BY <3>1 DEF TruthInv, HeldInv, Filled
  <2>2. ASSUME NEW o \in 1..posted, clob'[o].bet \in Limit
        PROVE  \/ o \in tracked \/ HasOutcome(clob[o].bet)
               \/ listener.pc = "response" /\ listener.order = o
    BY <2>2 DEF TruthInv, HeldInv
  <2>3. ASSUME NEW c \in Cancels
        PROVE  /\ cancels'[c].pc \in {"cancel", "confirm"} =>
                    clob'[cancels'[c].order].bet \in Limit /\ clob'[cancels'[c].order].bet = cancels'[c].bet
               /\ cancels'[c].pc = "confirm" => ~clob'[cancels'[c].order].live
               /\ cancels'[c].pc = "reconcile" /\ cancels'[c].order = NoOrder =>
                    \A o \in 1..posted : clob'[o].bet # cancels'[c].bet
    <3>1. cancels[c].pc \in {"cancel", "confirm"} => cancels[c].order \in 1..posted
      BY DEF Inv, OrdersKnown
    <3>2. CASE cancels'[c] = cancels[c]
      BY <3>1, <3>2 DEF TruthInv, HeldInv
    <3>3. CASE /\ cancels[c].pc = "cancel" /\ ~clob'[cancels[c].order].live
               /\ cancels'[c] = Request("confirm", cancels[c].bet, cancels[c].order)
      BY <3>1, <3>3 DEF TruthInv, HeldInv, Request
    <3> QED BY <3>2, <3>3
  <2>4. \A o \in 1..posted : HasOutcome(clob[o].bet) => HasOutcome(clob[o].bet)'
    <3> SUFFICES ASSUME NEW o \in 1..posted, HasOutcome(clob[o].bet) PROVE HasOutcome(clob[o].bet)'
      OBVIOUS
    <3>1. PICK y : y = clob[o].bet /\ y = clob'[o].bet
      OBVIOUS
    <3> QED BY <1>3, <3>1 DEF HasOutcome
  <2> QED BY <2>1, <2>2, <2>3, <2>4 DEF HeldInv, memory
<1> QED BY <1>5, <1>6, <1>7, <1>8 DEF TruthInv

\* An order that leaves the book keeps its fill.
LEMMA OffBookTrue ==
    ASSUME Inv, Inv', TruthInv, NEW x \in 1..posted, clob' = [clob EXCEPT ![x] = OffBook(@)],
           UNCHANGED <<durable, memory, listener, started, posted, resolved, bought>>,
           \A c \in Cancels :
               \/ cancels'[c] = cancels[c]
               \/ cancels[c].pc = "cancel" /\ cancels[c].order = x
                  /\ cancels'[c] = Request("confirm", cancels[c].bet, cancels[c].order)
    PROVE  TruthInv'
<1>1. DOMAIN clob = 1..posted /\ \A o \in 1..posted : clob[o] \in Order
  BY OrderNumbers DEF Inv
<1>2. \A o \in 1..posted : o # x => clob'[o] = clob[o]
  BY <1>1
<1>3. clob'[x] = OffBook(clob[x])
  BY <1>1
<1>4. \A o \in 1..posted : /\ clob'[o].bet = clob[o].bet /\ clob'[o].taken = clob[o].taken
                           /\ clob'[o].made = clob[o].made
                           /\ ~clob[o].live => clob'[o] = clob[o]
  BY <1>1, <1>2, <1>3 DEF OffBook, Order
<1>5. \A o \in 1..posted : bought'[clob[o].bet] = clob'[o].made + clob'[o].taken
  BY <1>4 DEF TruthInv, BoughtInv, Filled
<1>6. ~clob'[x].live
  BY <1>3 DEF OffBook
<1> HIDE DEF OffBook
<1>7. \A c \in Cancels :
               \/ cancels'[c] = cancels[c]
               \/ cancels[c].pc = "cancel" /\ ~clob'[cancels[c].order].live
                  /\ cancels'[c] = Request("confirm", cancels[c].bet, cancels[c].order)
  BY <1>6
<1> QED BY <1>4, <1>5, <1>7, BookKeeps

\* What fills is bought for the one bet of the order.
LEMMA FillTrue ==
    ASSUME Inv, Inv', OnceInv, TruthInv, NEW x \in OrderId, Fill(x)
    PROVE  TruthInv'
<1>1. /\ x \in 1..posted /\ clob[x].live
      /\ UNCHANGED <<durable, memory, listener, cancels, started, posted, resolved>>
      /\ clob' = [clob EXCEPT ![x] = [bet |-> @.bet, live |-> Filled(x) + 1 < Shares,
                                      made |-> @.made + 1, taken |-> @.taken]]
      /\ bought' = [bought EXCEPT ![clob[x].bet] = @ + 1]
  BY DEF Fill, tasks
<1>2. /\ DOMAIN clob = 1..posted /\ bought \in [Bets -> Nat]
      /\ \A o \in 1..posted : clob[o] \in Order /\ clob[o].bet \in Bets
                              /\ clob[o].made \in Nat /\ clob[o].taken \in Nat
  BY OrderNumbers DEF Inv, TypeOK, OutsideOK
<1>3. \A o \in 1..posted : o # x => clob'[o] = clob[o]
  BY <1>1, <1>2
<1>4. clob'[x] = [bet |-> clob[x].bet, live |-> Filled(x) + 1 < Shares,
                  made |-> clob[x].made + 1, taken |-> clob[x].taken]
  BY <1>1, <1>2
<1>5. clob'[x].bet = clob[x].bet /\ clob'[x].made = clob[x].made + 1 /\ clob'[x].taken = clob[x].taken
  BY <1>4
<1>6. /\ bought'[clob[x].bet] = bought[clob[x].bet] + 1
      /\ \A b \in Bets : b # clob[x].bet => bought'[b] = bought[b]
  BY <1>1, <1>2
<1>7. \A o \in 1..posted : clob[o].bet = clob[x].bet => o = x
  BY <1>1, <1>2 DEF OnceInv, SubmittedOnce
<1>8. bought[clob[x].bet] = clob[x].made + clob[x].taken
  BY <1>1 DEF TruthInv, BoughtInv, Filled
<1>9. ASSUME NEW o \in 1..posted
      PROVE  bought'[clob[o].bet] = clob'[o].made + clob'[o].taken
  <2>1. CASE o = x
    <3>1. PICK m \in Nat, t \in Nat : m = clob[x].made /\ t = clob[x].taken
      BY <1>1, <1>2
    <3>2. bought'[clob[x].bet] = (m + t) + 1 /\ clob'[x].made = m + 1 /\ clob'[x].taken = t
      BY <1>5, <1>6, <1>8, <3>1
    <3>3. (m + t) + 1 = (m + 1) + t
      OBVIOUS
    <3> QED BY <2>1, <3>2, <3>3
  <2>2. CASE o # x
    BY <1>2, <1>3, <1>6, <1>7, <2>2 DEF TruthInv, BoughtInv, Filled
  <2> QED BY <2>1, <2>2
<1>10. \A o \in 1..posted : /\ clob'[o].bet = clob[o].bet /\ clob'[o].taken = clob[o].taken
                            /\ ~clob[o].live => clob'[o] = clob[o]
  BY <1>1, <1>3, <1>5
<1>11. \A b \in Bets : (\A o \in 1..posted : clob[o].bet = b => ~clob[o].live)
               => bought'[b] = bought[b]
  BY <1>1, <1>6
<1> QED BY <1>1, <1>9, <1>10, <1>11, BookKeeps

\* The CLOB cancels the order of the request, fills one, or lets one expire.
LEMMA ClobTrue ==
    ASSUME Inv, Inv', OnceInv, TruthInv, Calm,
           \/ \E c \in Cancels : CancelAtCLOB(c)
           \/ \E o \in OrderId : Fill(o) \/ Expire(o)
           \/ \E b \in Bets : Resolve(b)
    PROVE  TruthInv'
<1>1. ASSUME NEW c \in Cancels, CancelAtCLOB(c) PROVE TruthInv'
  <2>1. /\ cancels[c].pc = "cancel" /\ clob' = [clob EXCEPT ![cancels[c].order] = OffBook(@)]
        /\ cancels' = [cancels EXCEPT ![c] = Request("confirm", @.bet, @.order)]
        /\ UNCHANGED <<durable, memory, listener, started, posted, resolved, bought>>
    BY <1>1, CalmIs DEF CancelAtCLOB
  <2>2. cancels[c].order \in 1..posted
    BY <2>1 DEF Inv, OrdersKnown
  <2>3. \A y \in Cancels : y # c => cancels'[y] = cancels[y]
    BY <2>1 DEF Inv, TypeOK, CancelsOK
  <2>4. cancels'[c] = Request("confirm", cancels[c].bet, cancels[c].order)
    BY <2>1 DEF Inv, TypeOK, CancelsOK
  <2> QED BY <2>1, <2>2, <2>3, <2>4, OffBookTrue
<1>2. ASSUME NEW o \in OrderId, Expire(o) PROVE TruthInv'
  BY <1>2, OffBookTrue DEF Expire, tasks
<1>3. ASSUME NEW b \in Bets, Resolve(b) PROVE FALSE
  BY <1>3, CalmIs DEF Resolve
<1> QED BY <1>1, <1>2, <1>3, FillTrue

\* The clock passes no window of a submission that is under way.
LEMMA ClockTrue ==
    ASSUME Inv, Inv', TruthInv, Calm,
           (\E b \in Bets : Elapse120(b) \/ Elapse300(b)) \/ UNCHANGED vars
    PROVE  TruthInv'
<1>1. ASSUME NEW b \in Bets, Elapse120(b) PROVE TruthInv'
  <2>1. /\ inFlight[b] = "active" /\ ~Submitting(b) /\ inFlight' = [inFlight EXCEPT ![b] = "stale"]
        /\ UNCHANGED <<durable, tracked, finalized, listener, cancels, outside, started>>
    BY <1>1, CalmIs DEF Elapse120, tasks
  <2>2. /\ \A x \in Bets : inFlight'[x] # "none" <=> inFlight[x] # "none"
        /\ \A x \in Bets : x # b => inFlight'[x] = inFlight[x]
    BY <2>1 DEF Inv, TypeOK, MemoryOK
  <2> QED BY <2>1, <2>2 DEF TruthInv, BoughtInv, AloneInv, HeldInv, OutcomeTruthful, HasOutcome,
                            Submitting, Filled, durable, outside
<1>2. CASE (\E b \in Bets : Elapse300(b)) \/ UNCHANGED vars
  <2>1. UNCHANGED <<attestations, tracked, finalized, inFlight, listener, cancels, outside, started>>
    BY <1>2 DEF Elapse300, vars, durable, memory, tasks
  <2> QED BY <2>1, RequestKeeps
<1> QED BY <1>1, <1>2

\* Until the POST the listener's bet has no order, and no one else deals with it.
LEMMA BeforePost ==
    ASSUME Inv, OnceInv, TruthInv, NEW b \in Bets,
           \E pc \in {"fund", "mark", "post"} : listener = At(pc, b)
    PROVE  /\ b \in started /\ Submitting(b) /\ ~HasOutcome(b) /\ inFlight[b] = "active"
           /\ \A o \in 1..posted : clob[o].bet # b
           /\ IsTrue(b, FailedRow)
<1>1. Submitting(b) /\ \A o \in 1..posted : clob[o].bet # b
  BY DEF OnceInv, At, Submitting
<1>2. inFlight[b] = "active" /\ ~HasOutcome(b) /\ b \in started
  BY <1>1 DEF TruthInv, AloneInv
<1> QED BY <1>1, <1>2, FailedTrue DEF TruthInv

\* The listener turns to a bet, goes on with one before the POST, or lets it go.
LEMMA ListenerMoves ==
    ASSUME Inv, TruthInv, listener.pc # "response",
           UNCHANGED <<attestations, tracked, finalized, inFlight, cancels, outside, started>>,
           \/ listener'.pc \in {"idle", "record"}
           \/ /\ listener.pc \in {"fund", "mark", "post"} /\ listener'.pc \in {"mark", "post"}
              /\ listener'.bet = listener.bet
           \/ /\ listener.pc = "post" /\ listener'.pc = "response" /\ listener'.order = NoOrder
              /\ listener'.bet = listener.bet
              /\ \A o \in 1..posted : clob[o].bet # listener.bet
    PROVE  TruthInv'
<1>0. UNCHANGED <<clob, posted, bought, resolved>>
  BY DEF outside
<1>1. OutcomeTruthful' /\ \A x \in Bets : HasOutcome(x)' <=> HasOutcome(x)
  BY <1>0, NothingStored DEF TruthInv
<1>2. \A x : Submitting(x)' => Submitting(x)
  BY DEF Submitting
<1>3. BoughtInv'
  BY <1>0 DEF TruthInv, BoughtInv, Filled
<1>4. AloneInv'
  <2>1. \A o \in tracked : (clob[o].bet \in Limit /\ ~Submitting(clob[o].bet))'
    BY <1>0, <1>2 DEF TruthInv, AloneInv, Submitting
  <2>2. \A c \in Cancels : (cancels[c].pc # "idle" =>
             cancels[c].bet \in started /\ ~Submitting(cancels[c].bet))'
    BY <1>2 DEF TruthInv, AloneInv, Submitting
  <2> QED BY <1>1, <1>2, <2>1, <2>2 DEF TruthInv, AloneInv
<1>5. HeldInv'
  <2>1. \A o \in 1..posted : clob[o].bet \in Limit => o \in tracked \/ HasOutcome(clob[o].bet)'
    BY <1>0 DEF TruthInv, HeldInv, HasOutcome
  <2>2. listener'.pc = "response" =>
           listener'.order = NoOrder /\ \A o \in 1..posted : clob[o].bet # listener'.bet
    OBVIOUS
  <2> QED BY <1>0, <2>1, <2>2 DEF TruthInv, HeldInv, Filled
<1> QED BY <1>1, <1>3, <1>4, <1>5 DEF TruthInv

\* A bet is taken up; it may be failed at once.
LEMMA TakeUpTrue ==
    ASSUME Inv, OnceInv, TruthInv, Calm, NEW b \in Bets, processBetEvent(b)
    PROVE  TruthInv'
<1>1. /\ listener = At("record", b) /\ listener' \in {Idle, At("fund", b)}
      /\ UNCHANGED <<tracked, finalized, cancels, outside>>
  BY DEF processBetEvent
<1>2. CASE listener' = Idle /\ UNCHANGED <<inFlight, started, attestations>>
  BY <1>1, <1>2, ListenerMoves DEF At, Idle
<1>3. CASE /\ inFlight' = [inFlight EXCEPT ![b] = "active"] /\ started' = started \cup {b}
           /\ \/ signAndStoreAttestation(b, FailedRow) /\ listener' = Idle
              \/ listener' = At("fund", b) /\ UNCHANGED attestations
  <2>1. /\ inFlight[b] = "none" /\ b \notin started
        /\ \A o \in 1..posted : clob[o].bet # b
    BY <1>1 DEF OnceInv, TruthInv, AloneInv, At
  <2>2. ~HasOutcome(b)
    BY <2>1 DEF TruthInv, AloneInv
  <2>3. UNCHANGED <<clob, posted, bought, resolved>>
    BY <1>1 DEF outside
  <2>4. OutcomeTruthful' /\ \A x \in Bets : /\ HasOutcome(x) => HasOutcome(x)'
                                            /\ HasOutcome(x)' => HasOutcome(x) \/ (x = b /\ listener' = Idle)
    <3>1. CASE signAndStoreAttestation(b, FailedRow) /\ listener' = Idle
      <4>1. IsTrue(b, FailedRow)
        BY <2>1, FailedTrue DEF TruthInv
      <4> QED BY <2>3, <3>1, <4>1, StoreTrue DEF TruthInv
    <3>2. CASE listener' = At("fund", b) /\ UNCHANGED attestations
      BY <2>3, <3>2, NothingStored DEF TruthInv
    <3> QED BY <1>3, <3>1, <3>2
  <2>5. \A x : Submitting(x)' => x = b /\ listener' = At("fund", b)
    BY <1>1 DEF Submitting, At, Idle
  <2>6. BoughtInv'
    BY <2>3 DEF TruthInv, BoughtInv, Filled
  <2>7. AloneInv'
    <3>1. \A x \in Bets : inFlight'[x] = IF x = b THEN "active" ELSE inFlight[x]
      BY <1>3 DEF Inv, TypeOK, MemoryOK
    <3>2. started' = {x \in Bets : inFlight'[x] # "none"}
      BY <1>3, <3>1 DEF TruthInv, AloneInv
    <3>3. \A x \in Bets : HasOutcome(x)' => x \in started'
      BY <1>3, <2>4 DEF TruthInv, AloneInv
    <3>4. \A x \in Bets : Submitting(x)' => inFlight'[x] = "active" /\ ~HasOutcome(x)'
      <4> SUFFICES ASSUME NEW x \in Bets, Submitting(x)'
                   PROVE  inFlight'[x] = "active" /\ ~HasOutcome(x)'
        OBVIOUS
      <4>1. x = b /\ listener' # Idle
        BY <2>5 DEF At, Idle
      <4> QED BY <2>2, <2>4, <3>1, <4>1
    <3>5. \A o \in tracked' : clob'[o].bet \in Limit /\ ~Submitting(clob[o].bet)'
      <4>1. \A o \in tracked : clob[o].bet # b /\ clob[o].bet \in Limit
        BY <2>1 DEF Inv, OrdersKnown, TruthInv, AloneInv
      <4>2. \A o \in tracked : clob'[o].bet # b
        BY <2>3, <4>1
      <4> QED BY <1>1, <2>3, <2>5, <4>1, <4>2 DEF Submitting
    <3>6. \A c \in Cancels : (cancels[c].pc # "idle" =>
               cancels[c].bet \in started /\ ~Submitting(cancels[c].bet))'
      <4>1. \A c \in Cancels : cancels[c].pc # "idle" => cancels[c].bet \in started /\ cancels[c].bet # b
        BY <2>1 DEF TruthInv, AloneInv
      <4> QED BY <1>1, <1>3, <2>5, <4>1 DEF Submitting
    <3>7. finalized' \subseteq {x \in Bets : HasOutcome(x)'}
      BY <1>1, <2>4 DEF TruthInv, AloneInv
    <3> QED BY <3>2, <3>3, <3>4, <3>5, <3>6, <3>7 DEF AloneInv
  <2>8. HeldInv'
    <3>1. ASSUME NEW o \in 1..posted, clob[o].bet \in Limit
          PROVE  o \in tracked \/ HasOutcome(clob[o].bet)'
      <4>1. PICK y \in Bets : y = clob[o].bet /\ y = clob'[o].bet
        BY <2>3, OrderNumbers DEF Inv
      <4>2. o \in tracked \/ HasOutcome(y)
        BY <1>1, <3>1, <4>1 DEF TruthInv, HeldInv, At
      <4>3. HasOutcome(y) => HasOutcome(y)'
        BY <2>4
      <4>4. HasOutcome(y)' => HasOutcome(clob[o].bet)'
        BY <4>1 DEF HasOutcome
      <4> QED BY <4>2, <4>3, <4>4
    <3>2. listener'.pc # "response"
      BY <1>1 DEF At, Idle
    <3> QED BY <1>1, <2>3, <3>1, <3>2 DEF TruthInv, HeldInv, Filled
  <2> QED BY <2>4, <2>6, <2>7, <2>8 DEF TruthInv
<1> QED BY <1>2, <1>3 DEF processBetEvent

\* Before the POST the listener goes on, lets the bet go or fails it.
LEMMA ToPostTrue ==
    ASSUME Inv, OnceInv, TruthInv, Calm, NEW b \in Bets,
           handleBetRecord(b) \/ Fund(b) \/ markMarketSubmitting(b)
    PROVE  TruthInv'
<1>1. CASE handleBetRecord(b)
  BY <1>1, ListenerMoves DEF handleBetRecord, At, durable, memory
<1>2. CASE markMarketSubmitting(b)
  BY <1>2, ListenerMoves DEF markMarketSubmitting, At, memory
<1>3. CASE Fund(b)
  <2>1. listener = At("fund", b)
        /\ UNCHANGED <<tracked, finalized, inFlight, cancels, outside, started>>
    BY <1>3 DEF Fund, memory
  <2>2. CASE listener' \in {Idle, At("mark", b), At("post", b)} /\ UNCHANGED attestations
    BY <2>1, <2>2, ListenerMoves DEF At, Idle
  <2>3. CASE listener' = Idle /\ signAndStoreAttestation(b, FailedRow)
    <3>1. b \in started /\ IsTrue(b, FailedRow)
      BY <2>1, BeforePost
    <3>2. ~Submitting(b)'
      BY <2>3 DEF Submitting, Idle
    <3>3. listener.bet = b
      BY <2>1 DEF At
    <3> QED BY <2>1, <2>3, <3>1, <3>2, <3>3, RowKeeps
  <2> QED BY <1>3, <2>2, <2>3 DEF Fund
<1> QED BY <1>1, <1>2, <1>3

\* The one order of the bet is on the book, or was filled as the answer tells.
LEMMA AcceptTrue ==
    ASSUME Inv, Inv', OnceInv, TruthInv, NEW b \in Bets, NEW f \in 0..Shares, NEW live \in BOOLEAN,
           NEW fill, listener = At("post", b), Accept(b, 0, f, live),
           listener' = Responded(b, posted + 1, fill), fill = Unknown \/ (fill = f /\ ~live),
           b \in Limit /\ "purged" \in Faults => f = 0,
           UNCHANGED <<attestations, tracked, finalized, inFlight, cancels, started>>
    PROVE  TruthInv'
<1>1. PICK p \in Nat : p = posted /\ p + 1 # NoOrder
  BY OrderNumbers DEF Inv, NoOrder
<1>2. /\ DOMAIN clob = 1..p /\ posted' = p + 1 /\ DOMAIN clob' = 1..(p + 1)
      /\ \A o \in 1..(p + 1) : o \in 1..p \/ o = p + 1
      /\ 1..p \subseteq 1..(p + 1) /\ p + 1 \in 1..(p + 1)
  BY <1>1, OrderNumbers DEF Inv, Accept
<1>3. /\ \A o \in 1..p : clob'[o] = clob[o]
      /\ clob'[p + 1] = [bet |-> b, live |-> live, made |-> 0, taken |-> f]
  BY <1>1, <1>2 DEF Accept
<1>4. /\ b \in started /\ Submitting(b) /\ ~HasOutcome(b) /\ inFlight[b] = "active"
      /\ \A o \in 1..p : clob[o].bet # b
  BY <1>1, BeforePost
<1>5. \A x : Submitting(x)' <=> x = b
  BY DEF Submitting, Responded
<1>6. \A x : Submitting(x) => x = b
  BY DEF Submitting, At
<1>7. bought[b] = 0 /\ bought' = [bought EXCEPT ![b] = @ + 0 + f]
  BY <1>1, <1>4 DEF TruthInv, BoughtInv, Accept
<1>8. bought'[b] = f /\ \A x \in Bets : x # b => bought'[x] = bought[x]
  BY <1>7 DEF Inv, TypeOK, OutsideOK
<1>9. \A o \in 1..p : clob[o].bet \in Bets
  BY <1>1, OrderNumbers DEF Inv
<1>10. \A x : HasOutcome(x)' <=> HasOutcome(x)
  BY DEF HasOutcome
<1>11. Filled(p + 1)' = f
  <2>1. clob'[p + 1].made = 0 /\ clob'[p + 1].taken = f
    BY <1>3
  <2>2. PICK m, t : m = clob'[p + 1].made /\ t = clob'[p + 1].taken /\ Filled(p + 1)' = m + t
    BY DEF Filled
  <2>3. f \in Nat /\ 0 + f = f
    BY OrdersAssumption
  <2> QED BY <2>1, <2>2, <2>3
<1>12. \A o \in 1..p : Filled(o)' = Filled(o)
  BY <1>3 DEF Filled
<1>13. BoughtInv'
  <2>1. resolved' = {}
    BY DEF TruthInv, BoughtInv, Accept
  <2>2. \A x \in Bets : (\A o \in 1..posted' : clob'[o].bet # x) => bought'[x] = 0
    <3> SUFFICES ASSUME NEW x \in Bets, \A o \in 1..(p + 1) : clob'[o].bet # x PROVE bought'[x] = 0
      BY <1>2
    <3>1. x # b
      BY <1>2, <1>3
    <3>2. \A o \in 1..p : clob[o].bet # x
      BY <1>2, <1>3
    <3> QED BY <1>1, <1>8, <3>1, <3>2 DEF TruthInv, BoughtInv
  <2>3. \A o \in 1..posted' : bought'[clob'[o].bet] = Filled(o)'
    <3>1. \A o \in 1..p : bought'[clob'[o].bet] = Filled(o)'
      BY <1>1, <1>3, <1>4, <1>8, <1>9, <1>12 DEF TruthInv, BoughtInv
    <3>2. bought'[clob'[p + 1].bet] = Filled(p + 1)'
      BY <1>3, <1>8, <1>11
    <3> QED BY <1>2, <3>1, <3>2
  <2>4. "purged" \in Faults =>
           \A o \in 1..posted' : clob'[o].bet \in Limit => clob'[o].taken = 0
    BY <1>1, <1>2, <1>3 DEF TruthInv, BoughtInv
  <2> QED BY <2>1, <2>2, <2>3, <2>4 DEF BoughtInv
<1>14. AloneInv'
  <2>1. \A o \in tracked' : clob'[o].bet \in Limit /\ ~(clob'[o].bet = b)
    <3>1. tracked \subseteq 1..p
      BY <1>1 DEF Inv, OrdersKnown
    <3> QED BY <1>3, <1>4, <3>1 DEF TruthInv, AloneInv
  <2>2. \A o \in tracked' : (clob[o].bet \in Limit /\ ~Submitting(clob[o].bet))'
    BY <1>5, <2>1 DEF Submitting
  <2>3. \A c \in Cancels : (cancels[c].pc # "idle" =>
             cancels[c].bet \in started /\ ~Submitting(cancels[c].bet))'
    <3>1. \A c \in Cancels : cancels[c].pc # "idle" => cancels[c].bet \in started /\ cancels[c].bet # b
      BY <1>4 DEF TruthInv, AloneInv
    <3> QED BY <1>5, <3>1 DEF Submitting
  <2>4. \A x \in Bets : Submitting(x)' => inFlight'[x] = "active" /\ ~HasOutcome(x)'
    BY <1>4, <1>5, <1>10
  <2> QED BY <1>10, <2>2, <2>3, <2>4 DEF TruthInv, AloneInv
<1>15. HeldInv'
  <2>1. listener'.order = p + 1 /\ listener'.fill = fill /\ listener'.pc = "response"
    BY <1>1 DEF Responded
  <2>2. fill # Unknown => ~clob'[p + 1].live /\ Filled(p + 1)' = fill
    BY <1>3, <1>11
  <2>3. ASSUME NEW o \in 1..posted', clob'[o].bet \in Limit
        PROVE  \/ o \in tracked \/ HasOutcome(clob'[o].bet)
               \/ listener'.pc = "response" /\ listener'.order = o
    <3>1. CASE o \in 1..p
      BY <1>1, <1>3, <2>3, <3>1 DEF TruthInv, HeldInv, At
    <3>2. CASE o = p + 1
      BY <2>1, <3>2
    <3> QED BY <1>2, <3>1, <3>2
  <2>4. ASSUME NEW c \in Cancels
        PROVE  /\ cancels[c].pc \in {"cancel", "confirm"} =>
                    clob'[cancels[c].order].bet \in Limit /\ clob'[cancels[c].order].bet = cancels[c].bet
               /\ cancels[c].pc = "confirm" => ~clob'[cancels[c].order].live
               /\ cancels[c].pc = "reconcile" /\ cancels[c].order = NoOrder =>
                    \A o \in 1..posted' : clob'[o].bet # cancels[c].bet
    <3>1. cancels[c].pc \in {"cancel", "confirm"} => cancels[c].order \in 1..p
      BY <1>1 DEF Inv, OrdersKnown
    <3>2. cancels[c].pc # "idle" => cancels[c].bet # b
      BY <1>4 DEF TruthInv, AloneInv
    <3> QED BY <1>1, <1>2, <1>3, <3>1, <3>2 DEF TruthInv, HeldInv
  <2>5. \A o \in 1..posted' : HasOutcome(clob'[o].bet) => HasOutcome(clob[o].bet)'
    BY DEF HasOutcome
  <2> QED BY <1>1, <2>1, <2>2, <2>3, <2>4, <2>5 DEF HeldInv
<1>16. OutcomeTruthful'
  <2> SUFFICES ASSUME NEW x \in Bets, HasOutcome(x)
               PROVE  /\ \A o \in DOMAIN clob' : clob'[o].bet = x => ~clob'[o].live
                      /\ attestations[x].type = "FAILED" => bought'[x] = 0
                      /\ attestations[x].type = "PARTIAL" => bought'[x] = attestations[x].shares
                      /\ attestations[x].type = "FILLED" => bought'[x] + Dust >= Shares
    BY <1>10 DEF OutcomeTruthful
  <2>1. x # b /\ bought'[x] = bought[x]
    BY <1>4, <1>8
  <2>2. \A o \in DOMAIN clob' : clob'[o].bet = x => o \in 1..p
    BY <1>2, <1>3, <2>1
  <2> QED BY <1>2, <1>3, <2>1, <2>2 DEF TruthInv, OutcomeTruthful
<1> QED BY <1>13, <1>14, <1>15, <1>16 DEF TruthInv

\* The POST is rejected, or it puts the one order of the bet on the book.
LEMMA PostTrue ==
    ASSUME Inv, Inv', OnceInv, TruthInv, Calm, NEW b \in Bets, Post(b)
    PROVE  TruthInv'
<1>1. listener = At("post", b)
      /\ UNCHANGED <<attestations, tracked, finalized, inFlight, cancels, started>>
  BY DEF Post, durable, memory
<1>2. \A o \in 1..posted : clob[o].bet # b
  BY <1>1, BeforePost
<1>3. CASE listener' = Idle /\ UNCHANGED outside
  BY <1>1, <1>3, ListenerMoves DEF At, Idle
<1>4. CASE listener' \in {Responded(b, NoOrder, 0), Responded(b, NoOrder, Unknown)} /\ UNCHANGED outside
  BY <1>1, <1>2, <1>4, ListenerMoves DEF At, Responded
<1>5. ASSUME NEW f \in 0..Shares, b \notin Limit, Accept(b, 0, f, FALSE),
             listener' = Responded(b, posted + 1, f)
      PROVE  TruthInv'
  BY <1>1, <1>5, AcceptTrue
<1>6. CASE b \notin Limit /\ Accept(b, 0, 0, TRUE) /\ listener' = Responded(b, posted + 1, Unknown)
  <2>1. 0 \in 0..Shares
    BY OrdersAssumption
  <2> QED BY <1>1, <1>6, <2>1, AcceptTrue
<1>7. ASSUME NEW f \in 0..Shares, f > 0 => "crossing" \in Faults, Accept(b, 0, f, f < Shares),
             listener' = Responded(b, posted + 1, Unknown)
      PROVE  TruthInv'
  <2>1. "purged" \in Faults => f = 0
    BY <1>7, CalmIs, OrdersAssumption
  <2>2. CASE f < Shares
    <3>1. Accept(b, 0, f, TRUE)
      BY <1>7, <2>2 DEF Accept
    <3> QED BY <1>1, <1>7, <2>1, <3>1, AcceptTrue
  <2>3. CASE ~(f < Shares)
    <3>0. (f < Shares) = FALSE
      BY <2>3
    <3>1. Accept(b, 0, f, FALSE)
      BY <1>7, <3>0, Zenon
    <3> QED BY <1>1, <1>7, <2>1, <3>1, AcceptTrue
  <2> QED BY <2>2, <2>3
<1> QED BY <1>3, <1>4, <1>5, <1>6, <1>7, CalmIs DEF Post

\* What the listener attests after the POST is the fill of the bet's order, or none
\* where there is no order; an order that rests is handed to the tracker.
LEMMA ResponseTrue ==
    ASSUME Inv, OnceInv, TruthInv, Calm, NEW b \in Bets, submitFAKOrder(b) \/ submitLimitOrder(b)
    PROVE  TruthInv'
<1>1. /\ listener.pc = "response" /\ listener.bet = b /\ listener' = Idle
      /\ UNCHANGED <<finalized, inFlight, cancels, outside, started>>
  BY DEF submitFAKOrder, submitLimitOrder, memory
<1>2. b \in started /\ ~HasOutcome(b) /\ ~Submitting(b)'
  <2>1. Submitting(b)
    BY <1>1 DEF Submitting
  <2> QED BY <1>1, <2>1 DEF TruthInv, AloneInv, Submitting, Idle
<1>3. \A x : ~Submitting(x)'
  BY <1>1 DEF Submitting, Idle
<1>4. \A x \in Cancels : cancels'[x] \in {Idle, cancels[x]}
  BY <1>1
<1>5. UNCHANGED <<clob, posted, bought, resolved>>
  BY <1>1 DEF outside
<1>6. listener.order = NoOrder => \A o \in 1..posted : clob[o].bet # b
  BY <1>1 DEF TruthInv, HeldInv
<1>7. listener.order # NoOrder => listener.order \in 1..posted /\ clob[listener.order].bet = b
  BY <1>1 DEF Inv, ResponseBought
<1>8. CASE submitFAKOrder(b) /\ listener.fill # Unknown
  <2>1. signAndStoreAttestation(b, Classify(listener.fill)) /\ UNCHANGED tracked
    BY <1>8 DEF submitFAKOrder, memory
  <2>2. CASE listener.order = NoOrder
    <3>1. bought[b] = 0
      BY <1>6, <2>2 DEF TruthInv, BoughtInv
    <3>2. listener.fill \in 0..Shares /\ listener.fill <= 0
      BY <1>1, <1>8, <3>1 DEF Inv, TypeOK, ListenerOK, ListenerPC, ResponseBought, Idle, Unknown
    <3>3. listener.fill = 0
      BY <3>2, OrdersAssumption
    <3>4. IsTrue(b, Classify(0))
      BY <1>6, <2>2, FailedTrue DEF TruthInv
    <3> QED BY <1>1, <1>2, <1>4, <2>1, <3>3, <3>4, RowKeeps
  <2>3. CASE listener.order # NoOrder
    <3>1. ~clob[listener.order].live /\ Filled(listener.order) = listener.fill
      BY <1>1, <1>8, <2>3 DEF TruthInv, HeldInv
    <3>2. IsTrue(b, Classify(listener.fill))
      BY <1>7, <2>3, <3>1, OrderTrue DEF TruthInv
    <3> QED BY <1>1, <1>2, <1>4, <2>1, <3>2, RowKeeps
  <2> QED BY <2>2, <2>3
<1>9. CASE submitLimitOrder(b) /\ listener.order = NoOrder /\ signAndStoreAttestation(b, FailedRow)
           /\ UNCHANGED tracked
  <2>1. IsTrue(b, FailedRow)
    BY <1>6, <1>9, FailedTrue DEF TruthInv
  <2> QED BY <1>1, <1>2, <1>4, <1>9, <2>1, RowKeeps
<1>10. ASSUME UNCHANGED attestations, tracked' = tracked \/ tracked' = tracked \cup {listener.order},
              b \in Limit => listener.order # NoOrder /\ tracked' = tracked \cup {listener.order},
              b \notin Limit => tracked' = tracked
       PROVE  TruthInv'
  <2>1. OutcomeTruthful' /\ \A x \in Bets : HasOutcome(x)' <=> HasOutcome(x)
    BY <1>5, <1>10, NothingStored DEF TruthInv
  <2>2. \A o \in tracked' : clob[o].bet \in Limit /\ ~Submitting(clob[o].bet)'
    BY <1>3, <1>7, <1>10 DEF TruthInv, AloneInv
  <2>3. ASSUME NEW o \in 1..posted, clob[o].bet \in Limit
        PROVE  o \in tracked' \/ HasOutcome(clob[o].bet)
    <3>1. CASE listener.order = o
      <4>1. o # NoOrder
        BY DEF NoOrder
      <4> QED BY <1>7, <1>10, <2>3, <3>1, <4>1
    <3> QED BY <1>10, <2>3, <3>1 DEF TruthInv, HeldInv
  <2>4. \A o \in 1..posted : HasOutcome(clob[o].bet) => HasOutcome(clob[o].bet)'
    BY <1>5, <1>10 DEF HasOutcome
  <2>5. \A x \in finalized' : x \in Bets /\ HasOutcome(x)'
    BY <1>1, <2>1 DEF TruthInv, AloneInv
  <2> QED BY <1>1, <1>4, <1>5, <2>1, <2>2, <2>3, <2>4, <2>5, AttestKeeps
<1>11. CASE submitFAKOrder(b) /\ listener.fill = Unknown
  BY <1>10, <1>11 DEF submitFAKOrder, memory
<1>12. CASE submitLimitOrder(b) /\ listener.order # NoOrder /\ UNCHANGED attestations
            /\ trackOrder(b, listener.order)
  <2>1. b \notin finalized
    BY <1>2 DEF TruthInv, AloneInv
  <2>2. b \in Limit /\ tracked' = tracked \cup {listener.order}
    BY <1>2, <1>12, <2>1 DEF submitLimitOrder, trackOrder
  <2> QED BY <1>10, <1>12, <2>2
<1> QED BY <1>8, <1>9, <1>11, <1>12, CalmIs DEF submitFAKOrder, submitLimitOrder

\* The invariant is kept by every step of a calm environment.
LEMMA TruthNext ==
    ASSUME Once, Calm, Inv, Inv', OnceInv, MarkedInv, TruthInv, [Next]_vars
    PROVE  TruthInv'
<1>1. CASE \/ \E c \in Cancels : CancelAtCLOB(c)
           \/ \E o \in OrderId : Fill(o) \/ Expire(o)
           \/ \E b \in Bets : Resolve(b)
  BY <1>1, ClobTrue
<1>2. CASE (\E b \in Bets : Elapse120(b) \/ Elapse300(b)) \/ UNCHANGED vars
  BY <1>2, ClockTrue
<1>3. CASE \/ \E o \in OrderId : handleOne(o) \/ reconcileOne(o)
           \/ \E b \in Bets : cancelOrdersForMarket(b)
  BY <1>3, TrackerTrue
<1>4. ASSUME NEW b \in Bets, Listen(b) PROVE TruthInv'
  BY <1>4, ToPostTrue, TakeUpTrue, PostTrue, ResponseTrue DEF Listen
<1>5. ASSUME NEW c \in Cancels,
             \/ cancelTrackedOrder(c) \/ ConfirmCancel(c) \/ reconcileMarketSubmission(c)
             \/ \E b \in Bets : CancelBet(c, b)
      PROVE  TruthInv'
  BY <1>5, CancelTrue, CancelBetTrue
<1>6. ~Restart
  BY DEF Once, OnceInv, Restart
<1> QED BY <1>1, <1>2, <1>3, <1>4, <1>5, <1>6 DEF Next, Cancel

\* It holds at first.
LEMMA TruthInit == Init => TruthInv
BY DEF Init, TruthInv, BoughtInv, AloneInv, HeldInv, OutcomeTruthful, HasOutcome, Submitting, Idle

\* What is attested is the truth about the bet, for every number of bets and requests and
\* every order of their steps, with answers to a FAK that come late, limit orders that
\* cross the book or orders that the CLOB purges (either, not both: what a purged order
\* took as a taker is nowhere to be read), until the process restarts (attestTerminal, /cancel-bet).
THEOREM OutcomesTrue ==
    ASSUME MaxRestarts = 0, Faults \subseteq {"delayed", "crossing", "purged"},
           ~({"crossing", "purged"} \subseteq Faults)
    PROVE  Spec => []OutcomeTruthful
<1>1. Inv /\ OnceInv /\ MarkedInv /\ TruthInv /\ [Next]_vars
        => (Inv /\ OnceInv /\ MarkedInv /\ TruthInv)'
  BY NextInv, OnceNext, MarkedNext, TruthNext, CalmIs DEF Once, Calm
<1>2. Init => Inv /\ OnceInv /\ MarkedInv /\ TruthInv
  BY InitInv, OnceInit, MarkedInit, TruthInit
<1>3. TruthInv => OutcomeTruthful
  BY DEF TruthInv
<1> QED BY <1>1, <1>2, <1>3, PTL DEF Spec

==============================================================================
