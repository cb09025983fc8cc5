----------------------------- MODULE WalletProofs -----------------------------
(***************************************************************************)
(* What the wallet offers to spend is what the chain holds, and a Restore   *)
(* leaves nothing out, for any number of tabs, lineages, bets, reloads,     *)
(* wipes and lost confirmations, and with every fault.                     *)
(*                                                                         *)
(* A history H gives every lineage's state after each event of the log.  In *)
(* all of them a lineage is what the replay of its own events makes of it,  *)
(* but for a merge, which needs the balances of other lineages.            *)
(*                                                                         *)
(* No deposit goes to an index that was used, while the relay answers and   *)
(* one tab deposits at a time.                                             *)
(*                                                                         *)
(* No bet that can pay loses the note it is paid into, while no cache is    *)
(* emptied or replaced in the middle of a flow: a cache shows a receipt of  *)
(* every such bet behind a cash note it shows.                             *)
(*                                                                         *)
(* Left out is what the code leaves out: a recovered receipt is priced as a *)
(* YES bet, and a merged note that is merged again is not tracked.         *)
(***************************************************************************)
EXTENDS Wallet, SequenceTheorems, WellFoundedInduction, NaturalsInduction, FiniteSetTheorems,
        TLAPS

-----------------------------------------------------------------------------
(* The invariant.                                                          *)

AnySide == Sides \cup {"none"}
CashNotes == [kind : {"CASH"}, i : Indices, n : Nat, bal : Nat]
BetReceipts == [kind : {"BET_RECEIPT"}, i : Indices, n : Nat, side : AnySide, spent : BOOLEAN]
BetRecords ==
    [status : {"ACTIVE", "FILLED"} \cup Terminal, stake : Nat, fee : {ProtocolFee},
     shares : Nat, sold : Nat, side : Sides, outcome : {"none", "FILLED", "FAILED", "PARTIAL"},
     filled : Nat, soldAtt : Nat]

\* A lineage without a deposit has no note, and the first note has what was deposited.
TipInv ==
    /\ tip \in [Indices -> [n : Int, bal : Int, live : BOOLEAN]]
    /\ \A i \in Indices :
         /\ tip[i] # NoNote => tip[i].n \in Nat /\ tip[i].bal \in Nat
         /\ tip[i].n = 0 /\ tip[i].live => tip[i].bal = DepositAmount

\* An order that is not final has sold nothing and bought nothing yet.
BetsInv ==
    \A b \in DOMAIN bets :
      /\ b \in Indices \X Nat /\ bets[b] \in BetRecords
      /\ bets[b].status = "ACTIVE" => bets[b].sold = 0 /\ bets[b].shares = bets[b].stake
      /\ bets[b].sold \in {0, bets[b].soldAtt}

\* A bet's key is a note that was spent.
KeysInv == \A b \in DOMAIN bets : b[2] < tip[b[1]].n

\* A cash note is spent, or the last one of its lineage.
Open(x) == x.n < tip[x.i].n \/ (x.n = tip[x.i].n /\ (tip[x.i].live => x.bal = tip[x.i].bal))
Kept(m) ==
    /\ m \subseteq CashNotes \cup BetReceipts
    /\ \A x \in m : x.kind = "CASH" => Open(x)
    /\ \A x \in m : x.kind = "BET_RECEIPT" => BetOf(x) \in DOMAIN bets
CacheInv == /\ DOMAIN mem = Sessions
            /\ Kept(disk) /\ \A s \in Sessions : Kept(mem[s])

\* What a flow may ask the relay for.
IsFlow(o) ==
    /\ DOMAIN o = {"flow", "ins", "bet", "amt", "side", "for", "open", "sent"}
    /\ o.flow \in Flows /\ o.sent \in BOOLEAN
    /\ o.flow # "consolidate" => DOMAIN o.ins = {1}
    /\ o.flow = "bet" \/ (o.flow = "consolidate" /\ o.for = "bet") =>
         o.amt \in Stakes /\ o.side \in Sides
    /\ o.flow \in Credits => o.bet \in DOMAIN bets /\ o.side \in AnySide

\* One that was sent leaves the note that the chain holds.
Landed(o) ==
    /\ NewBalance(o) \in Nat /\ o.ins[1].i \in Indices /\ o.ins[1].n \in Nat
    /\ ~(o.flow = "withdraw" /\ NewBalance(o) = 0) => Open(Output(o))
    /\ o.flow = "bet" => BetOf(o.ins[1]) \in DOMAIN bets
Depositing(o) ==
    \E i \in Indices : /\ o.ins = <<Cash(i, 0, 0)>> /\ o.amt = DepositAmount
                       /\ o.sent => tip[i] # NoNote

OpOk(o) ==
    o.flow = "none" \/
      /\ IsFlow(o)
      /\ o.flow = "deposit" => Depositing(o)
      /\ ~o.sent => o.flow \in {"deposit", "bet", "withdraw"}
      /\ o.sent /\ o.flow # "deposit" => Landed(o)
OpInv == DOMAIN op = Sessions /\ \A s \in Sessions : OpOk(op[s])

-----------------------------------------------------------------------------
(* The history: what every lineage was after each event.                   *)

IsLineage(st) == DOMAIN st = {"i", "n", "bal", "live", "receipts", "shares", "known"}
Start(i) == [i |-> i, n |-> 0, bal |-> DepositAmount, live |-> TRUE, receipts |-> {},
             shares |-> <<>>, known |-> <<>>]

\* The lineage i after the event; a merge adds up what its inputs held.
After(now, i, e) ==
    IF e.ev # "consolidate" \/ ~Mine(now[i], e) THEN replayEvent(now[i], e, TRUE)
    ELSE IF e.ins[1] = <<i, now[i].n>>
    THEN Onward(now[i], Merged([k \in DOMAIN e.ins |-> now[e.ins[k][1]].bal]))
    ELSE [now[i] EXCEPT !.live = FALSE]

DepositedBy(i, j) == \E d \in 1..j : log[d].ev = "deposit" /\ log[d].ins[1][1] = i

Steps(H) ==
    /\ \A i \in Indices : H[0][i] = Start(i)
    /\ \A j \in 1..Len(log), i \in Indices : H[j][i] = After(H[j - 1], i, log[j])
Typed(H) ==
    \A j \in 0..Len(log), i \in Indices :
      /\ IsLineage(H[j][i]) /\ H[j][i].i = i /\ H[j][i].n \in Nat /\ H[j][i].bal \in Nat
      /\ H[j][i].live \in BOOLEAN
      /\ \A r \in H[j][i].receipts : r \in BetReceipts /\ BetOf(r) \in DOMAIN bets

\* Whose notes an event spends, and when.
Spends(now, e, j) ==
    /\ 1 \in DOMAIN e.ins
    /\ \A k \in DOMAIN e.ins : \E i \in Indices :
         e.ins[k] = <<i, now[i].n>> /\ now[i].live /\ DepositedBy(i, j - 1)
EventOk(now, e, j) ==
    /\ e.ev \in Flows
    /\ e.ev = "deposit" => /\ e.amt = DepositAmount
                           /\ \E i \in Indices : e.ins[1] = <<i, 0>> /\ tip[i] # NoNote
    /\ e.ev # "deposit" => Spends(now, e, j)
    /\ e.ev \notin {"deposit", "consolidate"} => DOMAIN e.ins = {1}
    /\ e.ev = "settle" => market # "open"
    /\ e.ev = "partial" => e.bet \in DOMAIN bets /\ bets[e.bet].status # "ACTIVE"
EventsInv(H) == \A j \in 1..Len(log) : EventOk(H[j - 1], log[j], j)

\* What the last event left is what the chain holds.
NowInv(H) ==
    \A i \in Indices : LET h == H[Len(log)][i] IN
      /\ tip[i] # NoNote => /\ h.n = tip[i].n /\ h.live = tip[i].live /\ DepositedBy(i, Len(log))
                            /\ h.live => h.bal = tip[i].bal
      /\ tip[i] = NoNote => h.n = 0 /\ h.live /\ h.bal = DepositAmount
      /\ \A b \in DOMAIN bets : b[1] = i /\ bets[b].status \notin Terminal =>
           /\ b \in DOMAIN h.shares /\ h.shares[b] = Unsold(b)
           /\ Receipt(b[1], b[2], "none", FALSE) \in h.receipts
PastInv(H) ==
    \A j \in 0..Len(log), i \in Indices : H[j][i].live =>
      IF tip[i] = NoNote THEN H[j][i].n = 0 /\ H[j][i].bal = DepositAmount
      ELSE Open(Cash(i, H[j][i].n, H[j][i].bal))

\* A lineage never forgets the receipt of a bet that is still open today.
RecallInv(H) ==
    \A j \in 0..Len(log), i \in Indices : H[j][i].live =>
      \A b \in DOMAIN bets :
        b[1] = i /\ b[2] < H[j][i].n /\ bets[b].status \notin Terminal =>
          Receipt(b[1], b[2], "none", FALSE) \in H[j][i].receipts

IsHistory(H) ==
    Steps(H) /\ Typed(H) /\ EventsInv(H) /\ NowInv(H) /\ PastInv(H) /\ RecallInv(H)
HistInv == (\E S : log \in Seq(S)) /\ \E H : IsHistory(H)

Inv == TipInv /\ BetsInv /\ KeysInv /\ HistInv /\ CacheInv /\ OpInv /\ tabs \in Sessions

-----------------------------------------------------------------------------
(* The chain: a transaction that spends notes.                             *)

\* What was spent stays spent, and no bet is forgotten.
First == [n |-> 0, bal |-> DepositAmount, live |-> TRUE]
Later == /\ \A x \in CashNotes : Open(x) => Open(x)'
         /\ \A i \in Indices : /\ tip[i] # NoNote => tip'[i] # NoNote
                               /\ tip[i] = NoNote => tip'[i] \in {NoNote, First}
                               /\ tip'[i].n >= tip[i].n
         /\ DOMAIN bets \subseteq DOMAIN bets'

\* No bet is owed again, and a new one is the last note of its lineage.
Fewer ==
    \A b \in DOMAIN bets' :
      IF b \in DOMAIN bets
      THEN /\ Owed(b)' => Owed(b)
           /\ bets[b].status \in Terminal => bets'[b].status \in Terminal
      ELSE b[1] \in Indices /\ tip[b[1]] # NoNote /\ b[2] = tip[b[1]].n

\* A claim's amount, and the lineage it is paid to, follow from the bet's record.
Priced(o) ==
    o.flow \in Credits =>
      /\ o.bet[1] = o.ins[1].i
      /\ o.flow = "betCancel" => o.amt = bets[o.bet].stake + bets[o.bet].fee
      /\ o.flow = "partial" =>
           o.amt = Refund(bets[o.bet].stake, bets[o.bet].fee, bets[o.bet].filled)
      /\ o.flow = "close" => o.amt = bets[o.bet].soldAtt
Relayed(o) == IsFlow(o) /\ ~o.sent /\ o.flow # "deposit" /\ Priced(o)

Drains(o) == o.flow = "withdraw" /\ NewBalance(o) = 0
Takes(o, i) == \E k \in DOMAIN o.ins : o.ins[k].i = i

\* The notes spent are the last ones of their lineages.
LEMMA InsAre ==
    ASSUME NEW o, TipInv, Spendable(o)
    PROVE  /\ 1 \in DOMAIN o.ins
           /\ \A k \in DOMAIN o.ins :
                /\ o.ins[k].i \in Indices /\ tip[o.ins[k].i] # NoNote /\ tip[o.ins[k].i].live
                /\ o.ins[k].n = tip[o.ins[k].i].n /\ o.ins[k].n \in Nat
                /\ o.ins[k].bal = tip[o.ins[k].i].bal /\ o.ins[k].bal \in Nat
<1>1. ASSUME NEW k \in DOMAIN o.ins
      PROVE  /\ o.ins[k].i \in Indices /\ tip[o.ins[k].i] # NoNote /\ tip[o.ins[k].i].live
             /\ o.ins[k].n = tip[o.ins[k].i].n /\ o.ins[k].n \in Nat
             /\ o.ins[k].bal = tip[o.ins[k].i].bal /\ o.ins[k].bal \in Nat
  <2> DEFINE i == o.ins[k].i
  <2>1. i \in Indices /\ tip[i] = [n |-> o.ins[k].n, bal |-> o.ins[k].bal, live |-> TRUE]
    BY DEF Spendable
  <2>2. tip[i] # NoNote
    BY <2>1 DEF NoNote
  <2> QED BY <2>1, <2>2 DEF TipInv
<1> QED BY <1>1 DEF Spendable

\* What a transaction does to the lineages.
LEMMA TipStep ==
    ASSUME NEW o, TipInv, Executes(o)
    PROVE  /\ DOMAIN tip' = Indices
           /\ \A i \in Indices :
             /\ i = o.ins[1].i /\ ~Drains(o) =>
                  tip'[i] = [n |-> o.ins[1].n + 1, bal |-> NewBalance(o), live |-> TRUE]
             /\ (i = o.ins[1].i /\ Drains(o)) \/ (i # o.ins[1].i /\ Takes(o, i)) =>
                  /\ tip'[i] \in [n : Int, bal : Int, live : BOOLEAN]
                  /\ tip'[i].n = tip[i].n /\ tip'[i].bal = 0 /\ ~tip'[i].live
             /\ ~Takes(o, i) => tip'[i] = tip[i]
<1>1. Spendable(o)
  BY DEF Executes
<1>2. 1 \in DOMAIN o.ins
  BY <1>1 DEF Spendable
<1>3. tip' = [i \in Indices |->
          IF i = o.ins[1].i /\ ~Drains(o)
          THEN [n |-> o.ins[1].n + 1, bal |-> NewBalance(o), live |-> TRUE]
          ELSE IF Takes(o, i) THEN [tip[i] EXCEPT !.live = FALSE, !.bal = 0] ELSE tip[i]]
  BY DEF Executes, Drains, Takes
<1>4. ASSUME NEW t \in [n : Int, bal : Int, live : BOOLEAN]
      PROVE  LET u == [t EXCEPT !.live = FALSE, !.bal = 0] IN
             u \in [n : Int, bal : Int, live : BOOLEAN] /\ u.n = t.n /\ u.bal = 0 /\ ~u.live
  <2>1. [t EXCEPT !.live = FALSE] \in [n : Int, bal : Int, live : BOOLEAN]
    OBVIOUS
  <2>2. [t EXCEPT !.live = FALSE, !.bal = 0] = [[t EXCEPT !.live = FALSE] EXCEPT !.bal = 0]
    OBVIOUS
  <2>3. [t EXCEPT !.live = FALSE, !.bal = 0] \in [n : Int, bal : Int, live : BOOLEAN]
    <3>1. PICK v \in [n : Int, bal : Int, live : BOOLEAN] : v = [t EXCEPT !.live = FALSE]
      BY <2>1
    <3>2. [v EXCEPT !.bal = 0] \in [n : Int, bal : Int, live : BOOLEAN]
      OBVIOUS
    <3> QED BY <2>2, <3>1, <3>2
  <2>4. /\ [t EXCEPT !.live = FALSE, !.bal = 0].n = t.n
        /\ [t EXCEPT !.live = FALSE, !.bal = 0].bal = 0
        /\ [t EXCEPT !.live = FALSE, !.bal = 0].live = FALSE
    OBVIOUS
  <2> QED BY <2>3, <2>4
<1>5. Takes(o, o.ins[1].i)
  BY <1>2 DEF Takes
<1>6. \A i \in Indices : tip[i] \in [n : Int, bal : Int, live : BOOLEAN]
  BY DEF TipInv
<1> QED BY <1>3, <1>4, <1>5, <1>6

LEMMA TipKept ==
    ASSUME NEW o, TipInv, Executes(o)
    PROVE  /\ TipInv'
           /\ \A x \in CashNotes : Open(x) => Open(x)'
           /\ \A i \in Indices : /\ tip[i] # NoNote => tip'[i] # NoNote
                                 /\ tip[i] = NoNote => tip'[i] = NoNote
                                 /\ tip'[i].n >= tip[i].n
<1>1. Spendable(o) /\ NewBalance(o) \in Nat
  BY DEF Executes
<1>2. /\ o.ins[1].i \in Indices /\ o.ins[1].n = tip[o.ins[1].i].n /\ o.ins[1].n \in Nat
      /\ \A k \in DOMAIN o.ins : tip[o.ins[k].i] # NoNote
  BY <1>1, InsAre
<1>3. ASSUME NEW i \in Indices
      PROVE  /\ tip'[i] \in [n : Int, bal : Int, live : BOOLEAN]
             /\ tip'[i] # NoNote => tip'[i].n \in Nat /\ tip'[i].bal \in Nat
             /\ tip'[i].n = 0 /\ tip'[i].live => tip'[i].bal = DepositAmount
             /\ tip[i] # NoNote => tip'[i] # NoNote
             /\ \/ tip'[i] = tip[i]
                \/ tip'[i].n > tip[i].n
                \/ tip'[i].n = tip[i].n /\ ~tip'[i].live
  <2>1. CASE i = o.ins[1].i /\ ~Drains(o)
    <3>1. tip'[i] = [n |-> o.ins[1].n + 1, bal |-> NewBalance(o), live |-> TRUE]
      BY <2>1, TipStep
    <3>2. o.ins[1].n + 1 \in Nat /\ o.ins[1].n + 1 # 0 /\ o.ins[1].n + 1 > tip[i].n
      BY <1>2, <2>1
    <3> QED BY <1>1, <3>1, <3>2 DEF NoNote
  <2>2. CASE (i = o.ins[1].i /\ Drains(o)) \/ (i # o.ins[1].i /\ Takes(o, i))
    <3>1. /\ tip'[i] \in [n : Int, bal : Int, live : BOOLEAN]
          /\ tip'[i].n = tip[i].n /\ tip'[i].bal = 0 /\ ~tip'[i].live
      BY <2>2, TipStep
    <3>2. tip[i] # NoNote
      BY <1>1, <1>2, <2>2 DEF Takes, Spendable
    <3>3. tip[i].n \in Nat
      BY <3>2 DEF TipInv
    <3> QED BY <3>1, <3>3 DEF NoNote
  <2>3. CASE ~Takes(o, i)
    BY <2>3, TipStep DEF TipInv
  <2> QED BY <2>1, <2>2, <2>3
<1>4. DOMAIN tip' = Indices /\ tip' \in [Indices -> [n : Int, bal : Int, live : BOOLEAN]]
  <2>1. DOMAIN tip' = Indices
    BY TipStep
  <2>2. tip' = [i \in Indices |-> tip'[i]]
    BY DEF Executes
  <2> QED BY <1>3, <2>1, <2>2
<1>5. TipInv'
  BY <1>3, <1>4 DEF TipInv
<1>6. ASSUME NEW x \in CashNotes, Open(x) PROVE Open(x)'
  <2>1. x.i \in Indices /\ x.n \in Nat /\ tip[x.i].n \in Int /\ tip'[x.i].n \in Int
    BY <1>4 DEF CashNotes, TipInv
  <2> QED BY <1>3, <1>6, <2>1 DEF Open
<1>7. \A i \in Indices : tip[i].n \in Int /\ tip'[i].n \in Int
  BY <1>4 DEF TipInv
<1>8. ASSUME NEW i \in Indices, tip[i] = NoNote PROVE tip'[i] = NoNote
  <2>1. ~Takes(o, i)
    BY <1>1, <1>2, <1>8 DEF Takes
  <2> QED BY <1>8, <2>1, TipStep
<1> QED BY <1>3, <1>5, <1>6, <1>7, <1>8

LEMMA TipKeptByDeposit ==
    ASSUME NEW o, TipInv, Depositing(o), Deposits(o)
    PROVE  /\ TipInv'
           /\ \A x \in CashNotes : Open(x) => Open(x)'
           /\ \A i \in Indices : /\ tip[i] # NoNote => tip'[i] # NoNote
                                 /\ tip[i] = NoNote => tip'[i] \in {NoNote, First}
                                 /\ tip'[i].n >= tip[i].n
           /\ tip'[o.ins[1].i] # NoNote
<1>1. PICK i \in Indices : o.ins = <<Cash(i, 0, 0)>> /\ o.amt = DepositAmount
  BY DEF Depositing
<1>2. o.ins[1].i = i
  BY <1>1 DEF Cash
<1>3. CASE tip[i] # NoNote
  <2>1. tip' = tip
    BY <1>2, <1>3 DEF Deposits
  <2>2. \A j \in Indices : tip[j].n \in Int
    BY DEF TipInv
  <2> QED BY <1>2, <1>3, <2>1, <2>2 DEF TipInv, Open
<1>4. CASE tip[i] = NoNote
  <2>1. tip' = [tip EXCEPT ![i] = [n |-> 0, bal |-> DepositAmount, live |-> TRUE]]
    BY <1>1, <1>2, <1>4 DEF Deposits
  <2>2. DepositAmount \in Nat
    BY WalletAssumption
  <2>3. TipInv'
    <3> DEFINE new == [n |-> 0, bal |-> DepositAmount, live |-> TRUE]
    <3>1. new \in [n : Int, bal : Int, live : BOOLEAN] /\ new.n \in Nat /\ new.bal \in Nat
          /\ new.bal = DepositAmount
      BY <2>2
    <3> HIDE DEF new
    <3>2. tip' \in [Indices -> [n : Int, bal : Int, live : BOOLEAN]]
      BY <2>1, <3>1 DEF TipInv, new
    <3>3. \A j \in Indices : tip'[j] = IF j = i THEN new ELSE tip[j]
      BY <2>1 DEF TipInv, new
    <3> QED BY <3>1, <3>2, <3>3 DEF TipInv
  <2>4. \A x \in CashNotes : Open(x) => Open(x)'
    BY <1>4, <2>1, <2>2 DEF TipInv, NoNote, Open, CashNotes
  <2>5. \A j \in Indices : tip'[j].n >= tip[j].n
    <3>1. \A j \in Indices : tip[j].n \in Int
      BY DEF TipInv
    <3> QED BY <1>4, <2>1, <3>1 DEF NoNote, TipInv
  <2>6. \A j \in Indices : tip'[j] = IF j = i THEN First ELSE tip[j]
    BY <2>1 DEF TipInv, First
  <2> QED BY <1>2, <1>4, <2>3, <2>4, <2>5, <2>6 DEF NoNote, First
<1> QED BY <1>3, <1>4

\* Kept caches stay kept.
LEMMA KeptLater ==
    ASSUME NEW m, Kept(m), Later
    PROVE  Kept(m)'
<1>1. \A x \in m : x.kind = "CASH" => x \in CashNotes
  BY DEF Kept, CashNotes, BetReceipts
<1> QED BY <1>1 DEF Kept, Later, BetOf

-----------------------------------------------------------------------------
(* The chain: the records of the bets.                                     *)

Statuses == {"ACTIVE", "FILLED"} \cup Terminal

\* A record with its status written.
LEMMA WithStatus ==
    ASSUME NEW b \in BetRecords, NEW st \in Statuses, NEW c, c = [b EXCEPT !.status = st]
    PROVE  /\ c \in BetRecords /\ c.status = st /\ c.stake = b.stake /\ c.shares = b.shares
           /\ c.sold = b.sold /\ c.soldAtt = b.soldAtt
<1>1. [b EXCEPT !.status = st] \in BetRecords
  BY DEF BetRecords, Statuses
<1>2. [b EXCEPT !.status = st].status = st /\ [b EXCEPT !.status = st].stake = b.stake
  BY DEF BetRecords
<1>3. [b EXCEPT !.status = st].shares = b.shares /\ [b EXCEPT !.status = st].sold = b.sold
      /\ [b EXCEPT !.status = st].soldAtt = b.soldAtt
  BY DEF BetRecords
<1> QED BY <1>1, <1>2, <1>3

\* A record with its numbers written.
LEMMA WithNumber ==
    ASSUME NEW b \in BetRecords, NEW v \in Nat
    PROVE  /\ [b EXCEPT !.shares = v] \in BetRecords
           /\ [b EXCEPT !.stake = v] \in BetRecords
           /\ [b EXCEPT !.sold = v] \in BetRecords
  BY DEF BetRecords

Refilled(b, st, v) == [b EXCEPT !.status = st, !.shares = v, !.stake = v]
Resold(b, st, v) == [b EXCEPT !.sold = v, !.status = st]

LEMMA WithFill ==
    ASSUME NEW b \in BetRecords, NEW st \in Statuses, NEW v \in Nat, NEW c,
           c = Refilled(b, st, v)
    PROVE  /\ c \in BetRecords /\ c.status = st /\ c.stake = v /\ c.shares = v
           /\ c.sold = b.sold /\ c.soldAtt = b.soldAtt
<1>1. PICK d : d = [b EXCEPT !.status = st]
  OBVIOUS
<1>2. PICK e : e = [d EXCEPT !.shares = v]
  OBVIOUS
<1>3. d \in BetRecords
  BY <1>1, WithStatus
<1>4. e \in BetRecords
  BY <1>2, <1>3, WithNumber
<1>5. [e EXCEPT !.stake = v] \in BetRecords
  BY <1>4, WithNumber
<1>6. c = [e EXCEPT !.stake = v]
  BY <1>1, <1>2 DEF Refilled
<1>7. /\ c.status = st /\ c.stake = v /\ c.shares = v
      /\ c.sold = b.sold /\ c.soldAtt = b.soldAtt
  BY DEF BetRecords, Refilled
<1> QED BY <1>5, <1>6, <1>7

LEMMA WithSale ==
    ASSUME NEW b \in BetRecords, NEW st \in Statuses, NEW v \in Nat, NEW c,
           c = Resold(b, st, v)
    PROVE  /\ c \in BetRecords /\ c.status = st /\ c.stake = b.stake /\ c.shares = b.shares
           /\ c.sold = v /\ c.soldAtt = b.soldAtt
<1>1. PICK d : d = [b EXCEPT !.sold = v]
  OBVIOUS
<1>2. d \in BetRecords
  BY <1>1, WithNumber
<1>3. c = [d EXCEPT !.status = st]
  BY <1>1 DEF Resold
<1>4. c \in BetRecords
  BY <1>2, <1>3, WithStatus
<1>5. /\ c.status = st /\ c.stake = b.stake /\ c.shares = b.shares
      /\ c.sold = v /\ c.soldAtt = b.soldAtt
  BY DEF BetRecords, Resold
<1> QED BY <1>4, <1>5

\* What a credit does to its bet.
LEMMA BetAfterIs ==
    ASSUME NEW o, BetsInv, o.flow \in Credits, o.bet \in DOMAIN bets, VaultAllows(o)
    PROVE  LET b == bets[o.bet]  c == BetAfter(o) IN
           /\ c \in BetRecords /\ c.soldAtt = b.soldAtt /\ b.status \notin Terminal
           /\ o.flow \in {"settle", "betCancel"} => c.status \in Terminal
           /\ o.flow = "betCancel" => b.status = "ACTIVE"
           /\ o.flow = "settle" =>
                market # "open" /\ o.amt = Unsold(o.bet) * pendingCredit(b.side)
           /\ o.flow = "partial" => /\ b.status = "ACTIVE" /\ c.status = "FILLED"
                                    /\ c.stake = b.filled /\ c.shares = b.filled
           /\ o.flow # "partial" => c.stake = b.stake /\ c.shares = b.shares
           /\ o.flow # "close" => c.sold = b.sold
           /\ o.flow = "close" =>
                /\ b.sold = 0 /\ c.sold = b.soldAtt /\ b.soldAtt <= b.shares
                /\ c.status = IF b.soldAtt = b.shares THEN "CLOSED_CREDITED" ELSE "FILLED"
<1>1. PICK b \in BetRecords : b = bets[o.bet]
  BY DEF BetsInv
<1>2. PICK c : c = BetAfter(o)
  OBVIOUS
<1>3. b.sold \in {0, b.soldAtt} /\ b.soldAtt \in Nat /\ b.filled \in Nat
  BY <1>1 DEF BetsInv, BetRecords
<1>4. \A st \in {"CREDITED", "CANCELLED_CREDITED", "CLOSED_CREDITED", "FILLED"} : st \in Statuses
  BY DEF Terminal, Statuses
<1>5. CASE o.flow = "settle"
  <2>1. c = [b EXCEPT !.status = "CREDITED"]
    BY <1>1, <1>2, <1>5 DEF BetAfter
  <2>2. b.status \in {"ACTIVE", "FILLED"} /\ market # "open"
        /\ o.amt = Unsold(o.bet) * pendingCredit(b.side)
    BY <1>1, <1>5 DEF VaultAllows
  <2>3. /\ c \in BetRecords /\ c.status = "CREDITED" /\ c.stake = b.stake /\ c.shares = b.shares
        /\ c.sold = b.sold /\ c.soldAtt = b.soldAtt
    BY <1>4, <2>1, WithStatus
  <2> QED BY <1>1, <1>2, <1>5, <2>2, <2>3 DEF Terminal
<1>6. CASE o.flow = "betCancel"
  <2>1. c = [b EXCEPT !.status = "CANCELLED_CREDITED"]
    BY <1>1, <1>2, <1>6 DEF BetAfter
  <2>2. b.status = "ACTIVE"
    BY <1>1, <1>6 DEF VaultAllows
  <2>3. /\ c \in BetRecords /\ c.status = "CANCELLED_CREDITED" /\ c.stake = b.stake
        /\ c.shares = b.shares /\ c.sold = b.sold /\ c.soldAtt = b.soldAtt
    BY <1>4, <2>1, WithStatus
  <2> QED BY <1>1, <1>2, <1>6, <2>2, <2>3 DEF Terminal
<1>7. CASE o.flow = "partial"
  <2> DEFINE st == "FILLED"
  <2>4. PICK v \in Nat : v = b.filled
    BY <1>3
  <2>5. st \in Statuses
    BY <1>4
  <2> HIDE DEF st
  <2>1. c = Refilled(b, st, v)
    BY <1>1, <1>2, <1>7, <2>4 DEF BetAfter, Refilled, st
  <2>2. b.status = "ACTIVE"
    BY <1>1, <1>7 DEF VaultAllows
  <2>3. /\ c \in BetRecords /\ c.status = st /\ c.stake = v /\ c.shares = v
        /\ c.sold = b.sold /\ c.soldAtt = b.soldAtt
    BY <2>5, <2>1, WithFill
  <2> QED BY <1>1, <1>2, <1>7, <2>2, <2>3, <2>4 DEF Terminal, st
<1>8. CASE o.flow = "close"
  <2> DEFINE end ==
             IF b.soldAtt = b.shares THEN "CLOSED_CREDITED" ELSE "FILLED"
  <2> HIDE DEF end
  <2>7. PICK v \in Nat : v = b.soldAtt
    BY <1>3
  <2>1. c = Resold(b, end, v)
    BY <1>1, <1>2, <1>8, <2>7 DEF BetAfter, Resold, end
  <2>2. b.status \in {"ACTIVE", "FILLED"} /\ b.sold < b.soldAtt /\ b.soldAtt <= b.shares
    BY <1>1, <1>8 DEF VaultAllows
  <2>3. b.sold = 0
    BY <1>3, <2>2
  <2>4. end \in Statuses
    BY <1>4 DEF end
  <2>5. PICK e \in Statuses : e = end
    BY <2>4
  <2>6. /\ c \in BetRecords /\ c.status = e /\ c.stake = b.stake /\ c.shares = b.shares
        /\ c.sold = v /\ c.soldAtt = b.soldAtt
    BY <2>1, <2>5, WithSale
  <2> QED BY <1>1, <1>2, <1>8, <2>2, <2>3, <2>5, <2>6, <2>7 DEF Terminal, end
<1> QED BY <1>5, <1>6, <1>7, <1>8 DEF Credits

LEMMA BetsStep ==
    ASSUME NEW o, Executes(o)
    PROVE  /\ o.flow = "bet" => bets' = Put(bets, BetOf(o.ins[1]), NewBet(o))
           /\ o.flow \in Credits => bets' = [bets EXCEPT ![o.bet] = BetAfter(o)]
           /\ o.flow \notin {"bet"} \cup Credits => bets' = bets
           /\ market' = market /\ log' = Append(log, Event(o))
  BY DEF Executes, Credits

LEMMA BetsKept ==
    ASSUME NEW o, TipInv, BetsInv, Relayed(o), Executes(o)
    PROVE  BetsInv' /\ DOMAIN bets \subseteq DOMAIN bets'
<1>1. CASE o.flow = "bet"
  <2> DEFINE k == BetOf(o.ins[1])
             new == NewBet(o)
  <2>1. k \in Indices \X Nat
    BY InsAre DEF Executes, BetOf
  <2>2. new \in BetRecords /\ new.sold = 0 /\ new.shares = new.stake
    <3>1. o.amt \in Nat /\ o.side \in Sides /\ ProtocolFee \in Nat
      BY <1>1, WalletAssumption DEF Relayed, IsFlow
    <3> QED BY <3>1 DEF NewBet, BetRecords
  <2> HIDE DEF k, new
  <2>3. DOMAIN bets' = DOMAIN bets \cup {k}
        /\ bets'[k] = new /\ \A b \in DOMAIN bets : b # k => bets'[b] = bets[b]
    <3>1. bets' = Put(bets, k, new)
      BY <1>1, BetsStep DEF k, new
    <3>2. DOMAIN bets' = DOMAIN bets \cup {k}
      BY <3>1 DEF Put
    <3>3. bets'[k] = new /\ \A x \in DOMAIN bets : x # k => bets'[x] = bets[x]
      BY <3>1 DEF Put
    <3> QED BY <3>2, <3>3
  <2>4. ASSUME NEW b \in DOMAIN bets'
        PROVE  /\ b \in Indices \X Nat /\ bets'[b] \in BetRecords
               /\ bets'[b].status = "ACTIVE" =>
                    bets'[b].sold = 0 /\ bets'[b].shares = bets'[b].stake
               /\ bets'[b].sold \in {0, bets'[b].soldAtt}
    <3>1. CASE b = k
      <4>1. bets'[b] = new
        BY <2>3, <3>1
      <4> QED BY <2>1, <2>2, <3>1, <4>1
    <3>2. CASE b # k
      BY <2>3, <3>2 DEF BetsInv
    <3> QED BY <3>1, <3>2
  <2> QED BY <2>3, <2>4 DEF BetsInv
<1>2. CASE o.flow \in Credits
  <2>1. o.bet \in DOMAIN bets /\ VaultAllows(o)
    BY <1>2 DEF Relayed, IsFlow, Executes
  <2> DEFINE c == BetAfter(o)
  <2>2. bets' = [bets EXCEPT ![o.bet] = c]
    BY <1>2, BetsStep
  <2>3. c \in BetRecords /\ c.soldAtt = bets[o.bet].soldAtt
        /\ (o.flow # "close" => c.sold = bets[o.bet].sold)
        /\ (o.flow = "close" => c.sold = bets[o.bet].soldAtt)
        /\ c.status # "ACTIVE"
    <3>1. /\ c \in BetRecords /\ c.soldAtt = bets[o.bet].soldAtt
          /\ o.flow # "close" => c.sold = bets[o.bet].sold
          /\ o.flow = "close" => c.sold = bets[o.bet].soldAtt
      BY <1>2, <2>1, BetAfterIs
    <3>2. CASE o.flow \in {"settle", "betCancel"}
      BY <1>2, <2>1, <3>1, <3>2, BetAfterIs DEF Terminal
    <3>3. CASE o.flow = "partial"
      BY <1>2, <2>1, <3>1, <3>3, BetAfterIs
    <3>4. CASE o.flow = "close"
      BY <1>2, <2>1, <3>1, <3>4, BetAfterIs
    <3> QED BY <1>2, <3>1, <3>2, <3>3, <3>4 DEF Credits
  <2> HIDE DEF c
  <2> QED BY <2>1, <2>2, <2>3 DEF BetsInv
<1>3. CASE o.flow \notin {"bet"} \cup Credits
  BY <1>3, BetsStep DEF BetsInv
<1> QED BY <1>1, <1>2, <1>3

\* A transaction.
LEMMA ChainKept ==
    ASSUME NEW o, TipInv, BetsInv, Relayed(o), Executes(o)
    PROVE  TipInv' /\ BetsInv' /\ Later
  BY TipKept, BetsKept DEF Later

\* What the operator and the market do leaves the records as they were, but for what is
\* signed.
SameBets ==
    /\ DOMAIN bets' = DOMAIN bets
    /\ \A b \in DOMAIN bets :
         /\ bets'[b].status = bets[b].status /\ bets'[b].stake = bets[b].stake
         /\ bets'[b].shares = bets[b].shares /\ bets'[b].sold = bets[b].sold

Attested(b, o, v) == [b EXCEPT !.outcome = o, !.filled = v]
LEMMA WithOutcome ==
    ASSUME NEW b \in BetRecords, NEW o \in {"FILLED", "FAILED", "PARTIAL"}, NEW v \in Nat, NEW c,
           c = Attested(b, o, v)
    PROVE  /\ c \in BetRecords /\ c.status = b.status /\ c.stake = b.stake /\ c.shares = b.shares
           /\ c.sold = b.sold /\ c.soldAtt = b.soldAtt
<1>1. PICK d : d = [b EXCEPT !.outcome = o]
  OBVIOUS
<1>2. d \in BetRecords
  BY <1>1 DEF BetRecords
<1>3. [d EXCEPT !.filled = v] \in BetRecords
  BY <1>2 DEF BetRecords
<1>4. c = [d EXCEPT !.filled = v]
  BY <1>1 DEF Attested
<1>5. /\ c.status = b.status /\ c.stake = b.stake /\ c.shares = b.shares
      /\ c.sold = b.sold /\ c.soldAtt = b.soldAtt
  BY DEF BetRecords, Attested
<1> QED BY <1>3, <1>4, <1>5

LEMMA AttestsKeeps ==
    ASSUME BetsInv, attests
    PROVE  BetsInv' /\ SameBets
<1>1. PICK b \in DOMAIN bets, o \in {"FILLED", "FAILED", "PARTIAL"} :
         bets' = [bets EXCEPT ![b].outcome = o,
                              ![b].filled = CASE o = "FILLED" -> bets[b].stake
                                              [] o = "FAILED" -> 0
                                              [] OTHER -> bets[b].stake \div 2]
  BY DEF attests
<1> DEFINE v == CASE o = "FILLED" -> bets[b].stake [] o = "FAILED" -> 0
                  [] OTHER -> bets[b].stake \div 2
           c == Attested(bets[b], o, v)
<1>2. bets[b] \in BetRecords /\ bets[b].stake \in Nat
  BY DEF BetsInv, BetRecords
<1>3. v \in Nat
  <2>1. bets[b].stake \div 2 \in Nat
    BY <1>2
  <2> QED BY <1>2, <2>1
<1>4. bets' = [bets EXCEPT ![b] = c]
  BY <1>1 DEF Attested
<1> HIDE DEF v
<1>5. PICK w \in Nat : w = v
  BY <1>3
<1>6. PICK r \in BetRecords : r = bets[b]
  BY <1>2
<1>7. c = Attested(r, o, w)
  BY <1>5, <1>6
<1> HIDE DEF c
<1>8. /\ c \in BetRecords /\ c.status = r.status /\ c.stake = r.stake /\ c.shares = r.shares
      /\ c.sold = r.sold /\ c.soldAtt = r.soldAtt
  BY SMTT(30), <1>7, WithOutcome
<1> QED BY <1>4, <1>6, <1>8 DEF BetsInv, SameBets

LEMMA AttestsSaleKeeps ==
    ASSUME BetsInv, attestsSale
    PROVE  BetsInv' /\ SameBets
<1>0. PICK b \in DOMAIN bets : \E k \in {1, bets[b].shares} :
         bets[b].soldAtt = 0 /\ bets' = [bets EXCEPT ![b].soldAtt = k]
  BY DEF attestsSale
<1>1. PICK k \in {1, bets[b].shares} :
         bets[b].soldAtt = 0 /\ bets' = [bets EXCEPT ![b].soldAtt = k]
  BY <1>0
<1> DEFINE c == [bets[b] EXCEPT !.soldAtt = k]
<1>2. PICK r \in BetRecords : r = bets[b]
  BY DEF BetsInv
<1>3. k \in Nat /\ r.sold = 0
  BY <1>1, <1>2 DEF BetsInv, BetRecords
<1>4. [r EXCEPT !.soldAtt = k] \in BetRecords
  BY <1>3 DEF BetRecords
<1>5. LET d == [r EXCEPT !.soldAtt = k] IN
      /\ d.status = r.status /\ d.stake = r.stake /\ d.shares = r.shares /\ d.sold = r.sold
  BY DEF BetRecords
<1>6. bets' = [bets EXCEPT ![b] = c] /\ c = [r EXCEPT !.soldAtt = k]
  BY <1>1, <1>2
<1> HIDE DEF c
<1> QED BY <1>2, <1>3, <1>4, <1>5, <1>6 DEF BetsInv, SameBets

-----------------------------------------------------------------------------
(* The history: a step that logs nothing.                                  *)

\* An event is replayed alike once the market and the order it is about are settled.
LEMMA ReplaySame ==
    ASSUME NEW st, NEW e, NEW f,
           e.ev = "settle" => market' = market,
           e.ev = "partial" => /\ bets'[e.bet].stake = bets[e.bet].stake
                               /\ bets'[e.bet].shares = bets[e.bet].shares
    PROVE  replayEvent(st, e, f)' = replayEvent(st, e, f)
<1>1. e.ev = "settle" => pendingCredit("none")' = pendingCredit("none")
  BY DEF pendingCredit
<1>2. e.ev # "settle" => replayCredit(st, e)' = replayCredit(st, e)
  BY DEF replayCredit
<1>3. e.ev = "settle" => replayCredit(st, e)' = replayCredit(st, e)
  BY <1>1 DEF replayCredit
<1>4. e.ev = "partial" => replayPartial(st, e)' = replayPartial(st, e)
  BY DEF replayPartial
<1> QED BY <1>2, <1>3, <1>4 DEF replayEvent

LEMMA AfterSame ==
    ASSUME NEW now, NEW i, NEW e,
           e.ev = "settle" => market' = market,
           e.ev = "partial" => /\ bets'[e.bet].stake = bets[e.bet].stake
                               /\ bets'[e.bet].shares = bets[e.bet].shares
    PROVE  After(now, i, e)' = After(now, i, e)
  BY ReplaySame DEF After

\* What the replay reads of the past does not change any more.
Settled(e) ==
    /\ e.ev = "settle" => market' = market
    /\ e.ev = "partial" => /\ bets'[e.bet].stake = bets[e.bet].stake
                           /\ bets'[e.bet].shares = bets[e.bet].shares

LEMMA HistoryStays ==
    ASSUME NEW H, IsHistory(H), TipInv, UNCHANGED <<log, tip>>, SameBets,
           market = "open" \/ market' = market
    PROVE  IsHistory(H)'
<1>1. \A j \in 1..Len(log) : Settled(log[j])
  BY DEF IsHistory, EventsInv, EventOk, Settled, SameBets
<1>2. Steps(H)'
  <2>1. ASSUME NEW j \in 1..Len(log), NEW i \in Indices
        PROVE  H[j][i] = After(H[j - 1], i, log[j])'
    <3>1. PICK e : e = log[j] /\ e = log'[j]
      OBVIOUS
    <3>2. H[j][i] = After(H[j - 1], i, e)
      BY <3>1 DEF IsHistory, Steps
    <3>3. Settled(e)
      BY <1>1, <3>1
    <3>4. After(H[j - 1], i, e)' = After(H[j - 1], i, e)
      BY <3>3, AfterSame DEF Settled
    <3> QED BY <3>1, <3>2, <3>4
  <2>2. \A i \in Indices : (H[0][i] = Start(i))'
    BY DEF IsHistory, Steps, Start
  <2> QED BY <2>1, <2>2 DEF Steps
<1>3. Typed(H)'
  BY DEF IsHistory, Typed, SameBets, BetOf, IsLineage
<1>4. EventsInv(H)'
  <2> SUFFICES ASSUME NEW j \in 1..Len(log) PROVE EventOk(H[j - 1], log[j], j)'
    BY DEF EventsInv
  <2>1. EventOk(H[j - 1], log[j], j)
    BY DEF IsHistory, EventsInv
  <2>2. Spends(H[j - 1], log[j], j) => Spends(H[j - 1], log[j], j)'
    BY DEF Spends, DepositedBy
  <2> QED BY <2>1, <2>2 DEF EventOk, SameBets
<1>5. NowInv(H)'
  <2>1. \A b \in DOMAIN bets : Unsold(b)' = Unsold(b)
    BY DEF SameBets, Unsold
  <2>2. \A i \in Indices : DepositedBy(i, Len(log))' = DepositedBy(i, Len(log))
    BY DEF DepositedBy
  <2>3. \A b \in DOMAIN bets' : b \in DOMAIN bets /\ bets'[b].status = bets[b].status
    BY DEF SameBets
  <2>4. ASSUME NEW i \in Indices, NEW h, h = H[Len(log)][i]
        PROVE  /\ tip[i] # NoNote => /\ h.n = tip[i].n /\ h.live = tip[i].live
                                     /\ DepositedBy(i, Len(log))'
                                     /\ h.live => h.bal = tip[i].bal
               /\ tip[i] = NoNote => h.n = 0 /\ h.live /\ h.bal = DepositAmount
               /\ \A b \in DOMAIN bets' : b[1] = i /\ bets'[b].status \notin Terminal =>
                    /\ b \in DOMAIN h.shares /\ h.shares[b] = Unsold(b)'
                    /\ Receipt(b[1], b[2], "none", FALSE) \in h.receipts
    <3>1. /\ tip[i] # NoNote => /\ h.n = tip[i].n /\ h.live = tip[i].live
                                /\ DepositedBy(i, Len(log))
                                /\ h.live => h.bal = tip[i].bal
          /\ tip[i] = NoNote => h.n = 0 /\ h.live /\ h.bal = DepositAmount
          /\ \A b \in DOMAIN bets : b[1] = i /\ bets[b].status \notin Terminal =>
               /\ b \in DOMAIN h.shares /\ h.shares[b] = Unsold(b)
               /\ Receipt(b[1], b[2], "none", FALSE) \in h.receipts
      BY <2>4 DEF IsHistory, NowInv
    <3> QED BY <2>1, <2>2, <2>3, <3>1
  <2> QED BY <2>4 DEF NowInv
<1>6. PastInv(H)'
  BY DEF IsHistory, PastInv, Open
<1>7. RecallInv(H)'
  BY DEF IsHistory, RecallInv, SameBets
<1> QED BY <1>2, <1>3, <1>4, <1>5, <1>6, <1>7 DEF IsHistory

-----------------------------------------------------------------------------
(* The history: what an event does to a lineage.                           *)

LEMMA NotMine ==
    ASSUME NEW now, NEW i, NEW e, e.ev = "deposit" \/ ~Mine(now[i], e)
    PROVE  After(now, i, e)' = now[i]
  BY DEF After, replayEvent

LEMMA BetReplayed ==
    ASSUME NEW st, NEW e, IsLineage(st), e.ev = "bet", Mine(st, e)
    PROVE  LET nx == replayEvent(st, e, TRUE)' IN
           /\ IsLineage(nx) /\ nx.i = st.i /\ nx.n = st.n + 1 /\ nx.live = st.live
           /\ nx.bal = st.bal - e.amt - ProtocolFee
           /\ nx.receipts = st.receipts \cup {Receipt(st.i, st.n, "none", FALSE)}
           /\ nx.shares = Put(st.shares, <<st.i, st.n>>, e.amt)
<1>1. replayEvent(st, e, TRUE)' = replayBet(st, e)
  BY DEF replayEvent
<1> QED BY <1>1 DEF replayBet, Onward, IsLineage

LEMMA CreditReplayed ==
    ASSUME NEW st, NEW e, IsLineage(st), e.ev \in {"settle", "betCancel"}, Mine(st, e)
    PROVE  LET nx == replayEvent(st, e, TRUE)' IN
           /\ IsLineage(nx) /\ nx.i = st.i /\ nx.n = st.n + 1 /\ nx.live = st.live
           /\ nx.bal = st.bal + IF e.ev = "settle" THEN st.shares[e.bet] * pendingCredit("none")'
                                ELSE st.shares[e.bet] + ProtocolFee
           /\ nx.receipts = Receipts(st, e.bet, TRUE)
           /\ nx.shares = st.shares
<1>1. replayEvent(st, e, TRUE)' = replayCredit(st, e)'
  BY DEF replayEvent
<1> QED BY <1>1 DEF replayCredit, Onward, IsLineage

LEMMA PartialReplayed ==
    ASSUME NEW st, NEW e, IsLineage(st), e.ev = "partial", Mine(st, e), e.bet \in DOMAIN st.shares
    PROVE  LET nx == replayEvent(st, e, TRUE)' IN
           /\ IsLineage(nx) /\ nx.i = st.i /\ nx.n = st.n + 1 /\ nx.live = st.live
           /\ nx.bal = st.bal + Refund(st.shares[e.bet], ProtocolFee, bets'[e.bet].stake)
           /\ nx.receipts = st.receipts /\ DOMAIN nx.shares = DOMAIN st.shares
           /\ nx.shares[e.bet] = bets'[e.bet].shares
           /\ \A b \in DOMAIN st.shares : b # e.bet => nx.shares[b] = st.shares[b]
<1> DEFINE bal == st.bal + Refund(st.shares[e.bet], ProtocolFee, bets'[e.bet].stake)
<1>1. PICK u : u = Onward(st, bal)
  OBVIOUS
<1>2. replayEvent(st, e, TRUE)' = [u EXCEPT !.shares[e.bet] = bets'[e.bet].shares]
  <2>1. replayEvent(st, e, TRUE)' = replayPartial(st, e)'
    BY DEF replayEvent
  <2>2. replayPartial(st, e)' = [Onward(st, bal) EXCEPT !.shares[e.bet] = bets'[e.bet].shares]
    BY DEF replayPartial
  <2> QED BY <1>1, <2>1, <2>2
<1>3. /\ IsLineage(u) /\ u.i = st.i /\ u.n = st.n + 1 /\ u.live = st.live /\ u.bal = bal
      /\ u.receipts = st.receipts /\ u.shares = st.shares
  BY <1>1 DEF Onward, IsLineage
<1> HIDE DEF bal
<1>4. LET nx == [u EXCEPT !.shares[e.bet] = bets'[e.bet].shares] IN
      /\ IsLineage(nx) /\ nx.i = u.i /\ nx.n = u.n /\ nx.live = u.live /\ nx.bal = u.bal
      /\ nx.receipts = u.receipts
  BY <1>3 DEF IsLineage
<1>5. [u EXCEPT !.shares[e.bet] = bets'[e.bet].shares].shares
        = [u.shares EXCEPT ![e.bet] = bets'[e.bet].shares]
  BY <1>3 DEF IsLineage
<1> QED BY ZenonT(40), <1>2, <1>3, <1>4, <1>5 DEF bal

LEMMA CloseReplayed ==
    ASSUME NEW st, NEW e, IsLineage(st), e.ev = "close", Mine(st, e), e.bet \in DOMAIN st.shares
    PROVE  LET nx == replayEvent(st, e, TRUE)' IN
           /\ IsLineage(nx) /\ nx.i = st.i /\ nx.n = st.n + 1 /\ nx.live = st.live
           /\ nx.bal = st.bal + e.amt
           /\ nx.receipts = (IF e.rest THEN st.receipts ELSE Receipts(st, e.bet, TRUE))
           /\ DOMAIN nx.shares = DOMAIN st.shares
           /\ e.rest => nx.shares[e.bet] = st.shares[e.bet] - e.amt
           /\ \A b \in DOMAIN st.shares : b # e.bet => nx.shares[b] = st.shares[b]
<1>1. PICK u : u = Onward(st, st.bal + e.amt)
  OBVIOUS
<1> DEFINE rs == IF e.rest THEN u.receipts ELSE Receipts(st, e.bet, TRUE)
           v == IF e.rest THEN u.shares[e.bet] - e.amt ELSE u.shares[e.bet]
<1>2. /\ IsLineage(u) /\ u.i = st.i /\ u.n = st.n + 1 /\ u.live = st.live
      /\ u.bal = st.bal + e.amt /\ u.receipts = st.receipts /\ u.shares = st.shares
  BY <1>1 DEF Onward, IsLineage
<1>3. replayEvent(st, e, TRUE)' = [u EXCEPT !.receipts = rs, !.shares[e.bet] = v]
  <2>1. replayEvent(st, e, TRUE)' = replayClose(st, e)
    BY DEF replayEvent
  <2>2. replayClose(st, e) = [u EXCEPT !.receipts = rs, !.shares[e.bet] = v]
    BY <1>1 DEF replayClose
  <2> HIDE DEF rs, v
  <2> QED BY <2>1, <2>2
<1> HIDE DEF rs, v
<1>4. LET nx == [u EXCEPT !.receipts = rs, !.shares[e.bet] = v] IN
      /\ IsLineage(nx) /\ nx.i = u.i /\ nx.n = u.n /\ nx.live = u.live /\ nx.bal = u.bal
      /\ nx.receipts = rs
  BY <1>2 DEF IsLineage
<1>5. [u EXCEPT !.receipts = rs, !.shares[e.bet] = v].shares = [u.shares EXCEPT ![e.bet] = v]
  BY <1>2 DEF IsLineage
<1>6. PICK nx : nx = [u EXCEPT !.receipts = rs, !.shares[e.bet] = v]
  OBVIOUS
<1>7. /\ IsLineage(nx) /\ nx.i = u.i /\ nx.n = u.n /\ nx.live = u.live /\ nx.bal = u.bal
      /\ nx.receipts = rs /\ nx.shares = [st.shares EXCEPT ![e.bet] = v]
  BY <1>2, <1>4, <1>5, <1>6
<1>8. /\ DOMAIN nx.shares = DOMAIN st.shares /\ nx.shares[e.bet] = v
      /\ \A b \in DOMAIN st.shares : b # e.bet => nx.shares[b] = st.shares[b]
  BY <1>7
<1>9. e.rest => v = st.shares[e.bet] - e.amt
  BY <1>2 DEF v
<1>10. rs = IF e.rest THEN st.receipts ELSE Receipts(st, e.bet, TRUE)
  BY <1>2 DEF rs
<1>11. replayEvent(st, e, TRUE)' = nx
  BY <1>3, <1>6
<1> QED BY <1>2, <1>7, <1>8, <1>9, <1>10, <1>11

LEMMA WithdrawReplayed ==
    ASSUME NEW st, NEW e, IsLineage(st), e.ev = "withdraw", Mine(st, e)
    PROVE  LET nx == replayEvent(st, e, TRUE)' IN
           /\ IsLineage(nx) /\ nx.i = st.i /\ nx.receipts = st.receipts /\ nx.shares = st.shares
           /\ e.rest => nx.n = st.n + 1 /\ nx.live = st.live /\ nx.bal = st.bal - e.amt
           /\ ~e.rest => nx.n = st.n /\ nx.live = FALSE /\ nx.bal = 0
<1>1. replayEvent(st, e, TRUE)' = replayWithdraw(st, e)
  BY DEF replayEvent
<1> QED BY <1>1 DEF replayWithdraw, Onward, IsLineage

LEMMA MergeReplayed ==
    ASSUME NEW now, NEW i, NEW e, IsLineage(now[i]), e.ev = "consolidate", Mine(now[i], e)
    PROVE  LET nx == After(now, i, e)' IN
           /\ IsLineage(nx) /\ nx.i = now[i].i /\ nx.receipts = now[i].receipts
           /\ nx.shares = now[i].shares
           /\ e.ins[1] = <<i, now[i].n>> =>
                /\ nx.n = now[i].n + 1 /\ nx.live = now[i].live
                /\ nx.bal = Merged([k \in DOMAIN e.ins |-> now[e.ins[k][1]].bal])
           /\ e.ins[1] # <<i, now[i].n>> =>
                nx.n = now[i].n /\ nx.live = FALSE /\ nx.bal = now[i].bal
  BY DEF After, Onward, IsLineage

\* The flows but for a merge are replayed alone.
LEMMA Alone ==
    ASSUME NEW now, NEW i, NEW e, e.ev # "consolidate"
    PROVE  After(now, i, e)' = replayEvent(now[i], e, TRUE)'
  BY DEF After

-----------------------------------------------------------------------------
(* The history: a transaction leaves the lineages as the chain holds them.  *)

\* What a lineage's replay agrees with the chain on: its note,
NoteExact(h, i) ==
    /\ IsLineage(h) /\ h.i = i /\ h.n \in Nat /\ h.bal \in Nat /\ h.live \in BOOLEAN
    /\ tip[i] # NoNote => /\ h.n = tip[i].n /\ h.live = tip[i].live
                          /\ h.live => h.bal = tip[i].bal
    /\ tip[i] = NoNote => h.n = 0 /\ h.live /\ h.bal = DepositAmount
\* and the bets it placed.
BetsExact(h, i) ==
    /\ \A r \in h.receipts : r \in BetReceipts /\ BetOf(r) \in DOMAIN bets
    /\ \A b \in DOMAIN bets : b[1] = i /\ bets[b].status \notin Terminal =>
         /\ b \in DOMAIN h.shares /\ h.shares[b] = Unsold(b)
         /\ Receipt(b[1], b[2], "none", FALSE) \in h.receipts
Exact(now) == \A i \in Indices : NoteExact(now[i], i) /\ BetsExact(now[i], i)

Mined(o, e, now) ==
    TipInv /\ BetsInv /\ Relayed(o) /\ Executes(o) /\ e = Event(o) /\ Exact(now)

LEMMA EventIs ==
    ASSUME NEW o, NEW e, e = Event(o)
    PROVE  /\ e.ev = o.flow /\ e.bet = o.bet
           /\ DOMAIN e.ins = DOMAIN o.ins /\ \A k \in DOMAIN o.ins : e.ins[k] = BetOf(o.ins[k])
           /\ e.amt = IF o.flow \in Credits \ {"close"} THEN 0 ELSE o.amt
           /\ o.flow = "close" => (e.rest <=> ~Finishes(o))
           /\ o.flow # "close" => (e.rest <=> NewBalance(o) > 0)
<1>1. /\ e.ev = o.flow /\ e.bet = o.bet
      /\ DOMAIN e.ins = DOMAIN o.ins /\ \A k \in DOMAIN o.ins : e.ins[k] = BetOf(o.ins[k])
      /\ e.amt = IF o.flow \in Credits \ {"close"} THEN 0 ELSE o.amt
  BY DEF Event
<1>2. e.rest = IF o.flow = "close" THEN ~Finishes(o) ELSE NewBalance(o) > 0
  BY DEF Event
<1>3. o.flow = "close" => (e.rest <=> ~Finishes(o))
  BY <1>2
<1>4. o.flow # "close" => (e.rest <=> NewBalance(o) > 0)
  BY <1>2
<1> QED BY <1>1, <1>3, <1>4

\* The event spends a lineage's note if and only if the transaction does.
LEMMA MineIsTaken ==
    ASSUME NEW o, NEW e, NEW now, Mined(o, e, now), NEW i \in Indices
    PROVE  /\ Mine(now[i], e) <=> Takes(o, i)
           /\ Takes(o, i) => (e.ins[1] = <<i, now[i].n>> <=> o.ins[1].i = i)
           /\ Takes(o, i) => /\ tip[i] # NoNote /\ now[i].live /\ now[i].n = tip[i].n
                             /\ now[i].bal = tip[i].bal
<1>1. /\ 1 \in DOMAIN o.ins
      /\ \A k \in DOMAIN o.ins :
           /\ o.ins[k].i \in Indices /\ tip[o.ins[k].i] # NoNote /\ tip[o.ins[k].i].live
           /\ o.ins[k].n = tip[o.ins[k].i].n
  BY InsAre DEF Mined, Executes
<1>2. DOMAIN e.ins = DOMAIN o.ins
      /\ \A k \in DOMAIN o.ins : e.ins[k] = <<o.ins[k].i, o.ins[k].n>>
  BY EventIs DEF Mined, BetOf
<1>3. NoteExact(now[i], i)
  BY DEF Mined, Exact
<1>4. Takes(o, i) => /\ tip[i] # NoNote /\ now[i].live /\ now[i].n = tip[i].n
                     /\ now[i].bal = tip[i].bal
  BY <1>1, <1>3 DEF Takes, NoteExact
<1>5. Takes(o, i) => Mine(now[i], e)
  <2> SUFFICES ASSUME NEW k \in DOMAIN o.ins, o.ins[k].i = i PROVE Mine(now[i], e)
    BY DEF Takes
  <2>1. now[i].live /\ now[i].n = o.ins[k].n /\ now[i].i = i
    BY <1>1, <1>3, <1>4 DEF NoteExact, Takes
  <2> QED BY <1>2, <2>1 DEF Mine
<1>6. Mine(now[i], e) => Takes(o, i)
  BY <1>2, <1>3 DEF Mine, Takes, NoteExact
<1>7. Takes(o, i) => (e.ins[1] = <<i, now[i].n>> <=> o.ins[1].i = i)
  BY <1>1, <1>2, <1>4
<1> QED BY <1>4, <1>5, <1>6, <1>7

LEMMA Untouched ==
    ASSUME NEW o, NEW e, NEW now, Mined(o, e, now), NEW i \in Indices, ~Takes(o, i),
           NEW h, h = After(now, i, e)'
    PROVE  NoteExact(h, i)' /\ BetsExact(h, i)'
<1>1. h = now[i]
  BY MineIsTaken, NotMine
<1>2. tip'[i] = tip[i]
  BY TipStep DEF Mined
<1>3. o.ins[1].i # i
  BY InsAre DEF Takes, Mined, Executes
<1>4. /\ DOMAIN bets \subseteq DOMAIN bets'
      /\ \A b \in DOMAIN bets' : b[1] = i => b \in DOMAIN bets /\ bets'[b] = bets[b]
  <2>1. CASE o.flow = "bet"
    <3> DEFINE k == BetOf(o.ins[1])
               new == NewBet(o)
    <3>1. k[1] # i
      BY <1>3 DEF BetOf
    <3> HIDE DEF k, new
    <3>2. bets' = Put(bets, k, new)
      BY <2>1, BetsStep DEF Mined, k, new
    <3> QED BY <3>1, <3>2 DEF Put
  <2>2. CASE o.flow \in Credits
    <3>1. o.bet \in DOMAIN bets /\ o.bet[1] # i
      BY <1>3, <2>2 DEF Mined, Relayed, IsFlow, Priced
    <3> QED BY <2>2, <3>1, BetsStep DEF Mined
  <2>3. CASE o.flow \notin {"bet"} \cup Credits
    BY <2>3, BetsStep DEF Mined
  <2> QED BY <2>1, <2>2, <2>3
<1>5. NoteExact(h, i) /\ BetsExact(h, i)
  BY <1>1 DEF Mined, Exact
<1>6. NoteExact(h, i)'
  BY <1>2, <1>5 DEF NoteExact, IsLineage
<1>7. BetsExact(h, i)'
  BY <1>4, <1>5 DEF BetsExact, Unsold
<1> QED BY <1>6, <1>7

\* The note left in slot 0.
LEMMA NoteMoved ==
    ASSUME NEW o, NEW e, NEW now, Mined(o, e, now), NEW i \in Indices, i = o.ins[1].i,
           ~Drains(o), NEW nx, IsLineage(nx), nx.i = i, nx.n = now[i].n + 1,
           nx.live = now[i].live, nx.bal = NewBalance(o)
    PROVE  NoteExact(nx, i)'
<1>1. Takes(o, i)
  BY InsAre DEF Takes, Mined, Executes
<1>2. tip'[i] = [n |-> o.ins[1].n + 1, bal |-> NewBalance(o), live |-> TRUE]
  BY TipStep DEF Mined
<1>3. o.ins[1].n = tip[i].n /\ tip[i].n \in Nat
  <2>1. TipInv /\ Spendable(o)
    BY DEF Mined, Executes
  <2>2. 1 \in DOMAIN o.ins
    BY <2>1, InsAre
  <2>3. o.ins[1].n = tip[o.ins[1].i].n /\ o.ins[1].n \in Nat
    BY <2>1, <2>2, InsAre
  <2> QED BY <2>3
<1>4. now[i].live /\ now[i].n = tip[i].n
  BY <1>1, MineIsTaken
<1>5. NewBalance(o) \in Nat
  BY DEF Mined, Executes
<1>6. now[i].live = TRUE
  BY <1>4 DEF Mined, Exact, NoteExact
<1> QED BY <1>2, <1>3, <1>4, <1>5, <1>6 DEF NoteExact, NoNote, IsLineage

\* A lineage that ends.
LEMMA NoteEnded ==
    ASSUME NEW o, NEW e, NEW now, Mined(o, e, now), NEW i \in Indices, Takes(o, i),
           i # o.ins[1].i \/ Drains(o), NEW nx, IsLineage(nx), nx.i = i, nx.n = now[i].n,
           nx.live = FALSE, nx.bal \in Nat
    PROVE  NoteExact(nx, i)'
<1>1. tip'[i].n = tip[i].n /\ ~tip'[i].live /\ tip'[i].live \in BOOLEAN
  BY TipStep DEF Mined
<1>2. tip[i] # NoNote /\ now[i].n = tip[i].n
  BY MineIsTaken
<1>3. tip[i].n \in Nat
  BY <1>2 DEF Mined, TipInv
<1>4. tip'[i] # NoNote
  BY <1>1, <1>3 DEF NoNote
<1> QED BY <1>1, <1>2, <1>3, <1>4 DEF NoteExact, IsLineage

\* The lineage of slot 0, and what the event says of it.
LEMMA FirstIs ==
    ASSUME NEW o, NEW e, NEW now, Mined(o, e, now), NEW i, i = o.ins[1].i
    PROVE  /\ i \in Indices /\ Takes(o, i) /\ Mine(now[i], e)
           /\ IsLineage(now[i]) /\ now[i].i = i /\ now[i].n \in Nat /\ now[i].bal \in Nat
           /\ BetOf(o.ins[1]) = <<i, now[i].n>> /\ now[i].bal = o.ins[1].bal
           /\ e.ev = o.flow /\ e.bet = o.bet
<1>1. Spendable(o) /\ TipInv
  BY DEF Mined, Executes
<1>2. i \in Indices /\ 1 \in DOMAIN o.ins /\ o.ins[1].n = tip[i].n /\ o.ins[1].bal = tip[i].bal
  BY <1>1, InsAre
<1>3. Takes(o, i)
  BY <1>2 DEF Takes
<1>4. Mine(now[i], e) /\ now[i].n = tip[i].n /\ now[i].bal = tip[i].bal
  BY <1>2, <1>3, MineIsTaken
<1>5. e.ev = o.flow /\ e.bet = o.bet
  BY EventIs DEF Mined
<1> QED BY <1>2, <1>3, <1>4, <1>5 DEF Mined, Exact, NoteExact, BetOf

LEMMA BetMoved ==
    ASSUME NEW o, NEW e, NEW now, Mined(o, e, now), NEW i, i = o.ins[1].i, o.flow = "bet",
           NEW nx, nx = After(now, i, e)'
    PROVE  NoteExact(nx, i)' /\ BetsExact(nx, i)'
<1> DEFINE k == BetOf(o.ins[1])
           new == NewBet(o)
<1>1. /\ i \in Indices /\ Takes(o, i) /\ Mine(now[i], e)
      /\ IsLineage(now[i]) /\ now[i].i = i /\ now[i].n \in Nat /\ now[i].bal \in Nat
      /\ k = <<i, now[i].n>> /\ now[i].bal = o.ins[1].bal
      /\ e.ev = o.flow
  BY FirstIs
<1>2. PICK st : st = now[i]
  OBVIOUS
<1>17. /\ Mine(st, e) /\ IsLineage(st) /\ st.i = i /\ st.n \in Nat /\ k = <<i, st.n>>
       /\ e.ev = "bet" /\ st.bal = o.ins[1].bal
  BY <1>1, <1>2
<1>18. nx = replayEvent(st, e, TRUE)'
  BY <1>1, <1>2, Alone
<1>3. /\ IsLineage(nx) /\ nx.i = st.i /\ nx.n = st.n + 1 /\ nx.live = st.live
      /\ nx.bal = st.bal - e.amt - ProtocolFee
      /\ nx.receipts = st.receipts \cup {Receipt(st.i, st.n, "none", FALSE)}
      /\ nx.shares = Put(st.shares, <<st.i, st.n>>, e.amt)
  <2>1. LET mx == replayEvent(st, e, TRUE)' IN
        /\ IsLineage(mx) /\ mx.i = st.i /\ mx.n = st.n + 1 /\ mx.live = st.live
        /\ mx.bal = st.bal - e.amt - ProtocolFee
        /\ mx.receipts = st.receipts \cup {Receipt(st.i, st.n, "none", FALSE)}
        /\ mx.shares = Put(st.shares, <<st.i, st.n>>, e.amt)
    BY <1>17, BetReplayed
  <2> QED BY <1>18, <2>1
<1>4. e.amt = o.amt /\ o.amt \in Nat
  BY EventIs, WalletAssumption DEF Mined, Relayed, IsFlow, Credits
<1>5. NewBalance(o) = o.ins[1].bal - o.amt - ProtocolFee
  BY DEF NewBalance
<1>6. ~Drains(o)
  BY DEF Drains
<1>7. NoteExact(nx, i)'
  <2>1. nx.i = i /\ nx.n = now[i].n + 1 /\ nx.live = now[i].live /\ nx.bal = NewBalance(o)
    BY <1>2, <1>3, <1>4, <1>5, <1>17
  <2> QED BY <1>1, <1>3, <1>6, <2>1, NoteMoved
<1>8. bets' = Put(bets, k, new)
  BY BetsStep DEF Mined
<1>9. new.shares = o.amt /\ new.sold = 0
  BY DEF NewBet
<1> HIDE DEF k, new
<1>10. DOMAIN bets' = DOMAIN bets \cup {k} /\ bets'[k] = new
       /\ \A b \in DOMAIN bets : b # k => bets'[b] = bets[b]
  BY <1>8 DEF Put
<1>11. DOMAIN nx.shares = DOMAIN st.shares \cup {k} /\ nx.shares[k] = o.amt
       /\ \A b \in DOMAIN st.shares : b # k => nx.shares[b] = st.shares[b]
  <2>1. nx.shares = Put(st.shares, k, o.amt)
    BY <1>3, <1>4, <1>17
  <2> QED BY <2>1 DEF Put
<1>12. BetsExact(st, i)
  BY <1>1, <1>2 DEF Mined, Exact
<1>13. /\ Receipt(i, st.n, "none", FALSE) \in BetReceipts
       /\ BetOf(Receipt(i, st.n, "none", FALSE)) = k
       /\ Receipt(k[1], k[2], "none", FALSE) = Receipt(i, st.n, "none", FALSE)
  BY <1>1, <1>2 DEF Receipt, BetReceipts, BetOf, AnySide
<1>14. ASSUME NEW b \in DOMAIN bets', b[1] = i, bets'[b].status \notin Terminal
       PROVE  /\ b \in DOMAIN nx.shares /\ nx.shares[b] = bets'[b].shares - bets'[b].sold
              /\ Receipt(b[1], b[2], "none", FALSE) \in nx.receipts
  <2>1. CASE b = k
    <3>1. bets'[b].shares = o.amt /\ bets'[b].sold = 0
      BY <1>9, <1>10, <2>1
    <3>2. b \in DOMAIN nx.shares /\ nx.shares[b] = o.amt /\ o.amt = o.amt - 0
      BY <1>4, <1>11, <2>1
    <3>3. Receipt(b[1], b[2], "none", FALSE) \in nx.receipts
      BY <1>3, <1>13, <1>17, <2>1
    <3> QED BY <3>1, <3>2, <3>3
  <2>2. CASE b # k
    BY <1>3, <1>10, <1>11, <1>12, <1>14, <2>2 DEF BetsExact, Unsold
  <2> QED BY <2>1, <2>2
<1>15. ASSUME NEW r \in nx.receipts PROVE r \in BetReceipts /\ BetOf(r) \in DOMAIN bets'
  BY <1>1, <1>2, <1>3, <1>10, <1>12, <1>13 DEF BetsExact
<1>16. BetsExact(nx, i)'
  BY <1>14, <1>15 DEF BetsExact, Unsold
<1> QED BY <1>7, <1>16

\* What holds of every credit: the bet is its lineage's, and the others stay.
LEMMA CreditIs ==
    ASSUME NEW o, NEW e, NEW now, Mined(o, e, now), NEW i, i = o.ins[1].i, o.flow \in Credits
    PROVE  /\ o.bet \in DOMAIN bets /\ o.bet[1] = i /\ VaultAllows(o)
           /\ bets' = [bets EXCEPT ![o.bet] = BetAfter(o)]
           /\ bets[o.bet].status \notin Terminal
           /\ o.bet \in DOMAIN now[i].shares /\ now[i].shares[o.bet] = Unsold(o.bet)
           /\ NewBalance(o) = o.ins[1].bal + o.amt /\ ~Drains(o)
<1>1. o.bet \in DOMAIN bets /\ o.bet[1] = i /\ VaultAllows(o)
  BY DEF Mined, Relayed, IsFlow, Priced, Executes
<1>2. bets' = [bets EXCEPT ![o.bet] = BetAfter(o)]
  BY BetsStep DEF Mined
<1>3. bets[o.bet].status \notin Terminal
  BY <1>1, BetAfterIs DEF Mined
<1>4. BetsExact(now[i], i)
  BY FirstIs DEF Mined, Exact
<1>5. NewBalance(o) = o.ins[1].bal + o.amt /\ ~Drains(o)
  BY DEF NewBalance, Drains, Credits
<1> QED BY <1>1, <1>2, <1>3, <1>4, <1>5 DEF BetsExact

\* A credit that ends its bet keeps the receipts of the others.
LEMMA ReceiptsKept ==
    ASSUME NEW st, NEW b, \A r \in st.receipts : r \in BetReceipts /\ BetOf(r) \in DOMAIN bets
    PROVE  /\ \A r \in Receipts(st, b, TRUE) : r \in BetReceipts /\ BetOf(r) \in DOMAIN bets
           /\ \A r \in st.receipts : BetOf(r) # b => r \in Receipts(st, b, TRUE)
<1>1. \A r \in BetReceipts : [r EXCEPT !.spent = TRUE] \in BetReceipts
                             /\ BetOf([r EXCEPT !.spent = TRUE]) = BetOf(r)
  BY DEF BetReceipts, BetOf
<1> QED BY <1>1 DEF Receipts

LEMMA EndMoved ==
    ASSUME NEW o, NEW e, NEW now, Mined(o, e, now), NEW i, i = o.ins[1].i,
           o.flow \in {"settle", "betCancel"}, Sides \subseteq {"YES"}, NEW nx,
           nx = After(now, i, e)'
    PROVE  NoteExact(nx, i)' /\ BetsExact(nx, i)'
<1>1. PICK st : st = now[i]
  OBVIOUS
<1>2. /\ i \in Indices /\ Mine(st, e) /\ IsLineage(st) /\ st.i = i
      /\ st.bal = o.ins[1].bal /\ e.ev = o.flow /\ e.bet = o.bet
  BY <1>1, FirstIs
<1>3. o.flow \in Credits
  BY DEF Credits
<1>4. /\ o.bet \in DOMAIN bets /\ o.bet[1] = i /\ VaultAllows(o)
      /\ bets' = [bets EXCEPT ![o.bet] = BetAfter(o)]
      /\ o.bet \in DOMAIN st.shares /\ st.shares[o.bet] = Unsold(o.bet)
      /\ NewBalance(o) = o.ins[1].bal + o.amt /\ ~Drains(o)
  BY <1>1, <1>3, CreditIs
<1>5. nx = replayEvent(st, e, TRUE)'
  BY <1>1, <1>2, Alone
<1>6. /\ IsLineage(nx) /\ nx.i = st.i /\ nx.n = st.n + 1 /\ nx.live = st.live
      /\ nx.bal = st.bal + IF e.ev = "settle" THEN st.shares[e.bet] * pendingCredit("none")'
                           ELSE st.shares[e.bet] + ProtocolFee
      /\ nx.receipts = Receipts(st, e.bet, TRUE)
      /\ nx.shares = st.shares
  <2>1. LET mx == replayEvent(st, e, TRUE)' IN
        /\ IsLineage(mx) /\ mx.i = st.i /\ mx.n = st.n + 1 /\ mx.live = st.live
        /\ mx.bal = st.bal + IF e.ev = "settle" THEN st.shares[e.bet] * pendingCredit("none")'
                             ELSE st.shares[e.bet] + ProtocolFee
        /\ mx.receipts = Receipts(st, e.bet, TRUE)
        /\ mx.shares = st.shares
    BY <1>2, CreditReplayed
  <2> QED BY <1>5, <2>1
<1>7. nx.bal = st.bal + o.amt
  <2>1. CASE o.flow = "settle"
    <3>1. o.amt = Unsold(o.bet) * pendingCredit(bets[o.bet].side)
      BY <1>3, <1>4, <2>1, BetAfterIs DEF Mined
    <3>2. bets[o.bet].side = "YES"
      BY <1>4 DEF Mined, BetsInv, BetRecords
    <3>3. pendingCredit("none")' = pendingCredit("YES")
      BY BetsStep DEF pendingCredit, Mined
    <3> QED BY <1>2, <1>4, <1>6, <2>1, <3>1, <3>2, <3>3
  <2>2. CASE o.flow = "betCancel"
    <3>1. bets[o.bet].status = "ACTIVE"
      BY <1>3, <1>4, <2>2, BetAfterIs DEF Mined
    <3>2. bets[o.bet] \in BetRecords /\ bets[o.bet].sold = 0
          /\ bets[o.bet].shares = bets[o.bet].stake
      BY <1>4, <3>1 DEF Mined, BetsInv
    <3>3. bets[o.bet].fee = ProtocolFee /\ bets[o.bet].stake \in Nat
      BY <3>2 DEF BetRecords
    <3>4. Unsold(o.bet) = bets[o.bet].stake
      BY <3>2, <3>3 DEF Unsold
    <3>5. o.amt = bets[o.bet].stake + bets[o.bet].fee
      BY <1>3, <2>2 DEF Mined, Relayed, Priced
    <3> QED BY <1>2, <1>4, <1>6, <2>2, <3>3, <3>4, <3>5
  <2> QED BY <2>1, <2>2
<1>8. NoteExact(nx, i)'
  <2>1. nx.i = i /\ nx.n = now[i].n + 1 /\ nx.live = now[i].live /\ nx.bal = NewBalance(o)
    BY <1>1, <1>2, <1>4, <1>6, <1>7
  <2> QED BY <1>2, <1>4, <1>6, <2>1, NoteMoved
<1>9. BetsExact(st, i)
  BY <1>1, <1>2 DEF Mined, Exact
<1>10. /\ \A r \in nx.receipts : r \in BetReceipts /\ BetOf(r) \in DOMAIN bets
       /\ \A r \in st.receipts : BetOf(r) # o.bet => r \in nx.receipts
  <2>1. \A r \in st.receipts : r \in BetReceipts /\ BetOf(r) \in DOMAIN bets
    BY <1>9 DEF BetsExact
  <2>2. nx.receipts = Receipts(st, o.bet, TRUE)
    BY <1>2, <1>6
  <2>3. /\ \A r \in Receipts(st, o.bet, TRUE) : r \in BetReceipts /\ BetOf(r) \in DOMAIN bets
        /\ \A r \in st.receipts : BetOf(r) # o.bet => r \in Receipts(st, o.bet, TRUE)
    BY <2>1, ReceiptsKept
  <2> QED BY <2>2, <2>3
<1>11. BetAfter(o).status \in Terminal
  BY <1>3, <1>4, BetAfterIs DEF Mined
<1>12. DOMAIN bets' = DOMAIN bets /\ bets'[o.bet].status \in Terminal
       /\ \A b \in DOMAIN bets : b # o.bet => bets'[b] = bets[b]
  BY <1>4, <1>11
<1>13. ASSUME NEW b \in DOMAIN bets', b[1] = i, bets'[b].status \notin Terminal
       PROVE  /\ b \in DOMAIN nx.shares /\ nx.shares[b] = bets'[b].shares - bets'[b].sold
              /\ Receipt(b[1], b[2], "none", FALSE) \in nx.receipts
  <2>1. b # o.bet /\ b \in DOMAIN bets /\ bets'[b] = bets[b]
    BY <1>12, <1>13
  <2>2. BetOf(Receipt(b[1], b[2], "none", FALSE)) = b
    BY <2>1 DEF BetOf, Receipt, Mined, BetsInv
  <2> QED BY <1>6, <1>9, <1>10, <1>13, <2>1, <2>2 DEF BetsExact, Unsold
<1>14. BetsExact(nx, i)'
  BY <1>10, <1>12, <1>13 DEF BetsExact, Unsold
<1> QED BY <1>8, <1>14

LEMMA PartialMoved ==
    ASSUME NEW o, NEW e, NEW now, Mined(o, e, now), NEW i, i = o.ins[1].i,
           o.flow = "partial", NEW nx, nx = After(now, i, e)'
    PROVE  NoteExact(nx, i)' /\ BetsExact(nx, i)'
<1>1. PICK st : st = now[i]
  OBVIOUS
<1>2. /\ i \in Indices /\ Mine(st, e) /\ IsLineage(st) /\ st.i = i
      /\ st.bal = o.ins[1].bal /\ e.ev = o.flow /\ e.bet = o.bet
  BY <1>1, FirstIs
<1>3. o.flow \in Credits
  BY DEF Credits
<1>4. /\ o.bet \in DOMAIN bets /\ o.bet[1] = i /\ VaultAllows(o)
      /\ bets' = [bets EXCEPT ![o.bet] = BetAfter(o)]
      /\ o.bet \in DOMAIN st.shares /\ st.shares[o.bet] = Unsold(o.bet)
      /\ NewBalance(o) = o.ins[1].bal + o.amt /\ ~Drains(o)
  BY <1>1, <1>3, CreditIs
<1>5. nx = replayEvent(st, e, TRUE)'
  BY <1>1, <1>2, Alone
<1>6. /\ IsLineage(nx) /\ nx.i = st.i /\ nx.n = st.n + 1 /\ nx.live = st.live
      /\ nx.bal = st.bal + Refund(st.shares[o.bet], ProtocolFee, bets'[o.bet].stake)
      /\ nx.receipts = st.receipts /\ DOMAIN nx.shares = DOMAIN st.shares
      /\ nx.shares[o.bet] = bets'[o.bet].shares
      /\ \A b \in DOMAIN st.shares : b # o.bet => nx.shares[b] = st.shares[b]
  <2>1. LET mx == replayEvent(st, e, TRUE)' IN
        /\ IsLineage(mx) /\ mx.i = st.i /\ mx.n = st.n + 1 /\ mx.live = st.live
        /\ mx.bal = st.bal + Refund(st.shares[e.bet], ProtocolFee, bets'[e.bet].stake)
        /\ mx.receipts = st.receipts /\ DOMAIN mx.shares = DOMAIN st.shares
        /\ mx.shares[e.bet] = bets'[e.bet].shares
        /\ \A b \in DOMAIN st.shares : b # e.bet => mx.shares[b] = st.shares[b]
    <3>1. e.ev = "partial" /\ e.bet \in DOMAIN st.shares
      BY <1>2, <1>4
    <3> QED BY <1>2, <3>1, PartialReplayed
  <2> QED BY <1>2, <1>5, <2>1
<1>7. PICK b0 \in BetRecords : b0 = bets[o.bet]
  BY <1>4 DEF Mined, BetsInv
<1>8. PICK c : c = BetAfter(o)
  OBVIOUS
<1>9. /\ b0.status = "ACTIVE" /\ c.stake = b0.filled /\ c.shares = b0.filled /\ c.sold = b0.sold
      /\ c.status = "FILLED"
  BY <1>3, <1>4, <1>7, <1>8, BetAfterIs DEF Mined
<1>10. b0.sold = 0 /\ b0.shares = b0.stake /\ b0.stake \in Nat /\ b0.fee = ProtocolFee
       /\ b0.filled \in Nat
  BY <1>4, <1>7, <1>9 DEF Mined, BetsInv, BetRecords
<1>11. DOMAIN bets' = DOMAIN bets /\ bets'[o.bet] = c
       /\ \A b \in DOMAIN bets : b # o.bet => bets'[b] = bets[b]
  BY <1>4, <1>8
<1>12. nx.bal = st.bal + o.amt
  <2>1. st.shares[o.bet] = b0.stake
    BY <1>4, <1>7, <1>10 DEF Unsold
  <2>2. o.amt = Refund(b0.stake, b0.fee, b0.filled)
    BY <1>3, <1>7 DEF Mined, Relayed, Priced
  <2> QED BY <1>6, <1>9, <1>10, <1>11, <2>1, <2>2
<1>13. NoteExact(nx, i)'
  <2>1. nx.i = i /\ nx.n = now[i].n + 1 /\ nx.live = now[i].live /\ nx.bal = NewBalance(o)
    BY <1>1, <1>2, <1>4, <1>6, <1>12
  <2> QED BY <1>2, <1>4, <1>6, <2>1, NoteMoved
<1>14. BetsExact(st, i)
  BY <1>1, <1>2 DEF Mined, Exact
<1>15. bets[o.bet].status \notin Terminal
  BY <1>7, <1>9 DEF Terminal
<1>16. ASSUME NEW b \in DOMAIN bets', b[1] = i, bets'[b].status \notin Terminal
       PROVE  /\ b \in DOMAIN nx.shares /\ nx.shares[b] = bets'[b].shares - bets'[b].sold
              /\ Receipt(b[1], b[2], "none", FALSE) \in nx.receipts
  <2>1. CASE b = o.bet
    <3>1. Receipt(b[1], b[2], "none", FALSE) \in nx.receipts
      BY <1>4, <1>6, <1>14, <1>15, <2>1 DEF BetsExact
    <3>2. b0.filled = b0.filled - 0
      BY <1>10
    <3> QED BY ZenonT(40), <1>4, <1>6, <1>9, <1>10, <1>11, <2>1, <3>1, <3>2
  <2>2. CASE b # o.bet
    BY <1>6, <1>11, <1>14, <1>16, <2>2 DEF BetsExact, Unsold
  <2> QED BY <2>1, <2>2
<1>17. BetsExact(nx, i)'
  BY <1>6, <1>11, <1>14, <1>16 DEF BetsExact, Unsold
<1> QED BY <1>13, <1>17

LEMMA CloseMoved ==
    ASSUME NEW o, NEW e, NEW now, Mined(o, e, now), NEW i, i = o.ins[1].i,
           o.flow = "close", NEW nx, nx = After(now, i, e)'
    PROVE  NoteExact(nx, i)' /\ BetsExact(nx, i)'
<1>1. PICK st : st = now[i]
  OBVIOUS
<1>2. /\ i \in Indices /\ Mine(st, e) /\ IsLineage(st) /\ st.i = i
      /\ st.bal = o.ins[1].bal /\ e.ev = o.flow /\ e.bet = o.bet
  BY <1>1, FirstIs
<1>3. o.flow \in Credits
  BY DEF Credits
<1>4. /\ o.bet \in DOMAIN bets /\ o.bet[1] = i /\ VaultAllows(o)
      /\ bets' = [bets EXCEPT ![o.bet] = BetAfter(o)]
      /\ o.bet \in DOMAIN st.shares /\ st.shares[o.bet] = Unsold(o.bet)
      /\ NewBalance(o) = o.ins[1].bal + o.amt /\ ~Drains(o)
      /\ bets[o.bet].status \notin Terminal
  BY <1>1, <1>3, CreditIs
<1>5. nx = replayEvent(st, e, TRUE)'
  BY <1>1, <1>2, Alone
<1>6. /\ IsLineage(nx) /\ nx.i = st.i /\ nx.n = st.n + 1 /\ nx.live = st.live
      /\ nx.bal = st.bal + e.amt
      /\ nx.receipts = (IF e.rest THEN st.receipts ELSE Receipts(st, o.bet, TRUE))
      /\ DOMAIN nx.shares = DOMAIN st.shares
      /\ e.rest => nx.shares[o.bet] = st.shares[o.bet] - e.amt
      /\ \A b \in DOMAIN st.shares : b # o.bet => nx.shares[b] = st.shares[b]
  <2>1. LET mx == replayEvent(st, e, TRUE)' IN
        /\ IsLineage(mx) /\ mx.i = st.i /\ mx.n = st.n + 1 /\ mx.live = st.live
        /\ mx.bal = st.bal + e.amt
        /\ mx.receipts = (IF e.rest THEN st.receipts ELSE Receipts(st, e.bet, TRUE))
        /\ DOMAIN mx.shares = DOMAIN st.shares
        /\ e.rest => mx.shares[e.bet] = st.shares[e.bet] - e.amt
        /\ \A b \in DOMAIN st.shares : b # e.bet => mx.shares[b] = st.shares[b]
    <3>1. e.ev = "close" /\ e.bet \in DOMAIN st.shares
      BY <1>2, <1>4
    <3> QED BY <1>2, <3>1, CloseReplayed
  <2> QED BY <1>2, <1>5, <2>1
<1>7. PICK b0 \in BetRecords : b0 = bets[o.bet]
  BY <1>4 DEF Mined, BetsInv
<1>8. PICK c : c = BetAfter(o)
  OBVIOUS
<1>9. /\ b0.sold = 0 /\ c.sold = b0.soldAtt /\ b0.soldAtt <= b0.shares
      /\ c.status = (IF b0.soldAtt = b0.shares THEN "CLOSED_CREDITED" ELSE "FILLED")
      /\ c.stake = b0.stake /\ c.shares = b0.shares
  <2>1. o.flow \in Credits /\ o.flow # "partial" /\ BetsInv
    BY <1>3 DEF Mined
  <2> QED BY <1>4, <1>7, <1>8, <2>1, BetAfterIs
<1>10. b0.shares \in Nat /\ b0.soldAtt \in Nat
  BY DEF BetRecords
<1>11. DOMAIN bets' = DOMAIN bets /\ bets'[o.bet] = c
       /\ \A b \in DOMAIN bets : b # o.bet => bets'[b] = bets[b]
  BY <1>4, <1>8
<1>12. e.amt = o.amt /\ o.amt = b0.soldAtt
  BY <1>3, <1>7, EventIs DEF Mined, Relayed, Priced
<1>13. e.rest <=> b0.soldAtt # b0.shares
  <2>1. e.rest <=> ~Finishes(o)
    BY EventIs DEF Mined
  <2>2. Finishes(o) <=> b0.soldAtt >= b0.shares
    BY <1>7 DEF Finishes
  <2> QED BY <1>9, <1>10, <2>1, <2>2
<1>14. NoteExact(nx, i)'
  <2>1. nx.i = i /\ nx.n = now[i].n + 1 /\ nx.live = now[i].live /\ nx.bal = NewBalance(o)
    BY <1>1, <1>2, <1>4, <1>6, <1>12
  <2> QED BY <1>2, <1>4, <1>6, <2>1, NoteMoved
<1>15. BetsExact(st, i)
  BY <1>1, <1>2 DEF Mined, Exact
<1>16. /\ \A r \in nx.receipts : r \in BetReceipts /\ BetOf(r) \in DOMAIN bets
       /\ \A r \in st.receipts : BetOf(r) # o.bet \/ e.rest => r \in nx.receipts
  <2>1. \A r \in st.receipts : r \in BetReceipts /\ BetOf(r) \in DOMAIN bets
    BY <1>15 DEF BetsExact
  <2>2. /\ \A r \in Receipts(st, o.bet, TRUE) : r \in BetReceipts /\ BetOf(r) \in DOMAIN bets
        /\ \A r \in st.receipts : BetOf(r) # o.bet => r \in Receipts(st, o.bet, TRUE)
    BY <2>1, ReceiptsKept
  <2>3. CASE e.rest
    BY <1>6, <2>1, <2>3
  <2>4. CASE ~e.rest
    BY <1>6, <2>2, <2>4
  <2> QED BY <2>3, <2>4
<1>17. ASSUME NEW b \in DOMAIN bets', b[1] = i, bets'[b].status \notin Terminal
       PROVE  /\ b \in DOMAIN nx.shares /\ nx.shares[b] = bets'[b].shares - bets'[b].sold
              /\ Receipt(b[1], b[2], "none", FALSE) \in nx.receipts
  <2>1. CASE b = o.bet
    <3>1. c.status \notin Terminal
      BY <1>11, <1>17, <2>1
    <3>2. e.rest
      BY <1>9, <1>13, <3>1 DEF Terminal
    <3>3. Receipt(b[1], b[2], "none", FALSE) \in nx.receipts
      BY <1>4, <1>15, <1>16, <2>1, <3>2 DEF BetsExact
    <3>4. st.shares[o.bet] = b0.shares
      BY <1>4, <1>7, <1>9, <1>10 DEF Unsold
    <3>5. bets'[b].shares - bets'[b].sold = b0.shares - b0.soldAtt
      BY <1>9, <1>11, <2>1
    <3>6. nx.shares[b] = b0.shares - b0.soldAtt
      BY <1>6, <1>12, <2>1, <3>2, <3>4
    <3>7. b \in DOMAIN nx.shares
      BY <1>4, <1>6, <2>1
    <3> QED BY <3>3, <3>5, <3>6, <3>7
  <2>2. CASE b # o.bet
    <3>1. b \in DOMAIN bets /\ bets'[b] = bets[b]
      BY <1>11, <1>17, <2>2
    <3>2. BetOf(Receipt(b[1], b[2], "none", FALSE)) = b
      BY <3>1 DEF BetOf, Receipt, Mined, BetsInv
    <3> QED BY <1>6, <1>15, <1>16, <1>17, <2>2, <3>1, <3>2 DEF BetsExact, Unsold
  <2> QED BY <2>1, <2>2
<1>18. BetsExact(nx, i)'
  BY <1>11, <1>16, <1>17 DEF BetsExact, Unsold
<1> QED BY <1>14, <1>18

LEMMA WithdrawMoved ==
    ASSUME NEW o, NEW e, NEW now, Mined(o, e, now), NEW i, i = o.ins[1].i,
           o.flow = "withdraw", NEW nx, nx = After(now, i, e)'
    PROVE  NoteExact(nx, i)' /\ BetsExact(nx, i)'
<1>1. PICK st : st = now[i]
  OBVIOUS
<1>2. /\ i \in Indices /\ Takes(o, i) /\ Mine(st, e) /\ IsLineage(st) /\ st.i = i
      /\ st.bal = o.ins[1].bal /\ e.ev = "withdraw"
  BY <1>1, FirstIs
<1>3. nx = replayEvent(st, e, TRUE)'
  BY <1>1, <1>2, Alone
<1>4. /\ IsLineage(nx) /\ nx.i = st.i /\ nx.receipts = st.receipts /\ nx.shares = st.shares
      /\ e.rest => nx.n = st.n + 1 /\ nx.live = st.live /\ nx.bal = st.bal - e.amt
      /\ ~e.rest => nx.n = st.n /\ nx.live = FALSE /\ nx.bal = 0
  <2>1. LET mx == replayEvent(st, e, TRUE)' IN
        /\ IsLineage(mx) /\ mx.i = st.i /\ mx.receipts = st.receipts /\ mx.shares = st.shares
        /\ e.rest => mx.n = st.n + 1 /\ mx.live = st.live /\ mx.bal = st.bal - e.amt
        /\ ~e.rest => mx.n = st.n /\ mx.live = FALSE /\ mx.bal = 0
    BY <1>2, WithdrawReplayed
  <2> QED BY <1>3, <2>1
<1>5. e.amt = o.amt /\ (e.rest <=> NewBalance(o) > 0)
  BY EventIs DEF Mined, Credits
<1>6. NewBalance(o) = o.ins[1].bal - o.amt /\ NewBalance(o) \in Nat
  BY DEF NewBalance, Mined, Executes
<1>7. Drains(o) <=> ~e.rest
  BY <1>5, <1>6 DEF Drains
<1>8. NoteExact(nx, i)'
  <2>1. CASE e.rest
    <3>1. nx.i = i /\ nx.n = now[i].n + 1 /\ nx.live = now[i].live /\ nx.bal = NewBalance(o)
      BY <1>1, <1>2, <1>4, <1>5, <1>6, <2>1
    <3> QED BY <1>2, <1>4, <1>7, <2>1, <3>1, NoteMoved
  <2>2. CASE ~e.rest
    <3>1. nx.i = i /\ nx.n = now[i].n /\ nx.live = FALSE /\ nx.bal \in Nat
      BY <1>1, <1>2, <1>4, <2>2
    <3> QED BY <1>2, <1>4, <1>7, <2>2, <3>1, NoteEnded
  <2> QED BY <2>1, <2>2
<1>9. BetsExact(st, i) /\ bets' = bets
  BY <1>1, <1>2, BetsStep DEF Mined, Exact, Credits
<1>10. BetsExact(nx, i)'
  BY <1>4, <1>9 DEF BetsExact, Unsold
<1> QED BY <1>8, <1>10

LEMMA MergeMoved ==
    ASSUME NEW o, NEW e, NEW now, Mined(o, e, now), NEW i \in Indices, Takes(o, i),
           o.flow = "consolidate", NEW nx, nx = After(now, i, e)'
    PROVE  NoteExact(nx, i)' /\ BetsExact(nx, i)'
<1>1. /\ Mine(now[i], e) /\ (e.ins[1] = <<i, now[i].n>> <=> o.ins[1].i = i)
      /\ e.ev = "consolidate"
  <2>1. e = Event(o)
    BY DEF Mined
  <2>2. e.ev = "consolidate"
    BY <2>1, EventIs
  <2> QED BY <2>2, MineIsTaken
<1>2. IsLineage(now[i]) /\ now[i].i = i /\ now[i].bal \in Nat /\ BetsExact(now[i], i)
  BY DEF Mined, Exact, NoteExact
<1>3. /\ IsLineage(nx) /\ nx.i = i /\ nx.receipts = now[i].receipts
      /\ nx.shares = now[i].shares
      /\ e.ins[1] = <<i, now[i].n>> =>
           /\ nx.n = now[i].n + 1 /\ nx.live = now[i].live
           /\ nx.bal = Merged([k \in DOMAIN e.ins |-> now[e.ins[k][1]].bal])
      /\ e.ins[1] # <<i, now[i].n>> =>
           nx.n = now[i].n /\ nx.live = FALSE /\ nx.bal = now[i].bal
  <2>1. LET mx == After(now, i, e)' IN
        /\ IsLineage(mx) /\ mx.i = now[i].i /\ mx.receipts = now[i].receipts
        /\ mx.shares = now[i].shares
        /\ e.ins[1] = <<i, now[i].n>> =>
             /\ mx.n = now[i].n + 1 /\ mx.live = now[i].live
             /\ mx.bal = Merged([k \in DOMAIN e.ins |-> now[e.ins[k][1]].bal])
        /\ e.ins[1] # <<i, now[i].n>> =>
             mx.n = now[i].n /\ mx.live = FALSE /\ mx.bal = now[i].bal
    BY <1>1, <1>2, MergeReplayed
  <2> QED BY <1>2, <2>1
<1>4. [k \in DOMAIN e.ins |-> now[e.ins[k][1]].bal] = [k \in DOMAIN o.ins |-> o.ins[k].bal]
  <2>1. DOMAIN e.ins = DOMAIN o.ins /\ \A k \in DOMAIN o.ins : e.ins[k] = BetOf(o.ins[k])
    BY EventIs DEF Mined
  <2>2. ASSUME NEW k \in DOMAIN o.ins PROVE now[e.ins[k][1]].bal = o.ins[k].bal
    <3>1. o.ins[k].i \in Indices /\ o.ins[k].bal = tip[o.ins[k].i].bal
      BY InsAre DEF Mined, Executes
    <3>2. Takes(o, o.ins[k].i)
      BY DEF Takes
    <3>3. now[o.ins[k].i].bal = tip[o.ins[k].i].bal
      BY <3>1, <3>2, MineIsTaken
    <3>4. e.ins[k][1] = o.ins[k].i
      BY <2>1 DEF BetOf
    <3> QED BY <3>1, <3>3, <3>4
  <2> QED BY <2>1, <2>2
<1>5. NewBalance(o) = Merged([k \in DOMAIN o.ins |-> o.ins[k].bal])
  BY DEF NewBalance
<1>6. ~Drains(o)
  BY DEF Drains
<1>7. NoteExact(nx, i)'
  <2>1. CASE o.ins[1].i = i
    BY <1>1, <1>3, <1>4, <1>5, <1>6, <2>1, NoteMoved
  <2>2. CASE o.ins[1].i # i
    BY <1>1, <1>2, <1>3, <2>2, NoteEnded
  <2> QED BY <2>1, <2>2
<1>8. bets' = bets
  BY BetsStep DEF Mined, Credits
<1>9. BetsExact(nx, i)'
  BY <1>2, <1>3, <1>8 DEF BetsExact, Unsold
<1> QED BY <1>7, <1>9

\* After a transaction every lineage is what the chain holds of it.
LEMMA Moved ==
    ASSUME NEW o, NEW e, NEW now, Mined(o, e, now), Sides \subseteq {"YES"},
           NEW i \in Indices, NEW nx, nx = After(now, i, e)'
    PROVE  NoteExact(nx, i)' /\ BetsExact(nx, i)'
<1>1. CASE ~Takes(o, i)
  BY <1>1, Untouched
<1>2. CASE Takes(o, i) /\ o.flow = "consolidate"
  BY <1>2, MergeMoved
<1>3. CASE Takes(o, i) /\ o.flow # "consolidate"
  <2>1. DOMAIN o.ins = {1} /\ o.flow \in Flows /\ o.flow # "deposit"
    BY <1>3 DEF Mined, Relayed, IsFlow
  <2>2. i = o.ins[1].i
    BY <1>3, <2>1 DEF Takes
  <2> QED BY <1>3, <2>1, <2>2, BetMoved, EndMoved, PartialMoved, CloseMoved, WithdrawMoved DEF Flows
<1> QED BY <1>1, <1>2, <1>3

-----------------------------------------------------------------------------
(* The history: an event is logged.                                        *)

LEMMA NowIsExact ==
    ASSUME NEW H, IsHistory(H), Len(log) \in Nat
    PROVE  Exact(H[Len(log)])
<1>1. ASSUME NEW i \in Indices
      PROVE  NoteExact(H[Len(log)][i], i) /\ BetsExact(H[Len(log)][i], i)
  <2>1. PICK h : h = H[Len(log)][i]
    OBVIOUS
  <2>2. /\ IsLineage(h) /\ h.i = i /\ h.n \in Nat /\ h.bal \in Nat /\ h.live \in BOOLEAN
        /\ \A r \in h.receipts : r \in BetReceipts /\ BetOf(r) \in DOMAIN bets
    BY <2>1 DEF IsHistory, Typed
  <2>3. /\ tip[i] # NoNote =>
             h.n = tip[i].n /\ h.live = tip[i].live /\ (h.live => h.bal = tip[i].bal)
        /\ tip[i] = NoNote => h.n = 0 /\ h.live /\ h.bal = DepositAmount
        /\ \A b \in DOMAIN bets : b[1] = i /\ bets[b].status \notin Terminal =>
             /\ b \in DOMAIN h.shares /\ h.shares[b] = Unsold(b)
             /\ Receipt(b[1], b[2], "none", FALSE) \in h.receipts
    BY <2>1 DEF IsHistory, NowInv
  <2> QED BY <2>1, <2>2, <2>3 DEF NoteExact, BetsExact
<1> QED BY <1>1 DEF Exact

\* The log with one event more.
LEMMA Logged ==
    ASSUME NEW S, log \in Seq(S), NEW e, log' = Append(log, e)
    PROVE  /\ \E T : log' \in Seq(T)
           /\ Len(log) \in Nat /\ Len(log') = Len(log) + 1 /\ log'[Len(log) + 1] = e
           /\ \A j \in 1..Len(log) : log'[j] = log[j]
<1> DEFINE T == S \cup {e}
<1>1. log \in Seq(T) /\ e \in T
  OBVIOUS
<1> HIDE DEF T
<1>2. /\ log' \in Seq(T) /\ Len(log') = Len(log) + 1 /\ log'[Len(log) + 1] = e
      /\ \A j \in 1..Len(log) : log'[j] = log[j]
  BY <1>1, AppendProperties
<1> QED BY <1>2

\* A history that fits the chain is extended by the event that leaves every lineage as the
\* chain holds it.
LEMMA Grown ==
    ASSUME NEW S, log \in Seq(S), NEW H, IsHistory(H), NEW e, log' = Append(log, e), Later,
           TipInv, Fewer,
           NEW n \in Nat, n = Len(log), NEW now, now = H[n],
           \A j \in 1..Len(log) : Settled(log[j]),
           \A b \in DOMAIN bets : bets[b].status # "ACTIVE" => bets'[b].status # "ACTIVE",
           market # "open" => market' = market,
           EventOk(now, e, n + 1)',
           NEW G, \A i \in Indices : G[i] = After(now, i, e)',
           \A i \in Indices : NoteExact(G[i], i)' /\ BetsExact(G[i], i)',
           \A i \in Indices : tip'[i] # NoNote => DepositedBy(i, n + 1)'
    PROVE  HistInv'
<1>1. n = Len(log) /\ Len(log') = n + 1
  BY Logged
<1>2. /\ (\E T : log' \in Seq(T)) /\ log'[n + 1] = e /\ \A j \in 1..n : log'[j] = log[j]
  BY <1>1, Logged
<1> DEFINE H2 == [j \in 0..(n + 1) |-> IF j <= n THEN H[j] ELSE G]
<1>3. /\ \A j \in 0..n : H2[j] = H[j]
      /\ H2[n + 1] = G
  BY <1>1
<1> HIDE DEF H2
<1>4. \A j \in 0..(n + 1) : j \in 0..n \/ j = n + 1
  BY <1>1
<1>5. Steps(H2)'
  <2>1. ASSUME NEW j \in 1..n, NEW i \in Indices
        PROVE  H2[j][i] = After(H2[j - 1], i, log[j])'
    <3>1. j \in 0..n /\ j - 1 \in 0..n
      BY <1>1
    <3>2. PICK f : f = log[j] /\ f = log'[j]
      BY <1>2
    <3>3. H[j][i] = After(H[j - 1], i, f)
      BY <1>1, <3>2 DEF IsHistory, Steps
    <3>4. After(H[j - 1], i, f)' = After(H[j - 1], i, f)
      BY <1>1, <3>2, AfterSame DEF Settled
    <3> QED BY <1>3, <3>1, <3>2, <3>3, <3>4
  <2>2. ASSUME NEW i \in Indices
        PROVE  H2[n + 1][i] = After(H2[(n + 1) - 1], i, log[n + 1])'
    <3>1. (n + 1) - 1 = n /\ n \in 0..n
      BY <1>1
    <3>2. G[i] = After(now, i, e)'
      OBVIOUS
    <3> QED BY <1>2, <1>3, <3>1, <3>2
  <2>3. \A i \in Indices : H2[0][i] = Start(i)
    <3>1. 0 \in 0..n
      BY <1>1
    <3> QED BY <1>3, <3>1 DEF IsHistory, Steps
  <2>4. \A j \in 1..(n + 1) : j \in 1..n \/ j = n + 1
    BY <1>1
  <2>5. \A j \in 1..(n + 1), i \in Indices : H2[j][i] = After(H2[j - 1], i, log[j])'
    BY <2>1, <2>2, <2>4
  <2>6. \A i \in Indices : (H2[0][i] = Start(i))'
    BY <2>3 DEF Start
  <2> QED BY <1>1, <2>5, <2>6 DEF Steps
<1>6. Typed(H2)'
  <2>1. ASSUME NEW j \in 0..n, NEW i \in Indices
        PROVE  /\ IsLineage(H2[j][i]) /\ H2[j][i].i = i
               /\ H2[j][i].n \in Nat /\ H2[j][i].bal \in Nat
               /\ H2[j][i].live \in BOOLEAN
               /\ \A r \in H2[j][i].receipts : r \in BetReceipts /\ BetOf(r) \in DOMAIN bets'
    <3>1. PICK h : h = H[j][i] /\ h = H2[j][i]
      BY <1>3
    <3>2. /\ IsLineage(h) /\ h.i = i /\ h.n \in Nat /\ h.bal \in Nat /\ h.live \in BOOLEAN
          /\ \A r \in h.receipts : r \in BetReceipts /\ BetOf(r) \in DOMAIN bets
      <4>1. j \in 0..Len(log) /\ Typed(H)
        BY <1>1 DEF IsHistory
      <4>2. /\ IsLineage(H[j][i]) /\ H[j][i].i = i /\ H[j][i].n \in Nat /\ H[j][i].bal \in Nat
            /\ H[j][i].live \in BOOLEAN
            /\ \A r \in H[j][i].receipts : r \in BetReceipts /\ BetOf(r) \in DOMAIN bets
        BY <4>1 DEF Typed
      <4> QED BY <3>1, <4>2
    <3> QED BY <3>1, <3>2 DEF Later
  <2>2. ASSUME NEW i \in Indices
        PROVE  /\ IsLineage(G[i]) /\ G[i].i = i /\ G[i].n \in Nat /\ G[i].bal \in Nat
               /\ G[i].live \in BOOLEAN
               /\ \A r \in G[i].receipts : r \in BetReceipts /\ BetOf(r) \in DOMAIN bets'
    BY DEF NoteExact, BetsExact, IsLineage, BetReceipts, BetOf
  <2>3. ASSUME NEW j \in 0..(n + 1), NEW i \in Indices
        PROVE  /\ IsLineage(H2[j][i]) /\ H2[j][i].i = i
               /\ H2[j][i].n \in Nat /\ H2[j][i].bal \in Nat
               /\ H2[j][i].live \in BOOLEAN
               /\ \A r \in H2[j][i].receipts : r \in BetReceipts /\ BetOf(r) \in DOMAIN bets'
    BY <1>3, <1>4, <2>1, <2>2
  <2> QED BY <1>1, <2>3 DEF Typed, BetOf, BetReceipts, IsLineage
<1>7. EventsInv(H2)'
  <2>1. ASSUME NEW j \in 1..n PROVE EventOk(H2[j - 1], log[j], j)'
    <3>1. H2[j - 1] = H[j - 1] /\ log'[j] = log[j]
      BY <1>1, <1>2, <1>3
    <3>2. PICK f : f = log[j]
      OBVIOUS
    <3>3. EventOk(H[j - 1], f, j)
      BY <1>1, <3>2 DEF IsHistory, EventsInv
    <3>4. Spends(H[j - 1], f, j) => Spends(H[j - 1], f, j)'
      <4>1. \A i \in Indices : DepositedBy(i, j - 1) => DepositedBy(i, j - 1)'
        BY <1>1, <1>2 DEF DepositedBy
      <4> QED BY <4>1 DEF Spends
    <3>5. Settled(f)
      BY <1>1, <3>2
    <3>6. EventOk(H[j - 1], f, j)'
      BY <3>3, <3>4 DEF EventOk, Later
    <3> QED BY <3>1, <3>2, <3>6
  <2>2. EventOk(H2[(n + 1) - 1], log[n + 1], n + 1)'
    <3>1. H2[(n + 1) - 1] = now
      BY <1>1, <1>3
    <3>2. EventOk(now, e, n + 1)'
      OBVIOUS
    <3> QED BY <1>2, <3>1, <3>2
  <2>3. \A j \in 1..(n + 1) : EventOk(H2[j - 1], log[j], j)'
    <3>1. \A j \in 1..(n + 1) : j \in 1..n \/ j = n + 1
      BY <1>1
    <3> QED BY <2>1, <2>2, <3>1
  <2> QED BY <1>1, <2>3 DEF EventsInv
<1>8. NowInv(H2)'
  <2>1. ASSUME NEW i \in Indices, NEW h, h = H2[n + 1][i]
        PROVE  /\ tip'[i] # NoNote => /\ h.n = tip'[i].n /\ h.live = tip'[i].live
                                      /\ DepositedBy(i, n + 1)'
                                      /\ h.live => h.bal = tip'[i].bal
               /\ tip'[i] = NoNote => h.n = 0 /\ h.live /\ h.bal = DepositAmount
               /\ \A b \in DOMAIN bets' : b[1] = i /\ bets'[b].status \notin Terminal =>
                    /\ b \in DOMAIN h.shares /\ h.shares[b] = Unsold(b)'
                    /\ Receipt(b[1], b[2], "none", FALSE) \in h.receipts
    <3>1. h = G[i]
      BY <1>3, <2>1
    <3>2. NoteExact(h, i)' /\ BetsExact(h, i)'
      BY <3>1
    <3> QED BY <3>2 DEF NoteExact, BetsExact
  <2> QED BY <1>1, <2>1 DEF NowInv
<1>9. PastInv(H2)'
  <2>1. ASSUME NEW j \in 0..n, NEW i \in Indices, H2[j][i].live
        PROVE  IF tip'[i] = NoNote THEN H2[j][i].n = 0 /\ H2[j][i].bal = DepositAmount
               ELSE Open(Cash(i, H2[j][i].n, H2[j][i].bal))'
    <3>1. PICK h : h = H[j][i] /\ h = H2[j][i]
      BY <1>3
    <3>2. IF tip[i] = NoNote THEN h.n = 0 /\ h.bal = DepositAmount ELSE Open(Cash(i, h.n, h.bal))
      BY <1>1, <2>1, <3>1 DEF IsHistory, PastInv
    <3>3. h.n \in Nat /\ h.bal \in Nat
      BY ZenonT(40), <1>1, <3>1 DEF IsHistory, Typed
    <3>4. CASE tip[i] # NoNote
      <4>1. Cash(i, h.n, h.bal) \in CashNotes /\ Open(Cash(i, h.n, h.bal))
        BY <3>2, <3>3, <3>4 DEF Cash, CashNotes
      <4>2. tip'[i] # NoNote
        BY <3>4 DEF Later
      <4>3. PICK x \in CashNotes : x = Cash(i, h.n, h.bal)
        BY <4>1
      <4>4. Open(x)'
        BY <4>1, <4>3 DEF Later
      <4> QED BY <3>1, <4>2, <4>3, <4>4
    <3>5. CASE tip[i] = NoNote
      <4>1. h.n = 0 /\ h.bal = DepositAmount /\ tip'[i] \in {NoNote, First}
        BY <3>2, <3>5 DEF Later
      <4>2. CASE tip'[i] = NoNote
        BY <3>1, <4>1, <4>2
      <4>3. CASE tip'[i] # NoNote
        <5>1. tip'[i].n = 0 /\ tip'[i].bal = DepositAmount
          BY <4>1, <4>3 DEF First
        <5>2. Open(Cash(i, h.n, h.bal))'
          BY <4>1, <5>1 DEF Open, Cash
        <5> QED BY <3>1, <4>3, <5>2
      <4> QED BY <4>2, <4>3
    <3> QED BY <3>4, <3>5
  <2>2. ASSUME NEW i \in Indices, G[i].live
        PROVE  IF tip'[i] = NoNote THEN G[i].n = 0 /\ G[i].bal = DepositAmount
               ELSE Open(Cash(i, G[i].n, G[i].bal))'
    <3>1. NoteExact(G[i], i)'
      OBVIOUS
    <3> QED BY <2>2, <3>1 DEF NoteExact, Open, Cash
  <2>3. ASSUME NEW j \in 0..(n + 1), NEW i \in Indices, H2[j][i].live
        PROVE  IF tip'[i] = NoNote THEN H2[j][i].n = 0 /\ H2[j][i].bal = DepositAmount
               ELSE Open(Cash(i, H2[j][i].n, H2[j][i].bal))'
    <3>1. CASE j \in 0..n
      BY <2>1, <2>3, <3>1
    <3>2. CASE j = n + 1
      BY <1>3, <2>2, <2>3, <3>2
    <3> QED BY <1>4, <3>1, <3>2
  <2> QED BY <1>1, <2>3 DEF PastInv
<1>10. RecallInv(H2)'
  <2>1. ASSUME NEW j \in 0..n, NEW i \in Indices, H2[j][i].live, NEW b \in DOMAIN bets',
               b[1] = i, b[2] < H2[j][i].n, bets'[b].status \notin Terminal
        PROVE  Receipt(b[1], b[2], "none", FALSE) \in H2[j][i].receipts
    <3>1. PICK h : h = H[j][i] /\ h = H2[j][i]
      BY <1>3
    <3>2. j \in 0..Len(log) /\ h.live /\ h.n \in Nat
      BY <1>1, <2>1, <3>1 DEF IsHistory, Typed
    <3>3. CASE b \in DOMAIN bets
      <4>1. bets[b].status \notin Terminal
        BY <2>1, <3>3 DEF Fewer
      <4> QED BY <2>1, <3>1, <3>2, <3>3, <4>1 DEF IsHistory, RecallInv
    <3>4. CASE b \notin DOMAIN bets
      <4>1. tip[i] # NoNote /\ b[2] = tip[i].n
        BY <2>1, <3>4 DEF Fewer
      <4>2. Open(Cash(i, h.n, h.bal))
        BY <3>1, <3>2, <4>1 DEF IsHistory, PastInv
      <4>3. h.n <= tip[i].n /\ tip[i].n \in Int
        BY <3>2, <4>2 DEF Open, Cash, TipInv
      <4> QED BY <2>1, <3>1, <3>2, <4>1, <4>3
    <3> QED BY <3>3, <3>4
  <2>2. ASSUME NEW i \in Indices, NEW b \in DOMAIN bets',
               b[1] = i, bets'[b].status \notin Terminal
        PROVE  Receipt(b[1], b[2], "none", FALSE) \in G[i].receipts
    BY <2>2 DEF BetsExact
  <2>3. ASSUME NEW j \in 0..(n + 1), NEW i \in Indices, H2[j][i].live, NEW b \in DOMAIN bets',
               b[1] = i, b[2] < H2[j][i].n, bets'[b].status \notin Terminal
        PROVE  Receipt(b[1], b[2], "none", FALSE) \in H2[j][i].receipts
    <3>1. CASE j \in 0..n
      BY <2>1, <2>3, <3>1
    <3>2. CASE j = n + 1
      BY <1>3, <2>2, <2>3, <3>2
    <3> QED BY <1>4, <3>1, <3>2
  <2> QED BY <1>1, <2>3 DEF RecallInv
<1>11. IsHistory(H2)'
  BY <1>5, <1>6, <1>7, <1>8, <1>9, <1>10 DEF IsHistory
<1> QED BY <1>2, <1>11 DEF HistInv

ChainInv == TipInv /\ BetsInv /\ KeysInv /\ HistInv

LEMMA KeysKept ==
    ASSUME NEW o, TipInv, BetsInv, KeysInv, Relayed(o), Executes(o)
    PROVE  KeysInv'
<1>1. ASSUME NEW b \in DOMAIN bets PROVE b[2] < tip'[b[1]].n
  <2>1. b[1] \in Indices /\ b[2] \in Nat /\ b[2] < tip[b[1]].n
    BY DEF BetsInv, KeysInv
  <2>2. tip'[b[1]].n >= tip[b[1]].n /\ tip[b[1]].n \in Int /\ tip'[b[1]].n \in Int
    BY <2>1, TipKept DEF TipInv
  <2> QED BY <2>1, <2>2
<1>2. CASE o.flow = "bet"
  <2> DEFINE k == BetOf(o.ins[1])
  <2>1. DOMAIN bets' = DOMAIN bets \cup {k}
    BY <1>2, BetsStep DEF Put
  <2>2. Spendable(o) /\ ~Drains(o)
    BY <1>2 DEF Executes, Drains
  <2>3. /\ 1 \in DOMAIN o.ins /\ o.ins[1].i \in Indices /\ o.ins[1].n \in Nat
        /\ o.ins[1].n = tip[o.ins[1].i].n
    BY <2>2, InsAre
  <2>4. tip'[o.ins[1].i].n = o.ins[1].n + 1
    <3>1. PICK i \in Indices : i = o.ins[1].i
      BY <2>3
    <3>2. tip'[i] = [n |-> o.ins[1].n + 1, bal |-> NewBalance(o), live |-> TRUE]
      BY <2>2, <3>1, TipStep
    <3> QED BY <3>1, <3>2
  <2>5. k[2] < tip'[k[1]].n
    BY <2>3, <2>4 DEF BetOf
  <2> HIDE DEF k
  <2> QED BY <1>1, <2>1, <2>5 DEF KeysInv
<1>3. CASE o.flow # "bet"
  <2>1. DOMAIN bets' = DOMAIN bets
    BY <1>3, BetsStep DEF Relayed, IsFlow
  <2> QED BY <1>1, <2>1 DEF KeysInv
<1> QED BY <1>2, <1>3

\* A bet with a final order keeps what was bought.
LEMMA FinalKept ==
    ASSUME NEW o, TipInv, BetsInv, KeysInv, Relayed(o), Executes(o), NEW b \in DOMAIN bets,
           bets[b].status # "ACTIVE"
    PROVE  /\ bets'[b].status # "ACTIVE" /\ bets'[b].stake = bets[b].stake
           /\ bets'[b].shares = bets[b].shares
<1>1. CASE o.flow = "bet"
  <2> DEFINE k == BetOf(o.ins[1])
             new == NewBet(o)
  <2>1. Spendable(o)
    BY DEF Executes
  <2>2. o.ins[1].i \in Indices /\ o.ins[1].n = tip[o.ins[1].i].n /\ o.ins[1].n \in Nat
    BY <2>1, InsAre
  <2>3. b # k
    BY <2>2 DEF KeysInv, BetOf
  <2>4. bets' = Put(bets, k, new)
    BY <1>1, BetsStep
  <2> HIDE DEF k, new
  <2> QED BY <2>3, <2>4 DEF Put
<1>2. CASE o.flow \in Credits
  <2>1. /\ o.bet \in DOMAIN bets /\ VaultAllows(o)
        /\ bets' = [bets EXCEPT ![o.bet] = BetAfter(o)]
    BY <1>2, BetsStep DEF Relayed, IsFlow, Executes
  <2>2. CASE b # o.bet
    BY <2>1, <2>2
  <2>3. CASE b = o.bet
    <3>1. PICK c : c = BetAfter(o) /\ c = bets'[b]
      BY <2>1, <2>3
    <3>2. o.flow \in {"settle", "close"}
      BY <1>2, <2>1, <2>3, BetAfterIs DEF Credits
    <3>3. c.stake = bets[b].stake /\ c.shares = bets[b].shares
      BY <1>2, <2>1, <2>3, <3>1, <3>2, BetAfterIs
    <3>4. c.status # "ACTIVE"
      <4>1. o.flow = "settle" => c.status \in Terminal
        BY <1>2, <2>1, <3>1, BetAfterIs
      <4>2. o.flow = "close" => c.status \in {"CLOSED_CREDITED", "FILLED"}
        BY <1>2, <2>1, <3>1, BetAfterIs
      <4> QED BY <3>2, <4>1, <4>2 DEF Terminal
    <3> QED BY <3>1, <3>3, <3>4
  <2> QED BY <2>2, <2>3
<1>3. CASE o.flow \notin {"bet"} \cup Credits
  BY <1>3, BetsStep
<1> QED BY <1>1, <1>2, <1>3

\* A transaction finishes bets, and makes one whose key is the note it spends.
LEMMA FewerByRelay ==
    ASSUME NEW o, TipInv, BetsInv, KeysInv, Relayed(o), Executes(o)
    PROVE  Fewer
<1>1. market' = market
  BY BetsStep
<1>2. CASE o.flow = "bet"
  <2> DEFINE k == BetOf(o.ins[1])
             new == NewBet(o)
  <2>1. Spendable(o)
    BY DEF Executes
  <2>2. /\ o.ins[1].i \in Indices /\ o.ins[1].n = tip[o.ins[1].i].n /\ o.ins[1].n \in Nat
        /\ tip[o.ins[1].i] # NoNote
    BY <2>1, InsAre
  <2>3. k[1] \in Indices /\ tip[k[1]] # NoNote /\ k[2] = tip[k[1]].n
    BY <2>2 DEF BetOf
  <2>4. k \notin DOMAIN bets
    <3> SUFFICES ASSUME k \in DOMAIN bets PROVE FALSE
      OBVIOUS
    <3>1. k[2] < tip[k[1]].n /\ k[2] \in Nat
      BY DEF KeysInv, BetsInv
    <3> QED BY <2>3, <3>1
  <2>5. bets' = Put(bets, k, new)
    BY <1>2, BetsStep
  <2> HIDE DEF k, new
  <2>6. \A b \in DOMAIN bets' : b = k \/ (b \in DOMAIN bets /\ bets'[b] = bets[b])
    BY <2>5 DEF Put
  <2> QED BY <1>1, <2>3, <2>4, <2>6 DEF Fewer, Owed, betDidFill, fetchAttestation
<1>3. CASE o.flow \in Credits
  <2>1. /\ o.bet \in DOMAIN bets /\ VaultAllows(o)
        /\ bets' = [bets EXCEPT ![o.bet] = BetAfter(o)]
    BY <1>3, BetsStep DEF Relayed, IsFlow, Executes
  <2>2. PICK c : c = BetAfter(o)
    OBVIOUS
  <2>3. PICK r \in BetRecords : r = bets[o.bet]
    BY <2>1 DEF BetsInv
  <2>4. r.status \notin Terminal /\ c.status \in Terminal \cup {"FILLED"} /\ c.side = r.side
    <3>1. r.status \notin Terminal
      BY <1>3, <2>1, <2>3, BetAfterIs
    <3>2. CASE o.flow = "settle"
      BY <2>1, <2>2, <2>3, <3>1, <3>2 DEF BetAfter, BetRecords, Terminal, VaultAllows
    <3>3. CASE o.flow = "betCancel"
      BY <2>1, <2>2, <2>3, <3>1, <3>3 DEF BetAfter, BetRecords, Terminal, VaultAllows
    <3>4. CASE o.flow = "partial"
      BY <2>1, <2>2, <2>3, <3>1, <3>4 DEF BetAfter, BetRecords, Terminal, VaultAllows
    <3>5. CASE o.flow = "close"
      BY <2>1, <2>2, <2>3, <3>1, <3>5 DEF BetAfter, BetRecords, Terminal, VaultAllows, Credits
    <3> QED BY <1>3, <3>2, <3>3, <3>4, <3>5 DEF Credits
  <2>5. DOMAIN bets' = DOMAIN bets /\ bets'[o.bet] = c
        /\ \A b \in DOMAIN bets : b # o.bet => bets'[b] = bets[b]
    BY <2>1, <2>2
  <2>6. Owed(o.bet)' => Owed(o.bet)
    BY <1>1, <2>3, <2>4, <2>5 DEF Owed, betDidFill, fetchAttestation
  <2> QED BY <1>1, <2>3, <2>4, <2>5, <2>6 DEF Fewer, Owed, betDidFill, fetchAttestation
<1>4. CASE o.flow \notin {"bet"} \cup Credits
  BY <1>1, <1>4, BetsStep DEF Fewer, Owed, betDidFill, fetchAttestation
<1> QED BY <1>2, <1>3, <1>4

LEMMA Transacted ==
    ASSUME NEW o, ChainInv, Sides \subseteq {"YES"}, Relayed(o), Executes(o)
    PROVE  ChainInv' /\ Later
<1>1. TipInv /\ BetsInv /\ KeysInv
  BY DEF ChainInv
<1>2. TipInv' /\ BetsInv' /\ KeysInv' /\ Later
  BY <1>1, ChainKept, KeysKept
<1>3. PICK S : log \in Seq(S)
  BY DEF ChainInv, HistInv
<1>4. PICK H : IsHistory(H)
  BY DEF ChainInv, HistInv
<1>5. PICK e : e = Event(o)
  OBVIOUS
<1>6. PICK n \in Nat : n = Len(log)
  BY <1>3
<1>7. PICK now : now = H[n]
  OBVIOUS
<1>8. log' = Append(log, e) /\ market' = market
  BY <1>5, BetsStep
<1>9. Exact(now)
  BY <1>4, <1>6, <1>7, NowIsExact
<1>10. Mined(o, e, now)
  BY <1>1, <1>5, <1>9 DEF Mined
<1>11. PICK G : G = [i \in Indices |-> After(now, i, e)']
  OBVIOUS
<1>12. \A i \in Indices : G[i] = After(now, i, e)'
  BY <1>11
<1>13. \A i \in Indices : NoteExact(G[i], i)' /\ BetsExact(G[i], i)'
  BY <1>10, <1>12, Moved
<1>14. /\ \A b \in DOMAIN bets : bets[b].status # "ACTIVE" =>
            /\ bets'[b].status # "ACTIVE" /\ bets'[b].stake = bets[b].stake
            /\ bets'[b].shares = bets[b].shares
  BY <1>1, FinalKept
<1>15. \A j \in 1..Len(log) : Settled(log[j])
  BY <1>4, <1>8, <1>14 DEF IsHistory, EventsInv, EventOk, Settled
<1>16. ASSUME NEW i \in Indices, NEW m \in 0..n, DepositedBy(i, m)
       PROVE  DepositedBy(i, m)' /\ DepositedBy(i, n + 1)'
  <2>1. PICK d \in 1..m : log[d].ev = "deposit" /\ log[d].ins[1][1] = i
    BY <1>16 DEF DepositedBy
  <2>2. d \in 1..Len(log) /\ d \in 1..(n + 1)
    BY <1>6
  <2>3. log'[d] = log[d]
    BY <1>3, <1>8, <2>2, Logged
  <2> QED BY <2>1, <2>2, <2>3 DEF DepositedBy
<1>17. \A i \in Indices : tip'[i] # NoNote => DepositedBy(i, n + 1)'
  <2> SUFFICES ASSUME NEW i \in Indices, tip'[i] # NoNote PROVE DepositedBy(i, n + 1)'
    OBVIOUS
  <2>1. tip[i] # NoNote
    BY <1>1, TipKept
  <2>2. DepositedBy(i, n)
    BY <1>4, <1>6, <2>1 DEF IsHistory, NowInv
  <2>3. n \in 0..n
    OBVIOUS
  <2> QED BY <1>16, <2>2, <2>3
<1>18. EventOk(now, e, n + 1)'
  <2>1. /\ e.ev = o.flow /\ e.bet = o.bet
        /\ DOMAIN e.ins = DOMAIN o.ins /\ \A k \in DOMAIN o.ins : e.ins[k] = BetOf(o.ins[k])
    BY <1>5, EventIs
  <2>2. e.ev \in Flows /\ e.ev # "deposit" /\ (e.ev # "consolidate" => DOMAIN e.ins = {1})
    BY <2>1 DEF Relayed, IsFlow
  <2>3. Spends(now, e, n + 1)'
    <3>0. Spendable(o)
      BY DEF Executes
    <3>1. 1 \in DOMAIN e.ins
      BY <1>1, <2>1, <3>0, InsAre
    <3>2. ASSUME NEW k \in DOMAIN e.ins
          PROVE  \E i \in Indices : /\ e.ins[k] = <<i, now[i].n>> /\ now[i].live
                                    /\ DepositedBy(i, (n + 1) - 1)'
      <4> DEFINE i == o.ins[k].i
      <4>1. i \in Indices /\ tip[i] # NoNote /\ o.ins[k].n = tip[i].n
        BY <1>1, <2>1, <3>0, InsAre
      <4>2. now[i].live /\ now[i].n = tip[i].n
        <5>1. Takes(o, i)
          BY <2>1 DEF Takes
        <5> QED BY <1>10, <4>1, <5>1, MineIsTaken
      <4>3. e.ins[k] = <<i, now[i].n>>
        BY <2>1, <4>1, <4>2 DEF BetOf
      <4>4. DepositedBy(i, n)
        BY <1>4, <1>6, <4>1 DEF IsHistory, NowInv
      <4>5. DepositedBy(i, n)'
        <5>1. n \in 0..n
          OBVIOUS
        <5> QED BY <1>16, <4>1, <4>4, <5>1
      <4>6. (n + 1) - 1 = n
        OBVIOUS
      <4> HIDE DEF i
      <4> QED BY <4>1, <4>2, <4>3, <4>5, <4>6
    <3> QED BY <3>1, <3>2 DEF Spends
  <2>4. e.ev = "settle" => market' # "open"
    <3>1. e.ev = "settle" => market # "open"
      BY <1>1, <2>1, BetAfterIs DEF Relayed, IsFlow, Executes, Credits
    <3> QED BY <1>8, <3>1
  <2>5. e.ev = "partial" => e.bet \in DOMAIN bets' /\ bets'[e.bet].status # "ACTIVE"
    <3> SUFFICES ASSUME o.flow = "partial"
                 PROVE  o.bet \in DOMAIN bets' /\ bets'[o.bet].status # "ACTIVE"
      BY <2>1
    <3>1. /\ o.bet \in DOMAIN bets /\ VaultAllows(o) /\ o.flow \in Credits
          /\ bets' = [bets EXCEPT ![o.bet] = BetAfter(o)]
      BY BetsStep DEF Relayed, IsFlow, Executes, Credits
    <3>2. BetAfter(o).status = "FILLED"
      BY <1>1, <3>1, BetAfterIs
    <3> QED BY <3>1, <3>2
  <2> QED BY <2>2, <2>3, <2>4, <2>5 DEF EventOk
<1>19. TipInv /\ Fewer
  BY <1>1, FewerByRelay
<1>20. HistInv'
  BY <1>2, <1>3, <1>4, <1>6, <1>7, <1>8, <1>12, <1>13, <1>14, <1>15, <1>17, <1>18, <1>19, Grown
<1> QED BY <1>2, <1>20 DEF ChainInv

-----------------------------------------------------------------------------
(* The chain: a deposit, and what the operator and the market do.           *)

LEMMA Deposited1 ==
    ASSUME NEW o, ChainInv, IsFlow(o), o.flow = "deposit", Depositing(o), Deposits(o)
    PROVE  ChainInv' /\ Later /\ tip'[o.ins[1].i] # NoNote
<1>1. TipInv /\ BetsInv /\ KeysInv
  BY DEF ChainInv
<1>2. /\ bets' = bets /\ market' = market /\ log' = Append(log, Event(o))
  BY DEF Deposits
<1>3. TipInv' /\ Later /\ tip'[o.ins[1].i] # NoNote
  BY <1>1, <1>2, TipKeptByDeposit DEF Later
<1>4. BetsInv'
  BY <1>1, <1>2 DEF BetsInv, Unsold
<1>5. KeysInv'
  <2>1. ASSUME NEW b \in DOMAIN bets PROVE b[2] < tip'[b[1]].n
    <3>1. b[1] \in Indices /\ b[2] \in Nat /\ b[2] < tip[b[1]].n
      BY <1>1 DEF BetsInv, KeysInv
    <3>2. tip'[b[1]].n >= tip[b[1]].n /\ tip[b[1]].n \in Int /\ tip'[b[1]].n \in Int
      BY <1>1, <1>3, <3>1 DEF TipInv, Later
    <3> QED BY <3>1, <3>2
  <2> QED BY <1>2, <2>1 DEF KeysInv
<1>6. PICK S : log \in Seq(S)
  BY DEF ChainInv, HistInv
<1>7. PICK H : IsHistory(H)
  BY DEF ChainInv, HistInv
<1>8. PICK e : e = Event(o)
  OBVIOUS
<1>9. PICK n \in Nat : n = Len(log)
  BY <1>6
<1>10. PICK now : now = H[n]
  OBVIOUS
<1>11. Exact(now)
  BY <1>7, <1>9, <1>10, NowIsExact
<1>12. PICK i \in Indices : o.ins = <<Cash(i, 0, 0)>> /\ o.amt = DepositAmount
  BY DEF Depositing
<1>13. e.ev = "deposit" /\ e.amt = DepositAmount /\ e.ins[1] = <<i, 0>>
  <2>1. e.ev = o.flow /\ e.ins[1] = BetOf(o.ins[1])
    BY <1>8, <1>12, EventIs
  <2>2. e.amt = o.amt
    BY <1>8, EventIs DEF Credits
  <2> QED BY <1>12, <2>1, <2>2 DEF BetOf, Cash
<1>14. PICK G : G = [k \in Indices |-> After(now, k, e)']
  OBVIOUS
<1>15. \A k \in Indices : G[k] = After(now, k, e)' /\ G[k] = now[k]
  BY <1>13, <1>14, NotMine
<1>16. ASSUME NEW k \in Indices PROVE NoteExact(G[k], k)' /\ BetsExact(G[k], k)'
  <2>1. PICK h : h = G[k] /\ h = now[k]
    BY <1>15
  <2>2. NoteExact(h, k) /\ BetsExact(h, k)
    BY <1>11, <2>1 DEF Exact
  <2>3. BetsExact(h, k)'
    BY <1>2, <2>2 DEF BetsExact, Unsold
  <2>4. NoteExact(h, k)'
    <3>1. CASE tip'[k] = tip[k]
      BY <2>2, <3>1 DEF NoteExact
    <3>2. CASE tip'[k] # tip[k]
      <4>1. tip[k] = NoNote /\ tip'[k] = [n |-> 0, bal |-> DepositAmount, live |-> TRUE]
        BY <1>1, <1>12, <3>2 DEF Deposits, TipInv, Cash
      <4>2. tip'[k] # NoNote
        BY <4>1 DEF NoNote
      <4>3. h.n = 0 /\ h.live /\ h.live \in BOOLEAN /\ h.bal = DepositAmount
        BY <2>2, <4>1 DEF NoteExact
      <4>4. h.live = TRUE
        BY <4>3
      <4>5. h.n = tip'[k].n /\ h.live = tip'[k].live /\ h.bal = tip'[k].bal
        BY <4>1, <4>3, <4>4
      <4> QED BY <2>2, <4>2, <4>5 DEF NoteExact
    <3> QED BY <3>1, <3>2
  <2> QED BY <2>1, <2>3, <2>4
<1>17. \A j \in 1..Len(log) : Settled(log[j])
  BY <1>2 DEF Settled
<1>18. \A k \in Indices : tip'[k] # NoNote => DepositedBy(k, n + 1)'
  <2> SUFFICES ASSUME NEW k \in Indices, tip'[k] # NoNote PROVE DepositedBy(k, n + 1)'
    OBVIOUS
  <2>1. CASE k = i
    <3>1. log'[n + 1] = e /\ (n + 1) \in 1..(n + 1)
      BY <1>2, <1>6, <1>8, <1>9, Logged
    <3> QED BY <1>13, <2>1, <3>1 DEF DepositedBy
  <2>2. CASE k # i
    <3>1. tip'[k] = tip[k]
      BY <1>1, <1>12, <2>2 DEF Deposits, TipInv, Cash
    <3>2. DepositedBy(k, n)
      BY <1>7, <1>9, <3>1 DEF IsHistory, NowInv
    <3>3. PICK d \in 1..n : log[d].ev = "deposit" /\ log[d].ins[1][1] = k
      BY <3>2 DEF DepositedBy
    <3>4. d \in 1..Len(log) /\ d \in 1..(n + 1)
      BY <1>9
    <3>5. log'[d] = log[d]
      BY <1>2, <1>6, <3>4, Logged
    <3> QED BY <3>3, <3>4, <3>5 DEF DepositedBy
  <2> QED BY <2>1, <2>2
<1>19. EventOk(now, e, n + 1)'
  <2>1. e.ins[1] = <<i, 0>> /\ tip'[i] # NoNote
    BY <1>3, <1>12, <1>13 DEF Cash
  <2> QED BY <1>13, <2>1 DEF EventOk, Flows
<1>20. Fewer
  BY <1>2 DEF Fewer, Owed, betDidFill, fetchAttestation
<1>21. HistInv'
  BY <1>1, <1>2, <1>3, <1>6, <1>7, <1>8, <1>9, <1>10, <1>15, <1>16, <1>17, <1>18, <1>19, <1>20,
     Grown
<1> QED BY <1>3, <1>4, <1>5, <1>21 DEF ChainInv

\* The attestations and the resolution leave the notes and the history alone.
LEMMA OthersKeep ==
    ASSUME ChainInv, attests \/ attestsSale \/ resolves
    PROVE  ChainInv' /\ Later /\ SameBets
<1>1. TipInv /\ BetsInv /\ KeysInv
  BY DEF ChainInv
<1>2. UNCHANGED <<log, tip>> /\ (market = "open" \/ market' = market)
  BY DEF attests, attestsSale, resolves
<1>3. BetsInv' /\ SameBets
  <2>1. CASE attests
    BY <1>1, <2>1, AttestsKeeps
  <2>2. CASE attestsSale
    BY <1>1, <2>2, AttestsSaleKeeps
  <2>3. CASE resolves
    BY <1>1, <2>3 DEF resolves, BetsInv, SameBets, Unsold
  <2> QED BY <2>1, <2>2, <2>3
<1>4. TipInv' /\ KeysInv'
  BY <1>1, <1>2, <1>3 DEF TipInv, KeysInv, SameBets
<1>5. HistInv'
  <2>1. PICK H : IsHistory(H)
    BY DEF ChainInv, HistInv
  <2>2. IsHistory(H)'
    BY <1>1, <1>2, <1>3, <2>1, HistoryStays
  <2>3. \E T : log' \in Seq(T)
    BY <1>2 DEF ChainInv, HistInv
  <2> QED BY <2>2, <2>3 DEF HistInv
<1>6. Later
  <2>1. \A i \in Indices : tip[i].n \in Int
    BY <1>1 DEF TipInv
  <2> QED BY <1>2, <1>3, <2>1 DEF Later, Open, SameBets
<1> QED BY <1>3, <1>4, <1>5, <1>6 DEF ChainInv

LEMMA ChainStays ==
    ASSUME ChainInv, UNCHANGED chain
    PROVE  ChainInv' /\ Later
<1>1. TipInv /\ BetsInv /\ KeysInv
  BY DEF ChainInv
<1>2. UNCHANGED <<log, tip, bets, market>>
  BY DEF chain
<1>3. SameBets
  BY <1>2 DEF SameBets
<1>4. TipInv' /\ BetsInv' /\ KeysInv'
  BY <1>1, <1>2 DEF TipInv, BetsInv, KeysInv
<1>5. HistInv'
  <2>1. PICK H : IsHistory(H)
    BY DEF ChainInv, HistInv
  <2>2. IsHistory(H)'
    BY <1>1, <1>2, <1>3, <2>1, HistoryStays
  <2>3. \E T : log' \in Seq(T)
    BY <1>2 DEF ChainInv, HistInv
  <2> QED BY <2>2, <2>3 DEF HistInv
<1>6. Later
  <2>1. \A i \in Indices : tip[i].n \in Int
    BY <1>1 DEF TipInv
  <2> QED BY <1>2, <2>1 DEF Later, Open
<1> QED BY <1>4, <1>5, <1>6 DEF ChainInv

-----------------------------------------------------------------------------
(* The replay of a Restore: an event does to a lineage what it did on chain, *)
(* whatever the replay knows of the merges.                                *)

Same(st, h) ==
    /\ IsLineage(st) /\ IsLineage(h)
    /\ st.i = h.i /\ st.n = h.n /\ st.bal = h.bal /\ st.live = h.live
    /\ st.receipts = h.receipts /\ st.shares = h.shares

LEMMA OnwardIs ==
    ASSUME NEW st, IsLineage(st), NEW bal, NEW u, u = Onward(st, bal)
    PROVE  /\ IsLineage(u) /\ u.i = st.i /\ u.n = st.n + 1 /\ u.bal = bal /\ u.live = st.live
           /\ u.receipts = st.receipts /\ u.shares = st.shares /\ u.known = st.known
  BY DEF Onward, IsLineage

LEMMA AloneSame ==
    ASSUME NEW st, NEW h, Same(st, h), NEW e, e.ev \in Flows, e.ev # "consolidate", NEW f, NEW g
    PROVE  /\ Same(replayEvent(st, e, f), replayEvent(h, e, g))
           /\ replayEvent(st, e, f).known = st.known
<1>a. PICK x : x = replayEvent(st, e, f)
  OBVIOUS
<1>b. PICK y : y = replayEvent(h, e, g)
  OBVIOUS
<1>c. SUFFICES Same(x, y) /\ x.known = st.known
  BY <1>a, <1>b
<1>1. Mine(st, e) <=> Mine(h, e)
  BY DEF Mine, Same
<1>2. CASE e.ev = "deposit" \/ ~Mine(st, e)
  BY <1>a, <1>b, <1>1, <1>2 DEF replayEvent, Same
<1>3. CASE Mine(st, e) /\ e.ev = "bet"
  <2>1. x = replayBet(st, e) /\ y = replayBet(h, e)
    BY <1>a, <1>b, <1>1, <1>3 DEF replayEvent
  <2>2. PICK u : u = Onward(st, st.bal - e.amt - ProtocolFee)
    OBVIOUS
  <2>3. PICK v : v = Onward(h, h.bal - e.amt - ProtocolFee)
    OBVIOUS
  <2>4. Same(u, v) /\ u.known = st.known
    BY <2>2, <2>3, OnwardIs DEF Same
  <2>5. PICK rc : rc = Receipt(st.i, st.n, "none", FALSE)
    OBVIOUS
  <2>6. rc = Receipt(h.i, h.n, "none", FALSE) /\ <<st.i, st.n>> = <<h.i, h.n>>
    BY <2>5 DEF Same
  <2>7. PICK key : key = <<st.i, st.n>>
    OBVIOUS
  <2>8. /\ x = [u EXCEPT !.receipts = @ \cup {rc}, !.shares = Put(@, key, e.amt)]
        /\ y = [v EXCEPT !.receipts = @ \cup {rc}, !.shares = Put(@, key, e.amt)]
    BY <2>1, <2>2, <2>3, <2>5, <2>6, <2>7 DEF replayBet
  <2>9. /\ IsLineage(x) /\ x.i = u.i /\ x.n = u.n /\ x.bal = u.bal /\ x.live = u.live
        /\ x.receipts = u.receipts \cup {rc} /\ x.shares = Put(u.shares, key, e.amt)
        /\ x.known = u.known
    BY <2>4, <2>8 DEF Same, IsLineage
  <2>10. /\ IsLineage(y) /\ y.i = v.i /\ y.n = v.n /\ y.bal = v.bal /\ y.live = v.live
         /\ y.receipts = v.receipts \cup {rc} /\ y.shares = Put(v.shares, key, e.amt)
    BY <2>4, <2>8 DEF Same, IsLineage
  <2> QED BY <2>4, <2>9, <2>10 DEF Same
<1>4. CASE Mine(st, e) /\ e.ev \in {"settle", "betCancel"}
  <2>1. x = replayCredit(st, e) /\ y = replayCredit(h, e)
    BY <1>a, <1>b, <1>1, <1>4 DEF replayEvent
  <2>2. PICK bal : bal = st.bal + IF e.ev = "settle" THEN st.shares[e.bet] * pendingCredit("none")
                                  ELSE st.shares[e.bet] + ProtocolFee
    OBVIOUS
  <2>3. PICK rs : rs = Receipts(st, e.bet, TRUE)
    OBVIOUS
  <2>4. rs = Receipts(h, e.bet, TRUE)
    BY <2>3 DEF Receipts, Same
  <2>5. PICK u : u = Onward(st, bal)
    OBVIOUS
  <2>6. PICK v : v = Onward(h, bal)
    OBVIOUS
  <2>7. Same(u, v) /\ u.known = st.known
    BY <2>5, <2>6, OnwardIs DEF Same
  <2>8. x = [u EXCEPT !.receipts = rs] /\ y = [v EXCEPT !.receipts = rs]
    BY <2>1, <2>2, <2>3, <2>4, <2>5, <2>6 DEF replayCredit, Same
  <2> QED BY <2>7, <2>8 DEF Same, IsLineage
<1>5. CASE Mine(st, e) /\ e.ev = "partial"
  <2>1. x = replayPartial(st, e) /\ y = replayPartial(h, e)
    BY <1>a, <1>b, <1>1, <1>5 DEF replayEvent
  <2>2. PICK bal : bal = st.bal + Refund(st.shares[e.bet], ProtocolFee, bets[e.bet].stake)
    OBVIOUS
  <2>3. PICK u : u = Onward(st, bal)
    OBVIOUS
  <2>4. PICK v : v = Onward(h, bal)
    OBVIOUS
  <2>5. Same(u, v) /\ u.known = st.known
    BY <2>3, <2>4, OnwardIs DEF Same
  <2>6. PICK w : w = bets[e.bet].shares
    OBVIOUS
  <2>7. /\ x = [u EXCEPT !.shares[e.bet] = w]
        /\ y = [v EXCEPT !.shares[e.bet] = w]
    BY <2>1, <2>2, <2>3, <2>4, <2>6 DEF replayPartial, Same
  <2>8. /\ IsLineage(x) /\ x.i = u.i /\ x.n = u.n /\ x.bal = u.bal /\ x.live = u.live
        /\ x.receipts = u.receipts /\ x.known = u.known
        /\ x.shares = [u.shares EXCEPT ![e.bet] = w]
    BY <2>5, <2>7 DEF Same, IsLineage
  <2>9. /\ IsLineage(y) /\ y.i = v.i /\ y.n = v.n /\ y.bal = v.bal /\ y.live = v.live
        /\ y.receipts = v.receipts /\ y.shares = [v.shares EXCEPT ![e.bet] = w]
    BY <2>5, <2>7 DEF Same, IsLineage
  <2> QED BY <2>5, <2>8, <2>9 DEF Same
<1>6. CASE Mine(st, e) /\ e.ev = "close"
  <2>1. x = replayClose(st, e) /\ y = replayClose(h, e)
    BY <1>a, <1>b, <1>1, <1>6 DEF replayEvent
  <2>2. PICK u : u = Onward(st, st.bal + e.amt)
    OBVIOUS
  <2>3. PICK v : v = Onward(h, h.bal + e.amt)
    OBVIOUS
  <2>4. Same(u, v) /\ u.known = st.known
    BY <2>2, <2>3, OnwardIs DEF Same
  <2>5. PICK rs : rs = IF e.rest THEN u.receipts ELSE Receipts(st, e.bet, TRUE)
    OBVIOUS
  <2>6. rs = IF e.rest THEN v.receipts ELSE Receipts(h, e.bet, TRUE)
    BY <2>4, <2>5 DEF Same, Receipts
  <2>7. PICK w : w = IF e.rest THEN u.shares[e.bet] - e.amt ELSE u.shares[e.bet]
    OBVIOUS
  <2>8. w = IF e.rest THEN v.shares[e.bet] - e.amt ELSE v.shares[e.bet]
    BY <2>4, <2>7 DEF Same
  <2>9. /\ x = [u EXCEPT !.receipts = rs, !.shares[e.bet] = w]
        /\ y = [v EXCEPT !.receipts = rs, !.shares[e.bet] = w]
    BY <2>1, <2>2, <2>3, <2>5, <2>6, <2>7, <2>8 DEF replayClose
  <2>10. /\ IsLineage(x) /\ x.i = u.i /\ x.n = u.n /\ x.bal = u.bal /\ x.live = u.live
         /\ x.receipts = rs /\ x.known = u.known
         /\ x.shares = [u.shares EXCEPT ![e.bet] = w]
    BY <2>4, <2>9 DEF Same, IsLineage
  <2>11. /\ IsLineage(y) /\ y.i = v.i /\ y.n = v.n /\ y.bal = v.bal /\ y.live = v.live
         /\ y.receipts = rs /\ y.shares = [v.shares EXCEPT ![e.bet] = w]
    BY <2>4, <2>9 DEF Same, IsLineage
  <2> QED BY <2>4, <2>10, <2>11 DEF Same
<1>7. CASE Mine(st, e) /\ e.ev = "withdraw"
  <2>1. x = replayWithdraw(st, e) /\ y = replayWithdraw(h, e)
    BY <1>a, <1>b, <1>1, <1>7 DEF replayEvent
  <2>2. CASE e.rest
    <3>1. PICK bal : bal = st.bal - e.amt
      OBVIOUS
    <3>2. x = Onward(st, bal) /\ y = Onward(h, bal)
      BY <2>1, <2>2, <3>1 DEF replayWithdraw, Same
    <3>3. IsLineage(st) /\ IsLineage(h)
      BY DEF Same
    <3>4. /\ IsLineage(x) /\ x.i = st.i /\ x.n = st.n + 1 /\ x.bal = bal /\ x.live = st.live
          /\ x.receipts = st.receipts /\ x.shares = st.shares /\ x.known = st.known
      BY <3>2, <3>3, OnwardIs
    <3>5. /\ IsLineage(y) /\ y.i = h.i /\ y.n = h.n + 1 /\ y.bal = bal /\ y.live = h.live
          /\ y.receipts = h.receipts /\ y.shares = h.shares
      <4>1. IsLineage(h) /\ y = Onward(h, bal)
        BY <3>2, <3>3
      <4> QED BY <4>1 DEF Onward, IsLineage
    <3> QED BY <3>4, <3>5 DEF Same
  <2>3. CASE ~e.rest
    BY <2>1, <2>3 DEF replayWithdraw, Same, IsLineage
  <2> QED BY <2>2, <2>3
<1> QED BY <1>2, <1>3, <1>4, <1>5, <1>6, <1>7 DEF Flows

-----------------------------------------------------------------------------
(* The recursive definitions.                                              *)

\* A set of naturals that holds 0 and each successor of a member holds them all.
LEMMA Induct ==
    ASSUME NEW T, 0 \in T, \A n \in Nat : n \in T => n + 1 \in T
    PROVE  \A n \in Nat : n \in T
<1> SUFFICES ASSUME NEW c \in Nat, c \notin T PROVE FALSE
  OBVIOUS
<1> DEFINE R == {ss \in Nat \X Nat : ss[1] < ss[2]}
           U == {n \in Nat : n \notin T}
<1>1. IsWellFoundedOn(R, Nat)
  BY NatLessThanWellFounded DEF OpToRel
<1>2. U \in SUBSET Nat /\ U # {}
  OBVIOUS
<1>3. PICK n \in U : \A m \in U : ~(<<m, n>> \in R)
  BY <1>1, <1>2, WFMin
<1>4. n \in Nat /\ n # 0 /\ n \notin T
  OBVIOUS
<1>5. n - 1 \in Nat /\ n - 1 < n /\ (n - 1) + 1 = n
  BY <1>4
<1>6. n - 1 \in T
  BY <1>3, <1>5
<1> QED BY <1>4, <1>5, <1>6

LEMMA Least ==
    ASSUME NEW U \in SUBSET Nat, U # {}
    PROVE  \E n \in U : \A m \in U : n <= m
<1> DEFINE R == {ss \in Nat \X Nat : ss[1] < ss[2]}
<1>1. IsWellFoundedOn(R, Nat)
  BY NatLessThanWellFounded DEF OpToRel
<1>2. PICK n \in U : \A m \in U : ~(<<m, n>> \in R)
  BY <1>1, WFMin
<1>3. ASSUME NEW m \in U PROVE n <= m
  <2>1. m \in Nat /\ n \in Nat /\ ~(<<m, n>> \in R)
    BY <1>2
  <2> QED BY <2>1
<1> QED BY <1>3

LEMMA OnlyIs ==
    ASSUME NEW v PROVE Only({v}) = v
  BY DEF Only

LEMMA LineageIs ==
    ASSUME NEW events, Len(events) \in Nat, NEW i, NEW k, NEW known, NEW final
    PROVE  \E after :
             /\ after[0] = Lineage(i, k, known)
             /\ \A j \in 1..Len(events) :
                  after[j] = replayEvent(after[j - 1], events[j], final)
             /\ replayLineage(events, i, k, known, final) = after[Len(events)]
<1> DEFINE E(x, j) == Only({replayEvent(st, events[j], final) : st \in {x}})
           L == Lineage(i, k, known)
           Fits(n, f) == f = [j \in 0..n |-> IF j = 0 THEN L ELSE E(f[j - 1], j)]
           T == {n \in Nat : \E f : Fits(n, f)}
<1>0. replayLineage(events, i, k, known, final) = (CHOOSE f : Fits(Len(events), f))[Len(events)]
  BY DEF replayLineage
<1>1. \A x, j : E(x, j) = replayEvent(x, events[j], final)
  <2> TAKE x, j
  <2>1. {replayEvent(st, events[j], final) : st \in {x}} = {replayEvent(x, events[j], final)}
    OBVIOUS
  <2> QED BY <2>1, OnlyIs
<1> HIDE DEF E, L
<1>2. 0 \in T
  <2>1. Fits(0, [j \in 0..0 |-> L])
    OBVIOUS
  <2> QED BY <2>1
<1>3. ASSUME NEW n \in Nat, n \in T PROVE n + 1 \in T
  <2>1. PICK f : Fits(n, f)
    BY <1>3
  <2> DEFINE g == [j \in 0..(n + 1) |-> IF j <= n THEN f[j] ELSE E(f[n], j)]
  <2>2. ASSUME NEW j \in 0..(n + 1)
        PROVE  g[j] = IF j = 0 THEN L ELSE E(g[j - 1], j)
    <3>1. CASE j = 0
      BY <2>1, <3>1
    <3>2. CASE j # 0 /\ j <= n
      BY <2>1, <3>2
    <3>3. CASE j = n + 1
      <4>1. j - 1 = n /\ n \in 0..(n + 1) /\ n <= n /\ j # 0 /\ ~(j <= n)
        BY <3>3
      <4>2. g[n] = f[n] /\ g[j] = E(f[n], j)
        BY <4>1
      <4> HIDE DEF g
      <4> QED BY <4>1, <4>2
    <3> QED BY <3>1, <3>2, <3>3
  <2>3. g = [j \in 0..(n + 1) |-> g[j]]
    OBVIOUS
  <2> HIDE DEF g
  <2>4. Fits(n + 1, g)
    BY <2>2, <2>3
  <2> HIDE DEF Fits
  <2> QED BY <2>4
<1> HIDE DEF T
<1>4. Len(events) \in T
  BY <1>2, <1>3, Induct
<1> USE DEF T
<1>5. PICK g : Fits(Len(events), g)
  BY <1>4
<1>6. Fits(Len(events), CHOOSE f : Fits(Len(events), f))
  BY <1>5
<1> HIDE DEF Fits
<1>7. PICK f : f = (CHOOSE h : Fits(Len(events), h)) /\ Fits(Len(events), f)
  BY <1>6
<1>8. f[0] = L
  BY <1>7 DEF Fits
<1>9. ASSUME NEW j \in 1..Len(events)
      PROVE  f[j] = replayEvent(f[j - 1], events[j], final)
  <2>1. j \in 0..Len(events) /\ j # 0
    OBVIOUS
  <2> QED BY <1>1, <1>7, <2>1 DEF Fits
<1> QED BY <1>0, <1>7, <1>8, <1>9 DEF L

LEMMA PassIs ==
    ASSUME NEW events, Max(Indices) + 1 \in Nat, NEW known, NEW final
    PROVE  \E after :
             /\ after[0] = [known |-> known, notes |-> {}]
             /\ \A j \in 1..(Max(Indices) + 1) :
                  after[j] = Visit(events, after[j - 1], j - 1, final)
             /\ Pass(events, known, final) = after[Max(Indices) + 1]
<1> DEFINE E(x, j) == Only({Visit(events, acc, j - 1, final) : acc \in {x}})
           L == [known |-> known, notes |-> {}]
           M == Max(Indices) + 1
           Fits(n, f) == f = [j \in 0..n |-> IF j = 0 THEN L ELSE E(f[j - 1], j)]
           T == {n \in Nat : \E f : Fits(n, f)}
<1>0. Pass(events, known, final) = (CHOOSE f : Fits(M, f))[M]
  BY DEF Pass
<1>1. \A x, j : E(x, j) = Visit(events, x, j - 1, final)
  <2> TAKE x, j
  <2>1. {Visit(events, acc, j - 1, final) : acc \in {x}} = {Visit(events, x, j - 1, final)}
    OBVIOUS
  <2> QED BY <2>1, OnlyIs
<1> HIDE DEF E, L
<1>2. 0 \in T
  <2>1. Fits(0, [j \in 0..0 |-> L])
    OBVIOUS
  <2> QED BY <2>1
<1>3. ASSUME NEW n \in Nat, n \in T PROVE n + 1 \in T
  <2>1. PICK f : Fits(n, f)
    BY <1>3
  <2> DEFINE g == [j \in 0..(n + 1) |-> IF j <= n THEN f[j] ELSE E(f[n], j)]
  <2>2. ASSUME NEW j \in 0..(n + 1)
        PROVE  g[j] = IF j = 0 THEN L ELSE E(g[j - 1], j)
    <3>1. CASE j = 0
      BY <2>1, <3>1
    <3>2. CASE j # 0 /\ j <= n
      BY <2>1, <3>2
    <3>3. CASE j = n + 1
      <4>1. j - 1 = n /\ n \in 0..(n + 1) /\ n <= n /\ j # 0 /\ ~(j <= n)
        BY <3>3
      <4>2. g[n] = f[n] /\ g[j] = E(f[n], j)
        BY <4>1
      <4> HIDE DEF g
      <4> QED BY <4>1, <4>2
    <3> QED BY <3>1, <3>2, <3>3
  <2>3. g = [j \in 0..(n + 1) |-> g[j]]
    OBVIOUS
  <2> HIDE DEF g
  <2>4. Fits(n + 1, g)
    BY <2>2, <2>3
  <2> HIDE DEF Fits
  <2> QED BY <2>4
<1> HIDE DEF T
<1>4. M \in T
  BY <1>2, <1>3, Induct
<1> USE DEF T
<1>5. PICK g : Fits(M, g)
  BY <1>4
<1>6. Fits(M, CHOOSE f : Fits(M, f))
  BY <1>5
<1> HIDE DEF Fits
<1>7. PICK f : f = (CHOOSE h : Fits(M, h)) /\ Fits(M, f)
  BY <1>6
<1>8. f[0] = L
  BY <1>7 DEF Fits
<1>9. ASSUME NEW j \in 1..M
      PROVE  f[j] = Visit(events, f[j - 1], j - 1, final)
  <2>1. j \in 0..M /\ j # 0
    OBVIOUS
  <2> QED BY <1>1, <1>7, <2>1 DEF Fits
<1> QED BY <1>0, <1>7, <1>8, <1>9 DEF L

\* Whether the replay knows of a deposit, and from which event it starts.
DepositIn(events, i) == \E d \in DOMAIN events : events[d].ev = "deposit" /\ events[d].ins[1][1] = i

LEMMA DepositOfIs ==
    ASSUME NEW events, NEW K \in Nat, DOMAIN events = 1..K, NEW i
    PROVE  /\ depositOf(events, i) = {} <=> ~DepositIn(events, i)
           /\ DepositIn(events, i) => Min(depositOf(events, i)) \in depositOf(events, i)
<1> DEFINE U == {d \in DOMAIN events : events[d].ev = "deposit" /\ events[d].ins[1][1] = i}
<1>1. \A d : d \in depositOf(events, i) <=>
               d \in U /\ \A j \in 1..(d - 1) : j \notin U
  BY DEF depositOf
<1>2. ASSUME NEW d \in depositOf(events, i) PROVE DepositIn(events, i)
  BY <1>1 DEF DepositIn
<1>3. ASSUME DepositIn(events, i)
      PROVE  \E d \in depositOf(events, i) : Min(depositOf(events, i)) = d
  <2>1. U # {} /\ U \in SUBSET Nat
    BY <1>3 DEF DepositIn
  <2>2. PICK d \in U : \A m \in U : d <= m
    BY <2>1, Least
  <2>3. d \in Nat /\ \A j \in 1..(d - 1) : j \notin U
    BY <2>2
  <2>4. d \in depositOf(events, i)
    BY <1>1, <2>2, <2>3
  <2>5. ASSUME NEW c \in depositOf(events, i) PROVE c = d
    <3>1. c \in U /\ c \in Nat /\ d <= c /\ \A j \in 1..(c - 1) : j \notin U
      BY <1>1, <2>2, <2>5
    <3>2. d \in 1..K
      BY <2>2
    <3> QED BY <2>2, <2>3, <3>1, <3>2
  <2>6. depositOf(events, i) = {d}
    BY <2>4, <2>5
  <2>7. Min({d}) = d
    BY <2>3 DEF Min
  <2> QED BY <2>4, <2>6, <2>7
<1> QED BY <1>2, <1>3

-----------------------------------------------------------------------------
(* The replay of a Restore: what the two passes find.                      *)

\* A lineage takes part in one merge at most.
Merges(m, i) == log[m].ev = "consolidate" /\ \E l \in DOMAIN log[m].ins : log[m].ins[l][1] = i
MergedOnce ==
    \A i \in Indices : \A j, m \in 1..Len(log) : Merges(j, i) /\ Merges(m, i) => j = m

\* The first K events are replayed.
Replays(H, events, K) ==
    /\ IsHistory(H) /\ MergedOnce /\ Len(log) \in Nat /\ K \in 0..Len(log)
    /\ Len(events) = K /\ DOMAIN events = 1..K /\ \A j \in 1..K : events[j] = log[j]

\* Every balance that is known is the one a merge took in.
Right(H, known) ==
    \A key \in DOMAIN known : \E m \in 1..Len(log) :
      /\ log[m].ev = "consolidate" /\ \E l \in DOMAIN log[m].ins : log[m].ins[l] = key
      /\ known[key] = H[m - 1][key[1]].bal
\* What the lineage brought to its merge is known.
Has(known, i, K) ==
    \A m \in 1..K : log[m].ev = "consolidate" =>
      \A l \in DOMAIN log[m].ins : log[m].ins[l][1] = i => log[m].ins[l] \in DOMAIN known

LEMMA EventSpends ==
    ASSUME NEW H, NEW events, NEW K, Replays(H, events, K), NEW j \in 1..K,
           NEW e, e = log[j], NEW now, now = H[j - 1]
    PROVE  /\ K \in Nat /\ j \in 1..Len(log) /\ j - 1 \in 0..Len(log) /\ events[j] = e
           /\ e.ev \in Flows
           /\ e.ev = "consolidate" => Spends(now, e, j)
           /\ \A i \in Indices : /\ H[j][i] = After(now, i, e) /\ IsLineage(now[i])
                                 /\ now[i].i = i /\ now[i].live \in BOOLEAN
<1>1. K \in Nat /\ j \in 1..Len(log) /\ j - 1 \in 0..Len(log) /\ events[j] = e
  BY DEF Replays
<1>2. EventOk(now, e, j)
  BY <1>1 DEF Replays, IsHistory, EventsInv
<1>3. \A i \in Indices : H[j][i] = After(now, i, e)
  BY <1>1 DEF Replays, IsHistory, Steps
<1>4. \A i \in Indices : IsLineage(now[i]) /\ now[i].i = i /\ now[i].live \in BOOLEAN
  BY <1>1 DEF Replays, IsHistory, Typed
<1> QED BY <1>1, <1>2, <1>3, <1>4 DEF EventOk

\* The lineages whose notes a merge spends.
TakesOwn(e, i, st) ==
    \A l \in DOMAIN e.ins : e.ins[l][1] = i => e.ins[l] = <<st.i, st.n>>

LEMMA MergesMine ==
    ASSUME NEW H, NEW events, NEW K, Replays(H, events, K), NEW j \in 1..K,
           NEW e, e = log[j], NEW now, now = H[j - 1], NEW i \in Indices,
           NEW st, Same(st, now[i]), e.ev = "consolidate"
    PROVE  /\ Mine(st, e) <=> Merges(j, i)
           /\ Mine(now[i], e) <=> Merges(j, i)
           /\ TakesOwn(e, i, st)
<1>1. Spends(now, e, j) /\ now[i].i = i
  BY EventSpends
<1>2. Mine(st, e) <=> Mine(now[i], e)
  BY DEF Mine, Same
<1>3. ASSUME NEW l \in DOMAIN e.ins, e.ins[l][1] = i
      PROVE  e.ins[l] = <<i, now[i].n>> /\ now[i].live
  BY <1>1, <1>3 DEF Spends
<1>4. Mine(now[i], e) <=> Merges(j, i)
  BY <1>1, <1>3 DEF Mine, Merges
<1>5. st.i = i /\ st.n = now[i].n
  BY <1>1 DEF Same
<1> QED BY <1>2, <1>3, <1>4, <1>5 DEF TakesOwn

\* The pass that collects the balances.
Collecting(final) == final = FALSE
Collects(H, st, known, i, j) ==
    /\ IsLineage(st) /\ Right(H, st.known) /\ DOMAIN known \subseteq DOMAIN st.known
    /\ Has(st.known, i, j)
    /\ \/ Same(st, H[j][i]) /\ ~\E m \in 1..j : Merges(m, i)
       \/ ~st.live /\ \E m \in 1..j : Merges(m, i)

LEMMA AfterAlone ==
    ASSUME NEW now, NEW i, NEW e, e.ev # "consolidate"
    PROVE  \E g : After(now, i, e) = replayEvent(now[i], e, g)
<1>1. After(now, i, e) = replayEvent(now[i], e, TRUE)
  BY DEF After
<1> QED BY <1>1, Zenon

LEMMA CollectsOn ==
    ASSUME NEW H, NEW events, NEW K, Replays(H, events, K), NEW j \in 1..K, NEW i \in Indices,
           NEW known, NEW st, Collects(H, st, known, i, j - 1),
           NEW f, Collecting(f), NEW x, x = replayEvent(st, events[j], f)
    PROVE  Collects(H, x, known, i, j)
<1>1. PICK e : e = log[j]
  OBVIOUS
<1>2. PICK now : now = H[j - 1]
  OBVIOUS
<1>3. /\ K \in Nat /\ j \in 1..Len(log) /\ events[j] = e /\ e.ev \in Flows
      /\ H[j][i] = After(now, i, e) /\ now[i].i = i
  BY <1>1, <1>2, EventSpends
<1>4. x = replayEvent(st, e, f)
  BY <1>3
<1>5. \A m \in 1..j : m \in 1..(j - 1) \/ m = j
  BY <1>3
<1>6. \A m \in 1..(j - 1) : m \in 1..j /\ m \in 1..Len(log) /\ m # j
  BY <1>3
<1>7. CASE ~st.live /\ \E m \in 1..(j - 1) : Merges(m, i)
  <2>1. x = st
    BY <1>4, <1>7 DEF replayEvent, Mine
  <2>2. ~Merges(j, i)
    BY <1>3, <1>6, <1>7 DEF Replays, MergedOnce
  <2>3. Has(st.known, i, j)
    BY <1>5, <2>2 DEF Has, Collects, Merges
  <2> QED BY <1>6, <1>7, <2>1, <2>3 DEF Collects
<1>8. CASE Same(st, H[j - 1][i]) /\ ~\E m \in 1..(j - 1) : Merges(m, i)
  <2>0. Same(st, now[i])
    BY <1>2, <1>8
  <2>1. CASE e.ev # "consolidate"
    <3>0. PICK h : h = now[i]
      OBVIOUS
    <3>1. PICK y, g : y = replayEvent(h, e, g) /\ y = H[j][i]
      BY <1>3, <2>1, <3>0, AfterAlone
    <3>2. Same(x, y) /\ x.known = st.known
      <4>1. Same(st, h) /\ e.ev \in Flows /\ y = replayEvent(h, e, g)
        BY <1>3, <2>0, <3>0, <3>1
      <4> QED BY <1>4, <2>1, <4>1, AloneSame
    <3>3. ~Merges(j, i)
      BY <1>1, <2>1 DEF Merges
    <3>4. Has(st.known, i, j)
      BY <1>5, <3>3 DEF Has, Collects, Merges
    <3>5. IsLineage(x)
      BY <3>2 DEF Same
    <3> QED BY <1>5, <1>8, <3>1, <3>2, <3>3, <3>4, <3>5 DEF Collects
  <2>2. CASE e.ev = "consolidate" /\ ~Merges(j, i)
    <3>0. (Mine(st, e) <=> Merges(j, i)) /\ (Mine(now[i], e) <=> Merges(j, i))
      BY <1>1, <1>2, <2>0, <2>2, MergesMine
    <3>1. ~Mine(st, e) /\ ~Mine(now[i], e)
      BY <2>2, <3>0
    <3>2. x = st /\ H[j][i] = now[i]
      BY <1>3, <1>4, <3>1 DEF replayEvent, After
    <3>3. Has(st.known, i, j)
      BY <1>5, <2>2 DEF Has, Collects, Merges
    <3> QED BY <1>5, <1>8, <2>0, <2>2, <3>2, <3>3 DEF Collects
  <2>3. CASE e.ev = "consolidate" /\ Merges(j, i)
    <3>0. (Mine(st, e) <=> Merges(j, i)) /\ TakesOwn(e, i, st)
      BY <1>1, <1>2, <2>0, <2>3, MergesMine
    <3>1. Mine(st, e) /\ \A l \in DOMAIN e.ins : e.ins[l][1] = i => e.ins[l] = <<st.i, st.n>>
      BY <2>3, <3>0 DEF TakesOwn
    <3>2. PICK key : key = <<st.i, st.n>>
      OBVIOUS
    <3>3. PICK k2 : k2 = Put(st.known, key, st.bal)
      OBVIOUS
    <3>4. x = [st EXCEPT !.live = FALSE, !.known = k2]
      BY <1>4, <2>3, <3>1, <3>2, <3>3 DEF replayEvent, replayConsolidate, Collecting
    <3>5. IsLineage(x) /\ ~x.live /\ x.known = k2
      BY <3>4 DEF Collects, IsLineage
    <3>6. DOMAIN st.known \subseteq DOMAIN k2 /\ key \in DOMAIN k2
      BY <3>3 DEF Put
    <3>7. Right(H, k2)
      <4>1. k2[key] = H[j - 1][key[1]].bal
        <5>1. k2[key] = st.bal /\ key[1] = i
          BY <1>3, <2>0, <3>2, <3>3 DEF Put, Same
        <5> QED BY <1>2, <2>0, <5>1 DEF Same
      <4>2. \E l \in DOMAIN log[j].ins : log[j].ins[l] = key
        BY <1>1, <2>3, <3>1, <3>2 DEF Merges
      <4>3. ASSUME NEW c \in DOMAIN k2, c # key
            PROVE  c \in DOMAIN st.known /\ k2[c] = st.known[c]
        BY <3>3, <4>3 DEF Put
      <4>4. ASSUME NEW c \in DOMAIN k2, c # key
            PROVE  \E m \in 1..Len(log) :
                     /\ log[m].ev = "consolidate" /\ \E l \in DOMAIN log[m].ins : log[m].ins[l] = c
                     /\ k2[c] = H[m - 1][c[1]].bal
        <5>1. Right(H, st.known) /\ c \in DOMAIN st.known /\ k2[c] = st.known[c]
          BY <4>3, <4>4 DEF Collects
        <5>2. PICK m \in 1..Len(log) :
                /\ log[m].ev = "consolidate" /\ \E l \in DOMAIN log[m].ins : log[m].ins[l] = c
                /\ st.known[c] = H[m - 1][c[1]].bal
          BY <5>1 DEF Right
        <5> QED BY <5>1, <5>2
      <4> QED BY <1>1, <1>3, <2>3, <4>1, <4>2, <4>4 DEF Right
    <3>8. Has(k2, i, j)
      <4>1. ASSUME NEW m \in 1..j, log[m].ev = "consolidate", NEW l \in DOMAIN log[m].ins,
                   log[m].ins[l][1] = i
            PROVE  log[m].ins[l] \in DOMAIN k2
        <5>1. m = j
          BY <1>5, <1>8, <4>1 DEF Merges
        <5> QED BY <1>1, <3>1, <3>2, <3>6, <4>1, <5>1
      <4> QED BY <4>1 DEF Has
    <3>9. j \in 1..j
      BY <1>3
    <3> QED BY <2>3, <3>5, <3>6, <3>7, <3>8, <3>9 DEF Collects
  <2> QED BY <2>1, <2>2, <2>3
<1> QED BY <1>7, <1>8 DEF Collects

\* The pass that finds the notes, once the balances are known.
Full(known, K) == \A i \in Indices : DepositedBy(i, K) => Has(known, i, K)
Finding(final) == final = TRUE
Finds(H, st, known, i, j) ==
    /\ Same(st, H[j][i]) /\ Right(H, st.known) /\ DOMAIN known \subseteq DOMAIN st.known

LEMMA FindsOn ==
    ASSUME NEW H, NEW events, NEW K, Replays(H, events, K), NEW j \in 1..K, NEW i \in Indices,
           NEW known, Full(known, K), NEW st, Finds(H, st, known, i, j - 1),
           NEW f, Finding(f), NEW x, x = replayEvent(st, events[j], f)
    PROVE  Finds(H, x, known, i, j)
<1>1. PICK e : e = log[j]
  OBVIOUS
<1>2. PICK now : now = H[j - 1]
  OBVIOUS
<1>3. /\ K \in Nat /\ j \in 1..Len(log) /\ events[j] = e /\ e.ev \in Flows
      /\ H[j][i] = After(now, i, e) /\ now[i].i = i
  BY <1>1, <1>2, EventSpends
<1>4. x = replayEvent(st, e, f)
  BY <1>3
<1>5. Same(st, now[i]) /\ Right(H, st.known) /\ DOMAIN known \subseteq DOMAIN st.known
  BY <1>2 DEF Finds
<1>6. CASE e.ev # "consolidate"
  <2>0. PICK h : h = now[i]
    OBVIOUS
  <2>1. PICK y, g : y = replayEvent(h, e, g) /\ y = H[j][i]
    BY <1>3, <1>6, <2>0, AfterAlone
  <2>2. Same(x, y) /\ x.known = st.known
    <3>1. Same(st, h) /\ e.ev \in Flows /\ y = replayEvent(h, e, g)
      BY <1>3, <1>5, <2>0, <2>1
    <3> QED BY <1>4, <1>6, <3>1, AloneSame
  <2> QED BY <1>5, <2>1, <2>2 DEF Finds
<1>7. CASE e.ev = "consolidate" /\ ~Merges(j, i)
  <2>0. (Mine(st, e) <=> Merges(j, i)) /\ (Mine(now[i], e) <=> Merges(j, i))
    BY <1>1, <1>2, <1>5, <1>7, MergesMine
  <2>1. ~Mine(st, e) /\ ~Mine(now[i], e)
    BY <1>7, <2>0
  <2>2. x = st /\ H[j][i] = now[i]
    BY <1>3, <1>4, <2>1 DEF replayEvent, After
  <2> QED BY <1>5, <2>2 DEF Finds
<1>8. CASE e.ev = "consolidate" /\ Merges(j, i)
  <2>0. /\ Mine(st, e) <=> Merges(j, i)
        /\ Mine(now[i], e) <=> Merges(j, i)
        /\ TakesOwn(e, i, st)
    BY <1>1, <1>2, <1>5, <1>8, MergesMine
  <2>1. /\ Mine(st, e) /\ Mine(now[i], e)
        /\ \A l \in DOMAIN e.ins : e.ins[l][1] = i => e.ins[l] = <<st.i, st.n>>
    BY <1>8, <2>0 DEF TakesOwn
  <2>2. PICK key : key = <<st.i, st.n>>
    OBVIOUS
  <2>3. PICK k2 : k2 = Put(st.known, key, st.bal)
    OBVIOUS
  <2>4. DOMAIN k2 = DOMAIN st.known \cup {key} /\ k2[key] = st.bal
        /\ \A c \in DOMAIN st.known : c # key => k2[c] = st.known[c]
    BY <2>3 DEF Put
  <2>5. Right(H, k2)
    <3>1. k2[key] = H[j - 1][key[1]].bal
      <4>1. key[1] = i
        BY <1>3, <1>5, <2>2 DEF Same
      <4> QED BY <1>2, <1>5, <2>4, <4>1 DEF Same
    <3>2. \E l \in DOMAIN log[j].ins : log[j].ins[l] = key
      BY <1>1, <1>8, <2>1, <2>2 DEF Merges
    <3>3. ASSUME NEW c \in DOMAIN k2, c # key
          PROVE  c \in DOMAIN st.known /\ k2[c] = st.known[c]
      BY <2>4, <3>3
    <3> QED BY <1>1, <1>3, <1>5, <1>8, <3>1, <3>2, <3>3 DEF Right
  <2>6. PICK taken : taken = [k \in DOMAIN e.ins |->
                       IF e.ins[k] \in DOMAIN k2 THEN k2[e.ins[k]] ELSE 0]
    OBVIOUS
  <2>7. ASSUME NEW k \in DOMAIN e.ins
        PROVE  e.ins[k] \in DOMAIN k2 /\ k2[e.ins[k]] = now[e.ins[k][1]].bal
    <3>0. Spends(now, e, j)
      BY <1>1, <1>2, <1>8, EventSpends
    <3>1. PICK a \in Indices : e.ins[k] = <<a, now[a].n>> /\ DepositedBy(a, j - 1)
      BY <3>0 DEF Spends
    <3>2. DepositedBy(a, K)
      <4>1. \A d \in 1..(j - 1) : d \in 1..K
        BY <1>3
      <4> QED BY <3>1, <4>1 DEF DepositedBy
    <3>3. e.ins[k] \in DOMAIN known
      BY <1>1, <1>8, <3>1, <3>2 DEF Full, Has
    <3>4. e.ins[k] \in DOMAIN k2
      BY <1>5, <2>4, <3>3
    <3>5. PICK m \in 1..Len(log) :
             /\ log[m].ev = "consolidate" /\ \E l \in DOMAIN log[m].ins : log[m].ins[l] = e.ins[k]
             /\ k2[e.ins[k]] = H[m - 1][e.ins[k][1]].bal
      BY <2>5, <3>4 DEF Right
    <3>6. Merges(m, a) /\ Merges(j, a)
      BY <1>1, <1>8, <3>1, <3>5 DEF Merges
    <3>7. m = j
      BY <1>3, <3>6 DEF Replays, MergedOnce
    <3> QED BY <1>2, <3>4, <3>5, <3>7
  <2>8. taken = [k \in DOMAIN e.ins |-> now[e.ins[k][1]].bal]
    BY <2>6, <2>7
  <2>9. PICK sum : sum = Merged(taken)
    OBVIOUS
  <2>10. CASE e.ins[1] = key
    <3>1. x = [Onward(st, sum) EXCEPT !.known = k2]
      BY <1>4, <1>8, <2>1, <2>2, <2>3, <2>6, <2>9, <2>10 DEF replayEvent, replayConsolidate, Finding
    <3>2. H[j][i] = Onward(now[i], sum)
      <4>1. key = <<i, now[i].n>>
        BY <1>3, <1>5, <2>2 DEF Same
      <4> QED BY <1>3, <1>8, <2>1, <2>8, <2>9, <2>10, <4>1 DEF After
    <3>3. PICK u : u = Onward(st, sum)
      OBVIOUS
    <3>4. PICK v : v = Onward(now[i], sum)
      OBVIOUS
    <3>5. Same(u, v)
      BY <1>5, <3>3, <3>4, OnwardIs DEF Same
    <3>6. Same(x, v) /\ x.known = k2
      BY <3>1, <3>3, <3>5 DEF Same, IsLineage
    <3> QED BY <1>5, <2>4, <2>5, <3>2, <3>4, <3>6 DEF Finds
  <2>11. CASE e.ins[1] # key
    <3>1. x = [st EXCEPT !.live = FALSE, !.known = k2]
      BY <1>4, <1>8, <2>1, <2>2, <2>3, <2>11 DEF replayEvent, replayConsolidate, Finding
    <3>2. H[j][i] = [now[i] EXCEPT !.live = FALSE]
      <4>1. key = <<i, now[i].n>>
        BY <1>3, <1>5, <2>2 DEF Same
      <4> QED BY <1>3, <1>8, <2>1, <2>11, <4>1 DEF After
    <3>3. Same(x, [now[i] EXCEPT !.live = FALSE]) /\ x.known = k2
      BY <1>5, <3>1 DEF Same, IsLineage
    <3> QED BY <1>5, <2>4, <2>5, <3>2, <3>3 DEF Finds
  <2> QED BY <2>10, <2>11
<1> QED BY <1>6, <1>7, <1>8

\* A lineage starts with what was deposited.
LEMMA StartsSame ==
    ASSUME NEW H, NEW events, NEW K, Replays(H, events, K), NEW i \in Indices,
           NEW k \in depositOf(events, i), NEW known, NEW st, st = Lineage(i, k, known)
    PROVE  Same(st, H[0][i]) /\ st.known = known
<1>1. k \in 1..K /\ events[k].ev = "deposit"
  BY DEF Replays, depositOf
<1>2. PICK e : e = log[k] /\ e = events[k]
  BY <1>1 DEF Replays
<1>3. k \in 1..Len(log) /\ 0 \in 0..Len(log)
  BY <1>1 DEF Replays
<1>4. EventOk(H[k - 1], e, k)
  BY <1>2, <1>3 DEF Replays, IsHistory, EventsInv
<1>5. log[k].amt = DepositAmount
  BY <1>1, <1>2, <1>4 DEF EventOk
<1>6. H[0][i] = Start(i)
  BY DEF Replays, IsHistory, Steps
<1> QED BY <1>5, <1>6 DEF Lineage, Start, Same, IsLineage

LEMMA Collected ==
    ASSUME NEW H, NEW events, NEW K, Replays(H, events, K), NEW i \in Indices,
           NEW k \in depositOf(events, i), NEW known, Right(H, known), NEW f, Collecting(f),
           NEW st, st = replayLineage(events, i, k, known, f)
    PROVE  Right(H, st.known) /\ DOMAIN known \subseteq DOMAIN st.known /\ Has(st.known, i, K)
<1>1. K \in Nat /\ Len(events) = K
  BY DEF Replays
<1>2. PICK after :
         /\ after[0] = Lineage(i, k, known)
         /\ \A j \in 1..K : after[j] = replayEvent(after[j - 1], events[j], f)
         /\ st = after[K]
  BY <1>1, LineageIs
<1> DEFINE T == {j \in Nat : j <= K => Collects(H, after[j], known, i, j)}
<1>3. 0 \in T
  <2>1. PICK x : x = after[0]
    OBVIOUS
  <2>2. Same(x, H[0][i]) /\ x.known = known
    BY <1>2, <2>1, StartsSame
  <2>3. IsLineage(x) /\ ~\E m \in 1..0 : Merges(m, i)
    BY <2>2 DEF Same
  <2>4. Has(x.known, i, 0)
    BY DEF Has
  <2>5. Collects(H, x, known, i, 0)
    BY <2>2, <2>3, <2>4 DEF Collects
  <2> QED BY <2>1, <2>5
<1>4. ASSUME NEW j \in Nat, j \in T PROVE j + 1 \in T
  <2> SUFFICES ASSUME j + 1 <= K PROVE Collects(H, after[j + 1], known, i, j + 1)
    OBVIOUS
  <2>1. j + 1 \in 1..K /\ j <= K /\ (j + 1) - 1 = j
    BY <1>1
  <2>2. PICK x : x = after[j]
    OBVIOUS
  <2>3. PICK c \in 1..K : c = j + 1 /\ c - 1 = j
    BY <2>1
  <2>4. Collects(H, x, known, i, c - 1)
    BY <1>4, <2>1, <2>2, <2>3
  <2>5. PICK y : y = after[c] /\ y = replayEvent(x, events[c], f)
    BY <1>2, <2>2, <2>3
  <2>6. Collects(H, y, known, i, c)
    BY <2>4, <2>5, CollectsOn
  <2> QED BY <2>3, <2>5, <2>6
<1>5. \A j \in Nat : j \in T
  <2> HIDE DEF T
  <2> QED BY <1>3, <1>4, Induct
<1>6. Collects(H, st, known, i, K)
  BY <1>1, <1>2, <1>5
<1> QED BY <1>6 DEF Collects

LEMMA Replayed ==
    ASSUME NEW H, NEW events, NEW K, Replays(H, events, K), NEW i \in Indices,
           NEW k \in depositOf(events, i), NEW known, Right(H, known), Full(known, K),
           NEW f, Finding(f), NEW st, st = replayLineage(events, i, k, known, f)
    PROVE  Same(st, H[K][i]) /\ Right(H, st.known) /\ Full(st.known, K)
<1>1. K \in Nat /\ Len(events) = K
  BY DEF Replays
<1>2. PICK after :
         /\ after[0] = Lineage(i, k, known)
         /\ \A j \in 1..K : after[j] = replayEvent(after[j - 1], events[j], f)
         /\ st = after[K]
  BY <1>1, LineageIs
<1> DEFINE T == {j \in Nat : j <= K => Finds(H, after[j], known, i, j)}
<1>3. 0 \in T
  <2>1. PICK x : x = after[0]
    OBVIOUS
  <2>2. Same(x, H[0][i]) /\ x.known = known
    BY <1>2, <2>1, StartsSame
  <2>3. Finds(H, x, known, i, 0)
    BY <2>2 DEF Finds
  <2> QED BY <2>1, <2>3
<1>4. ASSUME NEW j \in Nat, j \in T PROVE j + 1 \in T
  <2> SUFFICES ASSUME j + 1 <= K PROVE Finds(H, after[j + 1], known, i, j + 1)
    OBVIOUS
  <2>1. j + 1 \in 1..K /\ j <= K /\ (j + 1) - 1 = j
    BY <1>1
  <2>2. PICK x : x = after[j]
    OBVIOUS
  <2>3. PICK c \in 1..K : c = j + 1 /\ c - 1 = j
    BY <2>1
  <2>4. Finds(H, x, known, i, c - 1)
    BY <1>4, <2>1, <2>2, <2>3
  <2>5. PICK y : y = after[c] /\ y = replayEvent(x, events[c], f)
    BY <1>2, <2>2, <2>3
  <2>6. Finds(H, y, known, i, c)
    BY <2>4, <2>5, FindsOn
  <2> QED BY <2>3, <2>5, <2>6
<1>5. \A j \in Nat : j \in T
  <2> HIDE DEF T
  <2> QED BY <1>3, <1>4, Induct
<1>6. Finds(H, st, known, i, K)
  BY <1>1, <1>2, <1>5
<1> QED BY <1>6 DEF Finds, Full, Has

-----------------------------------------------------------------------------
(* The two passes.                                                         *)

\* A deposit is among the first K events of the log.
LEMMA DepositInIs ==
    ASSUME NEW H, NEW events, NEW K, Replays(H, events, K), NEW i
    PROVE  /\ DepositIn(events, i) <=> DepositedBy(i, K)
           /\ depositOf(events, i) = {} <=> ~DepositIn(events, i)
           /\ DepositIn(events, i) => Min(depositOf(events, i)) \in depositOf(events, i)
<1>1. K \in Nat /\ DOMAIN events = 1..K /\ \A j \in 1..K : events[j] = log[j]
  BY DEF Replays
<1>2. DepositIn(events, i) <=> DepositedBy(i, K)
  BY <1>1 DEF DepositIn, DepositedBy
<1> QED BY <1>1, <1>2, DepositOfIs

LEMMA VisitIs ==
    ASSUME NEW H, NEW events, NEW K, Replays(H, events, K), NEW i \in Indices, NEW acc, NEW f
    PROVE  /\ ~DepositIn(events, i) => Visit(events, acc, i, f) = acc
           /\ DepositIn(events, i) => \E k \in depositOf(events, i) :
                Visit(events, acc, i, f)
                  = Found(acc, replayLineage(events, i, k, acc.known, f))
<1>1. ~DepositIn(events, i) => Visit(events, acc, i, f) = acc
  BY DepositInIs DEF Visit
<1>2. ASSUME DepositIn(events, i)
      PROVE  \E k \in depositOf(events, i) :
                Visit(events, acc, i, f)
                  = Found(acc, replayLineage(events, i, k, acc.known, f))
  <2>1. depositOf(events, i) # {}
    BY <1>2, DepositInIs
  <2>2. PICK k \in depositOf(events, i) : k = Min(depositOf(events, i))
    BY <1>2, DepositInIs
  <2>3. PICK x : x = replayLineage(events, i, k, acc.known, f)
    OBVIOUS
  <2>4. Visit(events, acc, i, f) = Only({Found(acc, st) : st \in {x}})
    BY <2>1, <2>2, <2>3 DEF Visit
  <2>5. {Found(acc, st) : st \in {x}} = {Found(acc, x)}
    OBVIOUS
  <2>6. Visit(events, acc, i, f) = Found(acc, x)
    BY <2>4, <2>5, OnlyIs
  <2> QED BY <2>3, <2>6
<1> QED BY <1>1, <1>2

LEMMA FirstPass ==
    ASSUME NEW H, NEW events, NEW K, Replays(H, events, K), NEW f, Collecting(f),
           NEW r, r = Pass(events, <<>>, f)
    PROVE  Right(H, r.known) /\ Full(r.known, K)
<1> DEFINE M == Max(Indices)
<1>1. M \in Nat /\ M + 1 \in Nat /\ Indices = 0..M
  BY WalletAssumption
<1>2. PICK after :
         /\ after[0] = [known |-> <<>>, notes |-> {}]
         /\ \A j \in 1..(M + 1) : after[j] = Visit(events, after[j - 1], j - 1, f)
         /\ r = after[M + 1]
  BY <1>1, PassIs
<1> HIDE DEF M
<1> DEFINE Ok(acc, j) ==
             /\ Right(H, acc.known)
             /\ \A i \in Indices : i < j /\ DepositedBy(i, K) => Has(acc.known, i, K)
           T == {j \in Nat : j <= M + 1 => Ok(after[j], j)}
<1>3. 0 \in T
  <2>1. after[0].known = <<>> /\ DOMAIN <<>> = {}
    BY <1>2
  <2>2. Right(H, after[0].known)
    BY <2>1 DEF Right
  <2>3. \A i \in Indices : ~(i < 0)
    BY <1>1
  <2> QED BY <2>2, <2>3
<1>4. ASSUME NEW j \in Nat, j \in T PROVE j + 1 \in T
  <2> SUFFICES ASSUME j + 1 <= M + 1 PROVE Ok(after[j + 1], j + 1)
    OBVIOUS
  <2>1. j \in Indices /\ j + 1 \in 1..(M + 1) /\ (j + 1) - 1 = j /\ j <= M + 1
    BY <1>1
  <2>2. PICK acc : acc = after[j]
    OBVIOUS
  <2>3. Ok(acc, j)
    BY <1>4, <2>1, <2>2
  <2>4. PICK y : y = after[j + 1] /\ y = Visit(events, acc, j, f)
    BY <1>2, <2>1, <2>2
  <2>5. \A i \in Indices : i < j + 1 => i < j \/ i = j
    BY <1>1
  <2>6. CASE ~DepositIn(events, j)
    <3>1. y = acc /\ ~DepositedBy(j, K)
      BY <2>1, <2>4, <2>6, VisitIs, DepositInIs
    <3> QED BY <2>3, <2>4, <2>5, <3>1
  <2>7. CASE DepositIn(events, j)
    <3>1. PICK k \in depositOf(events, j) :
             Visit(events, acc, j, f) = Found(acc, replayLineage(events, j, k, acc.known, f))
      BY <2>1, <2>7, VisitIs
    <3>2. PICK st : st = replayLineage(events, j, k, acc.known, f)
      OBVIOUS
    <3>3. PICK kn : kn = acc.known
      OBVIOUS
    <3>4. Right(H, kn) /\ st = replayLineage(events, j, k, kn, f)
      BY <2>3, <3>2, <3>3
    <3>5. Right(H, st.known) /\ DOMAIN kn \subseteq DOMAIN st.known /\ Has(st.known, j, K)
      BY <2>1, <3>4, Collected
    <3>6. y.known = st.known
      BY <2>4, <3>1, <3>2 DEF Found
    <3>7. \A i \in Indices : Has(kn, i, K) => Has(st.known, i, K)
      BY <3>5 DEF Has
    <3> QED BY <2>3, <2>4, <2>5, <3>3, <3>5, <3>6, <3>7
  <2> QED BY <2>6, <2>7
<1>5. \A j \in Nat : j \in T
  <2> HIDE DEF T
  <2> QED BY <1>3, <1>4, Induct
<1>6. Ok(r, M + 1)
  BY <1>1, <1>2, <1>5
<1>7. \A i \in Indices : i < M + 1
  BY <1>1
<1> QED BY <1>6, <1>7 DEF Full

\* What a lineage's last state puts in the cache.
Holds(h, x) == x \in h.receipts \/ (h.live /\ h.bal > 0 /\ x = Cash(h.i, h.n, h.bal))

LEMMA FoundIs ==
    ASSUME NEW acc, NEW st, NEW h, Same(st, h), NEW y, y = Found(acc, st)
    PROVE  y.known = st.known /\ \A x : x \in y.notes <=> x \in acc.notes \/ Holds(h, x)
<1>1. /\ y.known = st.known
      /\ y.notes = acc.notes \cup st.receipts
                   \cup (IF st.live /\ st.bal > 0 THEN {Cash(st.i, st.n, st.bal)} ELSE {})
  BY DEF Found
<1>2. \A x : x \in y.notes <=> x \in acc.notes \/ Holds(st, x)
  BY <1>1 DEF Holds
<1>3. \A x : Holds(st, x) <=> Holds(h, x)
  BY DEF Holds, Same
<1> QED BY <1>1, <1>2, <1>3

LEMMA FinalPass ==
    ASSUME NEW H, NEW events, NEW K, Replays(H, events, K), NEW f, Finding(f),
           NEW known, Right(H, known), Full(known, K), NEW r, r = Pass(events, known, f)
    PROVE  \A x : x \in r.notes <=>
             \E i \in Indices : DepositedBy(i, K) /\ Holds(H[K][i], x)
<1> DEFINE M == Max(Indices)
<1>1. M \in Nat /\ M + 1 \in Nat /\ Indices = 0..M
  BY WalletAssumption
<1>2. PICK after :
         /\ after[0] = [known |-> known, notes |-> {}]
         /\ \A j \in 1..(M + 1) : after[j] = Visit(events, after[j - 1], j - 1, f)
         /\ r = after[M + 1]
  BY <1>1, PassIs
<1> HIDE DEF M
<1> DEFINE Ok(acc, j) ==
             /\ Right(H, acc.known) /\ Full(acc.known, K)
             /\ \A x : x \in acc.notes <=>
                  \E i \in Indices : i < j /\ DepositedBy(i, K) /\ Holds(H[K][i], x)
           T == {j \in Nat : j <= M + 1 => Ok(after[j], j)}
<1>3. 0 \in T
  <2>1. after[0].known = known /\ after[0].notes = {}
    BY <1>2
  <2>2. \A i \in Indices : ~(i < 0)
    BY <1>1
  <2> QED BY <2>1, <2>2
<1>4. ASSUME NEW j \in Nat, j \in T PROVE j + 1 \in T
  <2> SUFFICES ASSUME j + 1 <= M + 1 PROVE Ok(after[j + 1], j + 1)
    OBVIOUS
  <2>1. j \in Indices /\ j + 1 \in 1..(M + 1) /\ (j + 1) - 1 = j /\ j <= M + 1
    BY <1>1
  <2>2. PICK acc : acc = after[j]
    OBVIOUS
  <2>3. Ok(acc, j)
    BY <1>4, <2>1, <2>2
  <2>4. PICK y : y = after[j + 1] /\ y = Visit(events, acc, j, f)
    BY <1>2, <2>1, <2>2
  <2>5. \A i \in Indices : i < j + 1 <=> i < j \/ i = j
    BY <1>1
  <2>6. CASE ~DepositIn(events, j)
    <3>1. y = acc /\ ~DepositedBy(j, K)
      BY <2>1, <2>4, <2>6, VisitIs, DepositInIs
    <3> QED BY <2>3, <2>4, <2>5, <3>1
  <2>7. CASE DepositIn(events, j)
    <3>1. PICK k \in depositOf(events, j) :
             Visit(events, acc, j, f) = Found(acc, replayLineage(events, j, k, acc.known, f))
      BY <2>1, <2>7, VisitIs
    <3>2. PICK st : st = replayLineage(events, j, k, acc.known, f)
      OBVIOUS
    <3>3. PICK kn : kn = acc.known
      OBVIOUS
    <3>4. Right(H, kn) /\ Full(kn, K) /\ st = replayLineage(events, j, k, kn, f)
      BY <2>3, <3>2, <3>3
    <3>5. PICK h : h = H[K][j]
      OBVIOUS
    <3>6. Same(st, h) /\ Right(H, st.known) /\ Full(st.known, K)
      BY <2>1, <3>4, <3>5, Replayed
    <3>7. y = Found(acc, st)
      BY <2>4, <3>1, <3>2
    <3>8. y.known = st.known /\ \A x : x \in y.notes <=> x \in acc.notes \/ Holds(h, x)
      BY <3>6, <3>7, FoundIs
    <3>9. DepositedBy(j, K)
      BY <2>1, <2>7, DepositInIs
    <3>10. \A x : x \in y.notes <=>
             \E i \in Indices : i < j + 1 /\ DepositedBy(i, K) /\ Holds(H[K][i], x)
      BY <2>1, <2>3, <2>5, <3>5, <3>8, <3>9
    <3> QED BY <2>4, <3>6, <3>8, <3>10
  <2> QED BY <2>6, <2>7
<1>5. \A j \in Nat : j \in T
  <2> HIDE DEF T
  <2> QED BY <1>3, <1>4, Induct
<1>6. Ok(r, M + 1)
  BY <1>1, <1>2, <1>5
<1>7. \A i \in Indices : i < M + 1
  BY <1>1
<1> QED BY <1>6, <1>7

LEMMA RecoverIs ==
    ASSUME NEW events
    PROVE  \E f, g, first :
             /\ Collecting(f) /\ Finding(g) /\ first = Pass(events, <<>>, f)
             /\ recoverNotes(events) = Pass(events, first.known, g).notes
<1>1. PICK first : first = Pass(events, <<>>, FALSE)
  OBVIOUS
<1>2. recoverNotes(events) = Only({Pass(events, x.known, TRUE).notes : x \in {first}})
  BY <1>1 DEF recoverNotes
<1>3. {Pass(events, x.known, TRUE).notes : x \in {first}} = {Pass(events, first.known, TRUE).notes}
  OBVIOUS
<1>4. recoverNotes(events) = Pass(events, first.known, TRUE).notes
  BY <1>2, <1>3, OnlyIs
<1>5. Collecting(FALSE) /\ Finding(TRUE)
  BY DEF Collecting, Finding
<1> QED BY <1>1, <1>4, <1>5, Zenon

LEMMA Recovered ==
    ASSUME NEW S, log \in Seq(S), NEW H, IsHistory(H), MergedOnce, NEW K \in 0..Len(log)
    PROVE  \A x : x \in recoverNotes(RecoveryEvents(K)) <=>
             \E i \in Indices : DepositedBy(i, K) /\ Holds(H[K][i], x)
<1>1. PICK events : events = SubSeq(log, 1, K)
  OBVIOUS
<1>2. Len(log) \in Nat /\ \A j \in 1..Len(log) : log[j] \in S
  OBVIOUS
<1>3. K \in Nat /\ \A j \in 1..K : j \in 1..Len(log) /\ log[j] \in S
  BY <1>2
<1>4. /\ events \in Seq(S) /\ Len(events) = IF 1 <= K THEN K - 1 + 1 ELSE 0
      /\ \A j \in 1..(K - 1 + 1) : events[j] = log[1 + j - 1]
  BY <1>1, <1>3, SubSeqProperties
<1>5. Len(events) = K /\ \A j \in 1..K : events[j] = log[j]
  <2>1. K - 1 + 1 = K /\ \A j \in 1..K : 1 + j - 1 = j
    BY <1>3
  <2> QED BY <1>3, <1>4, <2>1
<1>6. DOMAIN events = 1..K
  BY <1>4, <1>5
<1>7. Replays(H, events, K)
  BY <1>2, <1>5, <1>6 DEF Replays
<1>8. PICK f, g, first :
         /\ Collecting(f) /\ Finding(g) /\ first = Pass(events, <<>>, f)
         /\ recoverNotes(events) = Pass(events, first.known, g).notes
  BY RecoverIs
<1>9. PICK known : known = first.known
  OBVIOUS
<1>10. Right(H, known) /\ Full(known, K)
  BY <1>7, <1>8, <1>9, FirstPass
<1>11. PICK r : r = Pass(events, known, g)
  OBVIOUS
<1>12. \A x : x \in r.notes <=> \E i \in Indices : DepositedBy(i, K) /\ Holds(H[K][i], x)
  BY <1>7, <1>8, <1>10, <1>11, FinalPass
<1> QED BY <1>1, <1>8, <1>9, <1>11, <1>12 DEF RecoveryEvents

-----------------------------------------------------------------------------
(* The cache: what its writes keep.                                        *)

LEMMA KeptPart ==
    ASSUME NEW m, Kept(m), NEW p, p \subseteq m
    PROVE  Kept(p)
  BY DEF Kept

LEMMA KeptEmpty == Kept({})
  BY DEF Kept

LEMMA SpentKept ==
    ASSUME NEW m, Kept(m), NEW keys
    PROVE  Kept(markNoteSpent(m, keys))
<1>1. markNoteSpent(m, keys) \subseteq m
  BY DEF markNoteSpent
<1> QED BY <1>1, KeptPart

\* A receipt that is marked, or unmarked, is still a receipt of the same bet.
LEMMA MarkedIs ==
    ASSUME NEW x \in BetReceipts, NEW v \in BOOLEAN
    PROVE  LET y == [x EXCEPT !.spent = v] IN
           y \in BetReceipts /\ y.kind = "BET_RECEIPT" /\ BetOf(y) = BetOf(x)
  BY DEF BetReceipts, BetOf

LEMMA RewrittenKept ==
    ASSUME NEW m, Kept(m), NEW p,
           \A y \in p : y \in m \/ \E x \in m, v \in BOOLEAN :
             x.kind = "BET_RECEIPT" /\ y = [x EXCEPT !.spent = v]
    PROVE  Kept(p)
<1>1. ASSUME NEW y \in p, y \notin m
      PROVE  y \in BetReceipts /\ y.kind = "BET_RECEIPT" /\ BetOf(y) \in DOMAIN bets
  <2>1. PICK x \in m, v \in BOOLEAN : x.kind = "BET_RECEIPT" /\ y = [x EXCEPT !.spent = v]
    BY <1>1
  <2>2. x \in BetReceipts /\ BetOf(x) \in DOMAIN bets
    BY <2>1 DEF Kept, CashNotes
  <2>3. y \in BetReceipts /\ y.kind = "BET_RECEIPT" /\ BetOf(y) = BetOf(x)
    BY <2>1, <2>2, MarkedIs
  <2> QED BY <2>2, <2>3
<1>2. p \subseteq CashNotes \cup BetReceipts
  BY <1>1 DEF Kept
<1>3. ASSUME NEW y \in p, y.kind = "CASH" PROVE Open(y)
  BY <1>1, <1>3 DEF Kept
<1>4. ASSUME NEW y \in p, y.kind = "BET_RECEIPT" PROVE BetOf(y) \in DOMAIN bets
  BY <1>1, <1>4 DEF Kept
<1> QED BY <1>2, <1>3, <1>4 DEF Kept

LEMMA ReceiptsSpentKept ==
    ASSUME NEW m, Kept(m), NEW keys
    PROVE  Kept(markBetReceiptSpent(m, keys))
<1>1. ASSUME NEW y \in markBetReceiptSpent(m, keys)
      PROVE  y \in m \/ \E x \in m, v \in BOOLEAN :
                 x.kind = "BET_RECEIPT" /\ y = [x EXCEPT !.spent = v]
  BY DEF markBetReceiptSpent
<1>2. PICK p : p = markBetReceiptSpent(m, keys)
  OBVIOUS
<1> QED BY <1>1, <1>2, RewrittenKept

LEMMA HealedKept ==
    ASSUME NEW m, Kept(m)
    PROVE  Kept(Healed(m))
<1>1. ASSUME NEW y \in Healed(m)
      PROVE  y \in m \/ \E x \in m, v \in BOOLEAN :
                 x.kind = "BET_RECEIPT" /\ y = [x EXCEPT !.spent = v]
  BY DEF Healed
<1>2. PICK p : p = Healed(m)
  OBVIOUS
<1> QED BY <1>1, <1>2, RewrittenKept

LEMMA ReconciledKept ==
    ASSUME NEW m, Kept(m)
    PROVE  Kept(Reconciled(m)) /\ \A p \in Reconciles(m) : Kept(p)
<1>1. Kept(Reconciled(m))
  BY SpentKept DEF Reconciled
<1> QED BY <1>1 DEF Reconciles

LEMMA NoteAdded ==
    ASSUME NEW m, Kept(m), NEW x, x \in CashNotes, Open(x)
    PROVE  Kept(addNote(m, x))
  BY DEF Kept, addNote, CashNotes

LEMMA ReceiptAdded ==
    ASSUME NEW m, Kept(m), NEW i \in Indices, NEW n \in Nat, NEW side \in AnySide,
           <<i, n>> \in DOMAIN bets
    PROVE  Kept(addNote(m, Receipt(i, n, side, FALSE)))
<1>1. PICK x : x = Receipt(i, n, side, FALSE)
  OBVIOUS
<1>2. x \in BetReceipts /\ x.kind = "BET_RECEIPT" /\ BetOf(x) = <<i, n>>
  BY <1>1 DEF Receipt, BetReceipts, BetOf
<1> QED BY <1>1, <1>2 DEF Kept, addNote

LEMMA ReplacedKept ==
    ASSUME NEW m, Kept(m), BetsInv, NEW b \in DOMAIN bets, NEW side \in AnySide
    PROVE  Kept(replaceNote(m, b, side))
<1>1. b[1] \in Indices /\ b[2] \in Nat /\ b = <<b[1], b[2]>>
  BY DEF BetsInv
<1>2. Kept(addNote(m, Receipt(b[1], b[2], side, FALSE)))
  BY <1>1, ReceiptAdded
<1> QED BY <1>2 DEF replaceNote

\* After a transaction the cache holds the note that the chain holds.
LEMMA CachedKept ==
    ASSUME NEW m, Kept(m), BetsInv, NEW o, IsFlow(o), Landed(o), o.flow # "deposit",
           Sides \subseteq AnySide
    PROVE  Kept(Cached(m, o))
<1>1. PICK kept : kept = markNoteSpent(m, Keys(o))
  OBVIOUS
<1>2. Kept(kept)
  BY <1>1, SpentKept
<1>3. PICK x : x = Output(o)
  OBVIOUS
<1>4. x \in CashNotes
  BY <1>3 DEF Landed, Output, Cash, CashNotes
<1>5. PICK next : next = IF o.flow = "withdraw" /\ NewBalance(o) = 0 THEN kept
                         ELSE addNote(kept, x)
  OBVIOUS
<1>6. Kept(next)
  <2>1. CASE o.flow = "withdraw" /\ NewBalance(o) = 0
    BY <1>2, <1>5, <2>1
  <2>2. CASE ~(o.flow = "withdraw" /\ NewBalance(o) = 0)
    <3>1. Open(x)
      BY <1>3, <2>2 DEF Landed
    <3>2. Kept(addNote(kept, x))
      BY <1>2, <1>4, <3>1, NoteAdded
    <3> QED BY <1>5, <2>2, <3>2
  <2> QED BY <2>1, <2>2
<1>7. Cached(m, o) = CASE o.flow = "bet" ->
                            addNote(next, Receipt(o.ins[1].i, o.ins[1].n, o.side, FALSE))
                       [] o.flow = "partial" -> replaceNote(next, o.bet, o.side)
                       [] Finishes(o) -> markBetReceiptSpent(next, {o.bet})
                       [] OTHER -> next
  BY <1>1, <1>3, <1>5 DEF Cached
<1>8. o.flow = "bet" => Kept(addNote(next, Receipt(o.ins[1].i, o.ins[1].n, o.side, FALSE)))
  <2> SUFFICES ASSUME o.flow = "bet"
               PROVE  Kept(addNote(next, Receipt(o.ins[1].i, o.ins[1].n, o.side, FALSE)))
    OBVIOUS
  <2>1. /\ o.ins[1].i \in Indices /\ o.ins[1].n \in Nat /\ o.side \in AnySide
        /\ <<o.ins[1].i, o.ins[1].n>> \in DOMAIN bets
    BY DEF Landed, IsFlow, BetOf
  <2> QED BY <1>6, <2>1, ReceiptAdded
<1>9. o.flow = "partial" => Kept(replaceNote(next, o.bet, o.side))
  BY <1>6, ReplacedKept DEF IsFlow, Credits
<1>10. Kept(markBetReceiptSpent(next, {o.bet}))
  BY <1>6, ReceiptsSpentKept
<1>11. Finishes(o) => o.flow # "bet" /\ o.flow # "partial"
  BY DEF Finishes
<1>12. CASE o.flow = "bet"
  <2>1. Cached(m, o) = addNote(next, Receipt(o.ins[1].i, o.ins[1].n, o.side, FALSE))
    BY <1>7, <1>11, <1>12
  <2> QED BY <1>8, <1>12, <2>1
<1>13. CASE o.flow = "partial"
  <2>1. Cached(m, o) = replaceNote(next, o.bet, o.side)
    BY <1>7, <1>11, <1>13
  <2> QED BY <1>9, <1>13, <2>1
<1>14. CASE Finishes(o)
  <2>1. Cached(m, o) = markBetReceiptSpent(next, {o.bet})
    BY <1>7, <1>11, <1>14
  <2> QED BY <1>10, <2>1
<1>15. CASE o.flow \notin {"bet", "partial"} /\ ~Finishes(o)
  <2>1. Cached(m, o) = next
    BY <1>7, <1>15
  <2> QED BY <1>6, <2>1
<1> QED BY <1>12, <1>13, <1>14, <1>15

\* A tab writes its list.
LEMMA CacheSaved ==
    ASSUME CacheInv, Later, NEW s, NEW m, Kept(m)', Save(s, m)
    PROVE  CacheInv'
<1>1. mem' = [mem EXCEPT ![s] = m] /\ disk' \in {m, disk}
  BY DEF Save, writeEncrypted
<1>2. \A t \in Sessions : mem'[t] \in {m, mem[t]}
  BY <1>1 DEF CacheInv
<1>3. PICK d : d = disk
  OBVIOUS
<1>4. Kept(d)'
  <2>1. Kept(d)
    BY <1>3 DEF CacheInv
  <2> QED BY <2>1, KeptLater
<1>5. Kept(disk)'
  <2>1. PICK e : e = disk'
    OBVIOUS
  <2>2. Kept(e)'
    BY <1>1, <1>3, <1>4, <2>1
  <2> QED BY <2>1, <2>2
<1>6. ASSUME NEW t \in Sessions PROVE Kept(mem[t])'
  <2>1. PICK e : e = mem[t]
    OBVIOUS
  <2>2. Kept(e)
    BY <2>1 DEF CacheInv
  <2>3. Kept(e)'
    BY <2>2, KeptLater
  <2>4. PICK g : g = mem'[t]
    OBVIOUS
  <2>5. Kept(g)'
    BY <1>2, <2>1, <2>3, <2>4
  <2> QED BY <2>4, <2>5
<1>7. DOMAIN mem' = Sessions
  BY <1>1 DEF CacheInv
<1> QED BY <1>5, <1>6, <1>7 DEF CacheInv

LEMMA CacheStays ==
    ASSUME CacheInv, Later, UNCHANGED <<mem, disk>>
    PROVE  CacheInv'
<1>1. PICK d : d = disk
  OBVIOUS
<1>2. Kept(d)'
  BY <1>1, KeptLater DEF CacheInv
<1>3. ASSUME NEW t \in Sessions PROVE Kept(mem[t])'
  <2>1. PICK e : e = mem[t]
    OBVIOUS
  <2>2. Kept(e)'
    BY <2>1, KeptLater DEF CacheInv
  <2> QED BY <2>1, <2>2
<1> QED BY <1>1, <1>2, <1>3 DEF CacheInv

-----------------------------------------------------------------------------
(* The flows: what each asks the relay for.                                *)

LEMMA OpKept ==
    ASSUME NEW o, OpOk(o), Later
    PROVE  OpOk(o)'
<1>1. CASE o.flow = "none"
  BY <1>1 DEF OpOk
<1>2. CASE o.flow # "none"
  <2>1. IsFlow(o)'
    BY <1>2 DEF OpOk, IsFlow, Later
  <2>2. o.flow = "deposit" => Depositing(o)'
    BY <1>2 DEF OpOk, Depositing, Later
  <2>3. ASSUME o.sent, o.flow # "deposit" PROVE Landed(o)'
    <3>1. Landed(o)
      BY <1>2, <2>3 DEF OpOk
    <3>2. PICK x : x = Output(o)
      OBVIOUS
    <3>3. x \in CashNotes
      BY <2>3, <3>1, <3>2 DEF Landed, Output, Cash, CashNotes
    <3>4. Open(x) => Open(x)'
      BY <3>3 DEF Later
    <3>5. Output(o)' = x
      BY <3>2 DEF Output, NewBalance
    <3>6. ~(o.flow = "withdraw" /\ NewBalance(o) = 0) => Open(Output(o))'
      BY <3>1, <3>2, <3>4, <3>5 DEF Landed
    <3>7. o.flow = "bet" => BetOf(o.ins[1]) \in DOMAIN bets'
      BY <3>1 DEF Landed, Later
    <3> QED BY <3>1, <3>6, <3>7 DEF Landed
  <2> QED BY <1>2, <2>1, <2>2, <2>3 DEF OpOk
<1> QED BY <1>1, <1>2

LEMMA OpsStay ==
    ASSUME OpInv, Later, UNCHANGED op
    PROVE  OpInv'
<1>1. ASSUME NEW t \in Sessions PROVE OpOk(op[t])'
  <2>1. PICK o : o = op[t]
    OBVIOUS
  <2>2. OpOk(o)'
    BY <2>1, OpKept DEF OpInv
  <2> QED BY <2>1, <2>2
<1> QED BY <1>1 DEF OpInv

LEMMA OpSet ==
    ASSUME OpInv, Later, NEW s, NEW o, op' = [op EXCEPT ![s] = o], OpOk(o)'
    PROVE  OpInv'
<1>1. ASSUME NEW t \in Sessions PROVE OpOk(op[t])'
  <2>1. PICK p : p = op[t]
    OBVIOUS
  <2>2. OpOk(p)'
    BY <2>1, OpKept DEF OpInv
  <2>3. PICK q : q = op'[t]
    OBVIOUS
  <2>4. q \in {o, p}
    BY <2>1, <2>3 DEF OpInv
  <2>5. OpOk(q)'
    BY <2>2, <2>4
  <2> QED BY <2>3, <2>5
<1>2. DOMAIN op' = Sessions
  BY DEF OpInv
<1> QED BY <1>1, <1>2 DEF OpInv

LEMMA NoOpOk == OpOk(NoOp)
  BY DEF OpOk, NoOp

\* A flow that does not claim and was not sent.
LEMMA FlowIs ==
    ASSUME NEW f, NEW ins, NEW b, NEW amt, NEW side, NEW for, NEW open, NEW o,
           o = Flow(f, ins, b, amt, side, for, open)
    PROVE  /\ DOMAIN o = {"flow", "ins", "bet", "amt", "side", "for", "open", "sent"}
           /\ o.flow = f /\ o.ins = ins /\ o.bet = b /\ o.amt = amt /\ o.side = side
           /\ o.for = for /\ o.open = open /\ ~o.sent /\ o.sent \in BOOLEAN
  BY DEF Flow

LEMMA WithdrawFlow ==
    ASSUME NEW note, NEW amt, NEW open, NEW o,
           o = Flow("withdraw", <<note>>, NoBet, amt, "none", "none", open)
    PROVE  OpOk(o) /\ Relayed(o)
<1>1. /\ DOMAIN o = {"flow", "ins", "bet", "amt", "side", "for", "open", "sent"}
      /\ o.flow = "withdraw" /\ o.ins = <<note>> /\ ~o.sent /\ o.sent \in BOOLEAN
  BY FlowIs
<1>2. DOMAIN o.ins = {1}
  BY <1>1
<1>3. IsFlow(o)
  BY <1>1, <1>2 DEF IsFlow, Flows, Credits
<1> QED BY <1>1, <1>3 DEF OpOk, Relayed, Priced, Credits

LEMMA BetFlow ==
    ASSUME NEW note, NEW amt \in Stakes, NEW side \in Sides, NEW open, NEW o,
           o = Flow("bet", <<note>>, NoBet, amt, side, "none", open)
    PROVE  OpOk(o) /\ Relayed(o)
<1>1. /\ DOMAIN o = {"flow", "ins", "bet", "amt", "side", "for", "open", "sent"}
      /\ o.flow = "bet" /\ o.ins = <<note>> /\ ~o.sent /\ o.sent \in BOOLEAN
      /\ o.amt = amt /\ o.side = side
  BY FlowIs
<1>2. DOMAIN o.ins = {1}
  BY <1>1
<1>3. IsFlow(o)
  BY <1>1, <1>2 DEF IsFlow, Flows, Credits
<1> QED BY <1>1, <1>3 DEF OpOk, Relayed, Priced, Credits

LEMMA MergeFlow ==
    ASSUME NEW picked, NEW amt, NEW side, NEW for, NEW open, NEW o,
           o = Flow("consolidate", picked, NoBet, amt, side, for, open),
           for = "bet" => amt \in Stakes /\ side \in Sides
    PROVE  Relayed(o)
<1>1. /\ DOMAIN o = {"flow", "ins", "bet", "amt", "side", "for", "open", "sent"}
      /\ o.flow = "consolidate" /\ ~o.sent /\ o.sent \in BOOLEAN
      /\ o.amt = amt /\ o.side = side /\ o.for = for
  BY FlowIs
<1>2. IsFlow(o)
  BY <1>1 DEF IsFlow, Flows, Credits
<1> QED BY <1>1, <1>2 DEF Relayed, Priced, Credits

LEMMA CreditFlow ==
    ASSUME NEW f \in Credits, NEW note, NEW b \in DOMAIN bets, NEW amt, NEW side \in AnySide,
           NEW o, o = Flow(f, <<note>>, b, amt, side, "none", {}), b[1] = note.i,
           f = "betCancel" => amt = bets[b].stake + bets[b].fee,
           f = "partial" => amt = Refund(bets[b].stake, bets[b].fee, bets[b].filled),
           f = "close" => amt = bets[b].soldAtt
    PROVE  Relayed(o)
<1>1. /\ DOMAIN o = {"flow", "ins", "bet", "amt", "side", "for", "open", "sent"}
      /\ o.flow = f /\ o.ins = <<note>> /\ ~o.sent /\ o.sent \in BOOLEAN
      /\ o.bet = b /\ o.amt = amt /\ o.side = side
  BY FlowIs
<1>2. DOMAIN o.ins = {1} /\ o.ins[1] = note
  BY <1>1
<1>3. IsFlow(o)
  BY <1>1, <1>2 DEF IsFlow, Flows, Credits
<1>4. Priced(o)
  BY <1>1, <1>2 DEF Priced
<1> QED BY <1>1, <1>3, <1>4 DEF Relayed, Credits

LEMMA AfterFailureOk ==
    ASSUME NEW o
    PROVE  OpOk(AfterFailure(o))
<1>1. PICK note : note = LargestFirst(Range(o.ins))[1]
  OBVIOUS
<1>2. PICK w : w = Flow("withdraw", <<note>>, NoBet, note.bal, "none", "none", {})
  OBVIOUS
<1>3. OpOk(w)
  BY <1>2, WithdrawFlow
<1>4. AfterFailure(o) \in {w, NoOp}
  BY <1>1, <1>2 DEF AfterFailure
<1> QED BY <1>3, <1>4, NoOpOk

LEMMA NextFlowOk ==
    ASSUME NEW o, IsFlow(o)
    PROVE  OpOk(NextFlow(o))
<1>1. PICK note : note = Output(o)
  OBVIOUS
<1>2. PICK w : w = Flow("withdraw", <<note>>, NoBet, note.bal, "none", "none", {})
  OBVIOUS
<1>3. PICK v : v = Flow("withdraw", <<note>>, NoBet, effectiveWithdrawal(note, o.amt, o.open),
                        "none", "none", o.open)
  OBVIOUS
<1>4. PICK b : b = Flow("bet", <<note>>, NoBet, o.amt, o.side, "none", {})
  OBVIOUS
<1>5. OpOk(w)
  BY <1>2, WithdrawFlow
<1>6. OpOk(v)
  <2>1. PICK amt : amt = effectiveWithdrawal(note, o.amt, o.open)
    OBVIOUS
  <2>2. PICK open : open = o.open
    OBVIOUS
  <2>3. v = Flow("withdraw", <<note>>, NoBet, amt, "none", "none", open)
    BY <1>3, <2>1, <2>2
  <2> QED BY <2>3, WithdrawFlow
<1>7. o.flow = "consolidate" /\ o.for = "bet" => OpOk(b)
  <2> SUFFICES ASSUME o.flow = "consolidate" /\ o.for = "bet" PROVE OpOk(b)
    OBVIOUS
  <2>1. PICK amt \in Stakes, side \in Sides : amt = o.amt /\ side = o.side
    BY DEF IsFlow
  <2>2. b = Flow("bet", <<note>>, NoBet, amt, side, "none", {})
    BY <1>4, <2>1
  <2> QED BY <2>2, BetFlow
<1>8. \/ NextFlow(o) \in {w, v, NoOp}
      \/ o.flow = "consolidate" /\ o.for = "bet" /\ NextFlow(o) = b
  BY <1>1, <1>2, <1>3, <1>4 DEF NextFlow
<1> QED BY <1>5, <1>6, <1>7, <1>8, NoOpOk

\* A transaction that is sent leaves the note the flow computed.
LEMMA SentOk ==
    ASSUME NEW o, ChainInv, ChainInv', Later, Relayed(o), Executes(o),
           NEW p, p = [o EXCEPT !.sent = TRUE]
    PROVE  OpOk(p)'
<1>1. TipInv /\ BetsInv /\ Spendable(o) /\ NewBalance(o) \in Nat
  BY DEF ChainInv, Executes
<1>2. /\ 1 \in DOMAIN o.ins /\ o.ins[1].i \in Indices /\ o.ins[1].n \in Nat
  BY <1>1, InsAre
<1>3. IsFlow(o) /\ o.flow # "deposit"
  BY DEF Relayed
<1>4. /\ DOMAIN p = {"flow", "ins", "bet", "amt", "side", "for", "open", "sent"}
      /\ p.flow = o.flow /\ p.ins = o.ins /\ p.bet = o.bet /\ p.amt = o.amt /\ p.side = o.side
      /\ p.for = o.for /\ p.open = o.open /\ p.sent /\ p.sent \in BOOLEAN
  BY <1>3 DEF IsFlow
<1>5. IsFlow(p)'
  BY <1>3, <1>4 DEF IsFlow, Later
<1>6. NewBalance(p) = NewBalance(o) /\ Output(p) = Output(o)
  BY <1>4 DEF NewBalance, Output
<1>7. NewBalance(p)' = NewBalance(p) /\ Output(p)' = Output(p)
  BY DEF NewBalance, Output
<1>8. PICK x : x = Output(o)
  OBVIOUS
<1>9. ~Drains(o) => Open(x)'
  <2> SUFFICES ASSUME ~Drains(o) PROVE Open(x)'
    OBVIOUS
  <2>1. PICK i \in Indices : i = o.ins[1].i
    BY <1>2
  <2>2. tip'[i] = [n |-> o.ins[1].n + 1, bal |-> NewBalance(o), live |-> TRUE]
    BY <1>1, <2>1, TipStep
  <2>3. x.i = i /\ x.n = o.ins[1].n + 1 /\ x.bal = NewBalance(o)
    BY <1>3, <1>8, <2>1 DEF Output, Cash
  <2>4. x.n = tip'[x.i].n /\ x.bal = tip'[x.i].bal
    BY <2>2, <2>3
  <2> QED BY <2>4 DEF Open
<1>10. o.flow = "bet" => BetOf(o.ins[1]) \in DOMAIN bets'
  <2> SUFFICES ASSUME o.flow = "bet" PROVE BetOf(o.ins[1]) \in DOMAIN bets'
    OBVIOUS
  <2>1. PICK k : k = BetOf(o.ins[1])
    OBVIOUS
  <2>2. bets' = Put(bets, k, NewBet(o))
    BY <2>1, BetsStep
  <2> QED BY <2>1, <2>2 DEF Put
<1>11. Landed(p)'
  BY <1>1, <1>2, <1>4, <1>6, <1>7, <1>8, <1>9, <1>10 DEF Landed, Drains
<1> QED BY <1>3, <1>4, <1>5, <1>11 DEF OpOk

LEMMA Posted ==
    ASSUME NEW s, NEW o, ChainInv, OpInv, Sides \subseteq {"YES"}, Relayed(o), post(s, o)
    PROVE  ChainInv' /\ Later /\ OpInv'
<1>1. CASE Executes(o) /\ op' = [op EXCEPT ![s] = [o EXCEPT !.sent = TRUE]]
  <2>1. ChainInv' /\ Later
    BY <1>1, Transacted
  <2>2. PICK p : p = [o EXCEPT !.sent = TRUE]
    OBVIOUS
  <2>3. OpOk(p)'
    BY <1>1, <2>1, <2>2, SentOk
  <2> QED BY <1>1, <2>1, <2>2, <2>3, OpSet
<1>2. CASE op' = [op EXCEPT ![s] = AfterFailure(o)] /\ UNCHANGED chain
  <2>1. ChainInv' /\ Later
    BY <1>2, ChainStays
  <2>2. PICK p : p = AfterFailure(o)
    OBVIOUS
  <2>3. OpOk(p)
    BY <2>2, AfterFailureOk
  <2>4. OpOk(p)'
    BY <2>1, <2>3, OpKept
  <2> QED BY <1>2, <2>1, <2>2, <2>4, OpSet
<1> QED BY <1>1, <1>2 DEF post

-----------------------------------------------------------------------------
(* Restore: what is recovered is what the chain holds, and all of it.       *)

LEMMA RestoredKept ==
    ASSUME ChainInv, MergedOnce, NEW K \in 0..Len(log), NEW m, m = recoverNotes(RecoveryEvents(K))
    PROVE  Kept(m)
<1>1. PICK S : log \in Seq(S)
  BY DEF ChainInv, HistInv
<1>2. PICK H : IsHistory(H)
  BY DEF ChainInv, HistInv
<1>3. \A x : x \in m <=> \E i \in Indices : DepositedBy(i, K) /\ Holds(H[K][i], x)
  BY <1>1, <1>2, Recovered
<1>4. ASSUME NEW x \in m
      PROVE  \/ x \in BetReceipts /\ BetOf(x) \in DOMAIN bets
             \/ x \in CashNotes /\ Open(x)
  <2>1. PICK i \in Indices : DepositedBy(i, K) /\ Holds(H[K][i], x)
    BY <1>3
  <2>2. PICK h : h = H[K][i]
    OBVIOUS
  <2>3. /\ h.i = i /\ h.n \in Nat /\ h.bal \in Nat
        /\ \A r \in h.receipts : r \in BetReceipts /\ BetOf(r) \in DOMAIN bets
    BY <1>2, <2>2 DEF IsHistory, Typed
  <2>4. CASE x \in h.receipts
    BY <2>3, <2>4
  <2>5. CASE h.live /\ x = Cash(i, h.n, h.bal)
    <3>1. PICK d \in 1..K : log[d].ev = "deposit" /\ log[d].ins[1][1] = i
      BY <2>1 DEF DepositedBy
    <3>2. d \in 1..Len(log)
      BY <1>1
    <3>3. PICK e : e = log[d]
      OBVIOUS
    <3>4. EventOk(H[d - 1], e, d)
      BY <1>2, <3>2, <3>3 DEF IsHistory, EventsInv
    <3>5. \E k \in Indices : e.ins[1] = <<k, 0>> /\ tip[k] # NoNote
      BY <3>1, <3>3, <3>4 DEF EventOk
    <3>6. tip[i] # NoNote
      BY <3>1, <3>3, <3>5
    <3>7. Open(Cash(i, h.n, h.bal))
      BY <1>2, <2>2, <2>5, <3>6 DEF IsHistory, PastInv
    <3>8. x \in CashNotes
      BY <2>3, <2>5 DEF Cash, CashNotes
    <3> QED BY <2>5, <3>7, <3>8
  <2> QED BY <2>1, <2>2, <2>3, <2>4, <2>5 DEF Holds
<1> QED BY <1>4 DEF Kept, CashNotes, BetReceipts

LEMMA RestoredAll ==
    ASSUME ChainInv, MergedOnce, NEW m, m = recoverNotes(RecoveryEvents(Len(log)))
    PROVE  /\ \A i \in Indices : tip[i].live /\ tip[i].bal > 0 =>
                Cash(i, tip[i].n, tip[i].bal) \in m
           /\ \A b \in DOMAIN bets : bets[b].status \notin Terminal =>
                \E r \in getOpenBetReceipts(m) : BetOf(r) = b
<1>1. PICK S : log \in Seq(S)
  BY DEF ChainInv, HistInv
<1>2. PICK H : IsHistory(H)
  BY DEF ChainInv, HistInv
<1>3. PICK K : K = Len(log)
  OBVIOUS
<1>4. K \in 0..Len(log)
  BY <1>1, <1>3
<1>5. \A x : x \in m <=> \E i \in Indices : DepositedBy(i, K) /\ Holds(H[K][i], x)
  BY <1>1, <1>2, <1>3, <1>4, Recovered
<1>6. ASSUME NEW i \in Indices, NEW h, h = H[K][i]
      PROVE  /\ h.i = i
             /\ tip[i] # NoNote => /\ h.n = tip[i].n /\ h.live = tip[i].live /\ DepositedBy(i, K)
                                   /\ h.live => h.bal = tip[i].bal
             /\ \A b \in DOMAIN bets : b[1] = i /\ bets[b].status \notin Terminal =>
                  Receipt(b[1], b[2], "none", FALSE) \in h.receipts
  <2>1. h.i = i
    BY <1>2, <1>4, <1>6 DEF IsHistory, Typed
  <2>2. NowInv(H)
    BY <1>2 DEF IsHistory
  <2> QED BY <1>3, <1>6, <2>1, <2>2 DEF NowInv
<1>7. ASSUME NEW i \in Indices, tip[i].live, tip[i].bal > 0
      PROVE  Cash(i, tip[i].n, tip[i].bal) \in m
  <2>1. tip[i] # NoNote
    BY <1>7 DEF NoNote
  <2>2. PICK h : h = H[K][i]
    OBVIOUS
  <2>3. /\ h.i = i /\ h.n = tip[i].n /\ h.live = tip[i].live /\ DepositedBy(i, K)
        /\ h.live => h.bal = tip[i].bal
    BY <1>6, <2>1, <2>2
  <2>4. Holds(h, Cash(i, tip[i].n, tip[i].bal))
    BY <1>7, <2>3 DEF Holds
  <2> QED BY <1>5, <2>2, <2>3, <2>4
<1>8. ASSUME NEW b \in DOMAIN bets, bets[b].status \notin Terminal
      PROVE  \E r \in getOpenBetReceipts(m) : BetOf(r) = b
  <2>1. b[1] \in Indices /\ b[2] \in Nat /\ b = <<b[1], b[2]>>
    BY DEF ChainInv, BetsInv
  <2>2. tip[b[1]] # NoNote
    <3>1. b[2] < tip[b[1]].n
      BY DEF ChainInv, KeysInv
    <3> QED BY <2>1, <3>1 DEF NoNote
  <2>3. PICK i \in Indices : i = b[1]
    BY <2>1
  <2>4. PICK h : h = H[K][i]
    OBVIOUS
  <2>5. DepositedBy(i, K) /\ Receipt(b[1], b[2], "none", FALSE) \in h.receipts
    BY <1>6, <1>8, <2>2, <2>3, <2>4
  <2>6. PICK r : r = Receipt(b[1], b[2], "none", FALSE)
    OBVIOUS
  <2>7. r \in m
    BY <1>5, <2>4, <2>5, <2>6 DEF Holds
  <2>8. r.kind = "BET_RECEIPT" /\ ~r.spent /\ BetOf(r) = b
    BY <2>1, <2>6 DEF Receipt, BetOf
  <2> QED BY <2>7, <2>8 DEF getOpenBetReceipts
<1> QED BY <1>7, <1>8

LEMMA MinIn ==
    ASSUME NEW U \in SUBSET Nat, U # {}
    PROVE  Min(U) \in U /\ \A m \in U : Min(U) <= m
<1>1. PICK n \in U : \A m \in U : n <= m
  BY Least
<1> QED BY <1>1 DEF Min

LEMMA MaxAbove ==
    ASSUME NEW x \in Int
    PROVE  Max({0, x}) \in Nat
<1>1. \E y \in {0, x} : \A z \in {0, x} : y >= z
  <2>1. CASE x >= 0
    BY <2>1
  <2>2. CASE ~(x >= 0)
    BY <2>2
  <2> QED BY <2>1, <2>2
<1>2. /\ Max({0, x}) \in {0, x}
      /\ \A z \in {0, x} : Max({0, x}) >= z
  BY <1>1 DEF Max
<1> QED BY <1>2

LEMMA HeadsAre ==
    ASSUME ChainInv, NEW k \in IndexHeads
    PROVE  k \in 0..Len(log)
<1>1. Len(log) \in Nat
  BY DEF ChainInv, HistInv
<1>2. Max({0, Len(log) - MaxLag}) \in Nat
  <2>1. Len(log) - MaxLag \in Int
    BY <1>1, WalletAssumption
  <2> QED BY <2>1, MaxAbove
<1> QED BY <1>1, <1>2 DEF IndexHeads

-----------------------------------------------------------------------------
(* Every step keeps the invariant.                                         *)

LEMMA InvIs ==
    Inv <=> ChainInv /\ CacheInv /\ OpInv /\ tabs \in Sessions
  BY DEF Inv, ChainInv

LEMMA InvNext ==
    ASSUME ChainInv', CacheInv', OpInv', tabs' \in Sessions
    PROVE  Inv'
  BY DEF Inv, ChainInv

LEMMA TabIs ==
    ASSUME Inv, NEW s \in 1..tabs
    PROVE  s \in Sessions /\ OpOk(op[s]) /\ Kept(mem[s])
<1>1. tabs \in 1..MaxTabs /\ MaxTabs \in Nat
  BY WalletAssumption DEF Inv, Sessions
<1>2. s \in Sessions
  BY <1>1 DEF Sessions
<1> QED BY <1>2 DEF Inv, OpInv, CacheInv

LEMMA SendsKeeps ==
    ASSUME Inv, Sides \subseteq {"YES"}, NEW s, NEW o, Relayed(o), Sends(s, o)
    PROVE  ChainInv' /\ Later /\ OpInv' /\ tabs' \in Sessions
<1>1. post(s, o) /\ tabs' = tabs
  BY DEF Sends, bounds
<1>2. ChainInv /\ OpInv /\ tabs \in Sessions
  BY InvIs
<1>3. ChainInv' /\ Later /\ OpInv'
  BY <1>1, <1>2, Posted
<1> QED BY <1>1, <1>2, <1>3

LEMMA SavedIfChanged ==
    ASSUME CacheInv, Later, NEW s \in Sessions, NEW m \in Reconciles(mem[s]), SaveIfChanged(s, m)
    PROVE  CacheInv'
<1>1. PICK c : c = mem[s]
  OBVIOUS
<1>2. Kept(c) /\ m \in Reconciles(c)
  BY <1>1 DEF CacheInv
<1>3. Kept(m)
  BY <1>2, ReconciledKept
<1>4. Kept(m)'
  BY <1>3, KeptLater
<1>5. UNCHANGED <<mem, disk>> \/ Save(s, m)
  BY DEF SaveIfChanged
<1> QED BY <1>4, <1>5, CacheSaved, CacheStays

\* A step that leaves the chain alone.
LEMMA Quiet ==
    ASSUME Inv, UNCHANGED <<chain, tabs>>
    PROVE  ChainInv' /\ Later /\ tabs' \in Sessions
  BY InvIs, ChainStays

\* A tab writes what it keeps, and the chain and the flows stay.
LEMMA SaveKeeps ==
    ASSUME Inv, UNCHANGED <<chain, op, tabs>>, NEW s, NEW m, Kept(m), Save(s, m)
    PROVE  Inv'
<1>1. ChainInv' /\ Later /\ tabs' \in Sessions
  BY Quiet
<1>2. Kept(m)'
  BY <1>1, KeptLater
<1>3. CacheInv' /\ OpInv'
  BY <1>1, <1>2, InvIs, CacheSaved, OpsStay
<1> QED BY <1>1, <1>3, InvNext

LEMMA ReconcileKeeps ==
    ASSUME Inv, NEW s \in 1..tabs, reconcileSpentStatus(s)
    PROVE  Inv'
<1>1. PICK m : m = Reconciled(mem[s])
  OBVIOUS
<1>2. Kept(m)
  BY <1>1, TabIs, ReconciledKept
<1>3. Save(s, m) /\ UNCHANGED <<chain, op, tabs>>
  BY <1>1 DEF reconcileSpentStatus, bounds
<1> QED BY <1>2, <1>3, SaveKeeps

LEMMA RetireKeeps ==
    ASSUME Inv, NEW s \in 1..tabs, retireReceipts(s)
    PROVE  Inv'
<1>1. PICK keys : Save(s, markBetReceiptSpent(mem[s], keys)) /\ UNCHANGED <<chain, op, tabs>>
  BY DEF retireReceipts, bounds
<1>2. PICK m : m = markBetReceiptSpent(mem[s], keys)
  OBVIOUS
<1>3. Kept(m)
  BY <1>2, TabIs, ReceiptsSpentKept
<1> QED BY <1>1, <1>2, <1>3, SaveKeeps

LEMMA RecoverKeeps ==
    ASSUME Inv, MergedOnce, NEW s \in 1..tabs, NEW k \in IndexHeads, handleRecover(s, k)
    PROVE  Inv'
<1>1. ChainInv
  BY InvIs
<1>2. k \in 0..Len(log)
  BY <1>1, HeadsAre
<1>3. PICK m : m = recoverNotes(RecoveryEvents(k))
  OBVIOUS
<1>4. Kept(m)
  BY <1>1, <1>2, <1>3, RestoredKept
<1>5. Save(s, m) /\ UNCHANGED <<chain, op, tabs>>
  BY <1>3 DEF handleRecover, bounds
<1> QED BY <1>4, <1>5, SaveKeeps

LEMMA HydrateKeeps ==
    ASSUME Inv, NEW s \in 1..tabs, hydrateCache(s)
    PROVE  Inv'
<1>1. ChainInv' /\ Later /\ tabs' \in Sessions
  BY Quiet DEF hydrateCache
<1>2. PICK d \in readEncrypted : Save(s, Healed(Reconciled(d)))
  BY DEF hydrateCache
<1>3. PICK c : c = disk
  OBVIOUS
<1>4. Kept(c) /\ d \in {c, {}}
  BY <1>3 DEF Inv, CacheInv, readEncrypted
<1>5. Kept(d)
  BY <1>4, KeptEmpty
<1>6. PICK p : p = Reconciled(d)
  OBVIOUS
<1>7. Kept(p)
  BY <1>5, <1>6, ReconciledKept
<1>8. PICK m : m = Healed(p)
  OBVIOUS
<1>9. Kept(m)
  BY <1>7, <1>8, HealedKept
<1>10. Kept(m)'
  BY <1>1, <1>9, KeptLater
<1>11. CacheInv'
  BY <1>1, <1>2, <1>6, <1>8, <1>10, InvIs, CacheSaved
<1>12. op' = [op EXCEPT ![s] = NoOp]
  BY DEF hydrateCache
<1>13. OpInv'
  <2>1. PICK o : o = NoOp
    OBVIOUS
  <2>2. OpOk(o)'
    BY <1>1, <2>1, NoOpOk, OpKept
  <2> QED BY <1>1, <1>12, <2>1, <2>2, InvIs, OpSet
<1> QED BY <1>1, <1>11, <1>13, InvNext

LEMMA ConnectKeeps ==
    ASSUME Inv, NEW s \in 1..tabs, WalletConnect(s)
    PROVE  Inv'
<1>1. PICK m : m = {}
  OBVIOUS
<1>2. Kept(m)
  BY <1>1, KeptEmpty
<1>3. UNCHANGED <<chain, op, tabs>>
  BY DEF WalletConnect
<1>4. Save(s, m)
  BY <1>1 DEF WalletConnect, resetAllLocalState, Save
<1> QED BY <1>2, <1>3, <1>4, SaveKeeps

\* A tab moves its flow on; the caches stay.
LEMMA FlowKeeps ==
    ASSUME Inv, UNCHANGED <<chain, mem, disk, tabs>>, NEW s, NEW o, OpOk(o),
           op' = [op EXCEPT ![s] = o]
    PROVE  Inv'
<1>1. ChainInv' /\ Later /\ tabs' \in Sessions
  BY Quiet
<1>2. OpOk(o)'
  BY <1>1, OpKept
<1>3. CacheInv' /\ OpInv'
  BY <1>1, <1>2, InvIs, CacheStays, OpSet
<1> QED BY <1>1, <1>3, InvNext

LEMMA DepositStartsKeeps ==
    ASSUME Inv, NEW s \in 1..tabs, depositStarts(s)
    PROVE  Inv'
<1>1. PICK from \in getSafeNextDepositIndex :
        LET fresh == {i \in Indices : i >= from /\ i + tabs <= MaxWidth /\ ~SpentOnChain(i, 0)} IN
        /\ fresh # {}
        /\ op' = [op EXCEPT ![s] = Flow("deposit", <<Cash(Min(fresh), 0, 0)>>, NoBet,
                                        DepositAmount, "none", "none", {})]
  BY DEF depositStarts
<1>2. PICK fresh :
        fresh = {i \in Indices : i >= from /\ i + tabs <= MaxWidth /\ ~SpentOnChain(i, 0)}
  OBVIOUS
<1>3. fresh # {} /\ fresh \subseteq Indices /\ Indices \subseteq Nat
  BY <1>1, <1>2, WalletAssumption
<1>4. PICK i : i = Min(fresh)
  OBVIOUS
<1>5. i \in Indices
  BY <1>3, <1>4, MinIn
<1>6. PICK o : o = Flow("deposit", <<Cash(i, 0, 0)>>, NoBet, DepositAmount, "none", "none", {})
  OBVIOUS
<1>7. op' = [op EXCEPT ![s] = o]
  BY <1>1, <1>2, <1>4, <1>6
<1>8. /\ DOMAIN o = {"flow", "ins", "bet", "amt", "side", "for", "open", "sent"}
      /\ o.flow = "deposit" /\ o.ins = <<Cash(i, 0, 0)>> /\ o.amt = DepositAmount
      /\ ~o.sent /\ o.sent \in BOOLEAN
  BY <1>6, FlowIs
<1>9. IsFlow(o) /\ Depositing(o)
  BY <1>5, <1>8 DEF IsFlow, Depositing, Flows, Credits
<1>10. OpOk(o)
  BY <1>8, <1>9 DEF OpOk
<1>11. UNCHANGED <<chain, mem, disk, tabs>>
  BY DEF depositStarts, bounds, cache
<1> QED BY <1>7, <1>10, <1>11, FlowKeeps

LEMMA RejectedKeeps ==
    ASSUME Inv, NEW s \in 1..tabs, depositRejected(s)
    PROVE  Inv'
<1>1. PICK o : o = NoOp
  OBVIOUS
<1>2. OpOk(o)
  BY <1>1, NoOpOk
<1>3. op' = [op EXCEPT ![s] = o] /\ UNCHANGED <<chain, mem, disk, tabs>>
  BY <1>1 DEF depositRejected, bounds, cache
<1> QED BY <1>2, <1>3, FlowKeeps

LEMMA WaitKeeps ==
    ASSUME Inv, NEW s \in 1..tabs, waitForTransactionConfirmation(s)
    PROVE  Inv'
<1>1. PICK p : p = op[s]
  OBVIOUS
<1>2. PICK o : o = AfterFailure(p)
  OBVIOUS
<1>3. OpOk(o)
  BY <1>2, AfterFailureOk
<1>4. op' = [op EXCEPT ![s] = o] /\ UNCHANGED <<chain, mem, disk, tabs>>
  BY <1>1, <1>2 DEF waitForTransactionConfirmation, cache
<1> QED BY <1>3, <1>4, FlowKeeps

LEMMA DepositKeeps ==
    ASSUME Inv, NEW s \in 1..tabs, doDeposit(s)
    PROVE  Inv'
<1>1. PICK o : o = op[s]
  OBVIOUS
<1>2. OpOk(o) /\ o.flow = "deposit" /\ ~o.sent /\ Deposits(o)
  BY <1>1, TabIs DEF doDeposit
<1>3. IsFlow(o) /\ Depositing(o)
  BY <1>2 DEF OpOk
<1>4. ChainInv /\ CacheInv /\ OpInv /\ tabs \in Sessions
  BY InvIs
<1>5. ChainInv' /\ Later /\ tip'[o.ins[1].i] # NoNote
  BY <1>2, <1>3, <1>4, Deposited1
<1>6. UNCHANGED <<mem, disk, tabs>>
  BY DEF doDeposit, cache, bounds
<1>7. CacheInv'
  BY <1>4, <1>5, <1>6, CacheStays
<1>8. PICK p : p = [o EXCEPT !.sent = TRUE]
  OBVIOUS
<1>9. DOMAIN op = Sessions /\ s \in Sessions
  BY <1>4, TabIs DEF OpInv
<1>10. op' = [op EXCEPT ![s] = p]
  BY <1>1, <1>8 DEF doDeposit
<1>11. /\ DOMAIN p = DOMAIN o /\ p.flow = o.flow /\ p.ins = o.ins /\ p.amt = o.amt
       /\ p.sent
  BY <1>3, <1>8 DEF IsFlow
<1>12. p.sent \in BOOLEAN
  BY <1>3, <1>8 DEF IsFlow
<1>13. DOMAIN o = {"flow", "ins", "bet", "amt", "side", "for", "open", "sent"}
  BY <1>3 DEF IsFlow
<1>14. DOMAIN o.ins = {1}
  BY <1>2, <1>3 DEF IsFlow
<1>15. IsFlow(p)'
  BY <1>2, <1>11, <1>12, <1>13, <1>14 DEF IsFlow, Flows, Credits
<1>16. Depositing(p)'
  <2>1. PICK i \in Indices : o.ins = <<Cash(i, 0, 0)>> /\ o.amt = DepositAmount
    BY <1>3 DEF Depositing
  <2>2. o.ins[1].i = i
    BY <2>1 DEF Cash
  <2>3. tip'[i] # NoNote
    BY <1>5, <2>2
  <2> QED BY <1>11, <2>1, <2>3 DEF Depositing
<1>17. OpOk(p)'
  BY <1>2, <1>11, <1>15, <1>16 DEF OpOk
<1>18. OpInv'
  BY <1>4, <1>5, <1>10, <1>17, OpSet
<1> QED BY <1>4, <1>5, <1>6, <1>7, <1>18, InvNext

LEMMA DepositConfirmedKeeps ==
    ASSUME Inv, NEW s \in 1..tabs, depositConfirmed(s)
    PROVE  Inv'
<1>1. PICK o : o = op[s]
  OBVIOUS
<1>2. OpOk(o) /\ o.flow = "deposit" /\ o.sent
  BY <1>1, TabIs DEF depositConfirmed
<1>3. PICK i \in Indices : o.ins = <<Cash(i, 0, 0)>> /\ o.amt = DepositAmount /\ tip[i] # NoNote
  BY <1>2 DEF OpOk, Depositing
<1>4. PICK x : x = Output(o)
  OBVIOUS
<1>5. x = Cash(i, 0, DepositAmount)
  BY <1>2, <1>3, <1>4 DEF Output, NewBalance, Cash
<1>6. x.i = i /\ x.n = 0 /\ x.bal = DepositAmount /\ x \in CashNotes
  BY <1>5, WalletAssumption DEF Cash, CashNotes
<1>7. tip[i].n \in Nat /\ (tip[i].n = 0 /\ tip[i].live => tip[i].bal = DepositAmount)
  BY <1>3 DEF Inv, TipInv
<1>8. Open(x)
  BY <1>6, <1>7 DEF Open
<1>9. PICK c : c = mem[s]
  OBVIOUS
<1>10. PICK m : m = addNote(c, x)
  OBVIOUS
<1>11. Kept(m)
  BY <1>6, <1>8, <1>9, <1>10, TabIs, NoteAdded
<1>12. ChainInv' /\ Later /\ tabs' \in Sessions
  BY Quiet DEF depositConfirmed, bounds
<1>13. Kept(m)'
  BY <1>11, <1>12, KeptLater
<1>14. Save(s, m)
  BY <1>1, <1>4, <1>9, <1>10 DEF depositConfirmed
<1>15. CacheInv'
  BY <1>12, <1>13, <1>14, InvIs, CacheSaved
<1>16. PICK p : p = NoOp
  OBVIOUS
<1>17. op' = [op EXCEPT ![s] = p]
  BY <1>16 DEF depositConfirmed
<1>18. OpOk(p)'
  BY <1>12, <1>16, NoOpOk, OpKept
<1>19. OpInv'
  BY <1>12, <1>17, <1>18, InvIs, OpSet
<1> QED BY <1>12, <1>15, <1>19, InvNext

LEMMA ConfirmedKeeps ==
    ASSUME Inv, NEW s \in 1..tabs, confirmed(s)
    PROVE  Inv'
<1>1. PICK o : o = op[s]
  OBVIOUS
<1>2. OpOk(o) /\ o.flow # "none" /\ o.flow # "deposit" /\ o.sent
  BY <1>1, TabIs DEF confirmed, Idle
<1>3. IsFlow(o) /\ Landed(o)
  BY <1>2 DEF OpOk
<1>4. PICK c : c = mem[s]
  OBVIOUS
<1>5. PICK m : m = Cached(c, o)
  OBVIOUS
<1>6. Sides \subseteq AnySide /\ BetsInv /\ Kept(c)
  BY <1>4, TabIs, WalletAssumption DEF AnySide, Inv
<1>7. Kept(m)
  BY <1>2, <1>3, <1>5, <1>6, CachedKept
<1>8. ChainInv' /\ Later /\ tabs' \in Sessions
  BY Quiet DEF confirmed, bounds
<1>9. Kept(m)'
  BY <1>7, <1>8, KeptLater
<1>10. Save(s, m)
  BY <1>1, <1>4, <1>5 DEF confirmed
<1>11. CacheInv'
  BY <1>8, <1>9, <1>10, InvIs, CacheSaved
<1>12. PICK p : p = NextFlow(o)
  OBVIOUS
<1>13. op' = [op EXCEPT ![s] = p]
  BY <1>1, <1>12 DEF confirmed
<1>14. OpOk(p)
  BY <1>3, <1>12, NextFlowOk
<1>15. OpOk(p)'
  BY <1>8, <1>14, OpKept
<1>16. OpInv'
  BY <1>8, <1>13, <1>15, InvIs, OpSet
<1> QED BY <1>8, <1>11, <1>16, InvNext

\* A tab relays a flow, which the Vault executes or not.
LEMMA RelayKeeps ==
    ASSUME Inv, Sides \subseteq {"YES"}, NEW s, NEW o, Relayed(o), Sends(s, o),
           UNCHANGED <<mem, disk>>
    PROVE  Inv'
<1>1. ChainInv' /\ Later /\ OpInv' /\ tabs' \in Sessions
  BY SendsKeeps
<1>2. CacheInv'
  BY <1>1, InvIs, CacheStays
<1> QED BY <1>1, <1>2, InvNext

LEMMA RelayReconciledKeeps ==
    ASSUME Inv, Sides \subseteq {"YES"}, NEW s \in 1..tabs, NEW o, Relayed(o), Sends(s, o),
           NEW m \in Reconciles(mem[s]), SaveIfChanged(s, m)
    PROVE  Inv'
<1>1. ChainInv' /\ Later /\ OpInv' /\ tabs' \in Sessions
  BY SendsKeeps
<1>2. CacheInv'
  BY <1>1, InvIs, TabIs, SavedIfChanged
<1> QED BY <1>1, <1>2, InvNext

LEMMA MergedKeeps ==
    ASSUME Inv, Sides \subseteq {"YES"}, NEW s \in 1..tabs, relayMerged(s)
    PROVE  Inv'
<1>1. PICK o : o = op[s]
  OBVIOUS
<1>2. /\ OpOk(o) /\ o.flow # "none" /\ o.flow # "deposit" /\ ~o.sent /\ Sends(s, o)
      /\ UNCHANGED <<mem, disk>>
  BY <1>1, TabIs DEF relayMerged, Idle
<1>3. Relayed(o)
  BY <1>2 DEF OpOk, Relayed, Priced, Credits
<1> QED BY <1>2, <1>3, RelayKeeps

LEMMA BetKeeps ==
    ASSUME Inv, Sides \subseteq {"YES"}, NEW s \in 1..tabs, betStarts(s)
    PROVE  Inv'
<1>1. PICK m \in Reconciles(mem[s]) :
        /\ \E stake \in Stakes, side \in Sides :
             LET cost == stake + ProtocolFee
                 note == getCurrentCashNote(m)
                 picked == selectNotesForAmount(m, cost, OpenDeposits(m), -1)
             IN  IF note.bal >= cost
                 THEN Sends(s, Flow("bet", <<note>>, NoBet, stake, side, "none", {}))
                 ELSE Sends(s, Flow("consolidate", picked, NoBet, stake, side, "bet", {}))
        /\ SaveIfChanged(s, m)
  BY DEF betStarts
<1>2. PICK stake \in Stakes, side \in Sides :
        \/ Sends(s, Flow("bet", <<getCurrentCashNote(m)>>, NoBet, stake, side, "none", {}))
        \/ Sends(s, Flow("consolidate",
                         selectNotesForAmount(m, stake + ProtocolFee, OpenDeposits(m), -1),
                         NoBet, stake, side, "bet", {}))
  BY <1>1
<1>3. PICK note, picked :
        /\ note = getCurrentCashNote(m)
        /\ picked = selectNotesForAmount(m, stake + ProtocolFee, OpenDeposits(m), -1)
  OBVIOUS
<1>4. PICK a, b : /\ a = Flow("bet", <<note>>, NoBet, stake, side, "none", {})
                  /\ b = Flow("consolidate", picked, NoBet, stake, side, "bet", {})
  OBVIOUS
<1>5. Relayed(a)
  BY <1>4, BetFlow
<1>6. Relayed(b)
  BY <1>4, MergeFlow
<1>7. Sends(s, a) \/ Sends(s, b)
  BY <1>2, <1>3, <1>4
<1> QED BY <1>1, <1>5, <1>6, <1>7, RelayReconciledKeeps

LEMMA WithdrawKeeps ==
    ASSUME Inv, Sides \subseteq {"YES"}, NEW s \in 1..tabs, withdrawStarts(s)
    PROVE  Inv'
<1>1. PICK open : open = OpenDeposits(mem[s])
  OBVIOUS
<1>2. PICK note : note = getCurrentCashNote(mem[s])
  OBVIOUS
<1>3. PICK m \in Reconciles(mem[s]) :
        /\ \E amt \in Withdrawals :
             LET picked == selectNotesForAmount(m, amt, open, note.i) IN
             IF amt <= note.bal
             THEN Sends(s, Flow("withdraw", <<note>>, NoBet,
                                effectiveWithdrawal(note, amt, open), "none", "none", open))
             ELSE Sends(s, Flow("consolidate", picked, NoBet, amt, "none", "withdraw", open))
        /\ SaveIfChanged(s, m)
  BY <1>1, <1>2 DEF withdrawStarts
<1>4. PICK amt \in Withdrawals :
        \/ Sends(s, Flow("withdraw", <<note>>, NoBet,
                         effectiveWithdrawal(note, amt, open), "none", "none", open))
        \/ Sends(s, Flow("consolidate", selectNotesForAmount(m, amt, open, note.i), NoBet, amt,
                         "none", "withdraw", open))
  BY <1>3
<1>5. PICK eff, picked : /\ eff = effectiveWithdrawal(note, amt, open)
                         /\ picked = selectNotesForAmount(m, amt, open, note.i)
  OBVIOUS
<1>6. PICK a, b : /\ a = Flow("withdraw", <<note>>, NoBet, eff, "none", "none", open)
                  /\ b = Flow("consolidate", picked, NoBet, amt, "none", "withdraw", open)
  OBVIOUS
<1>7. Relayed(a)
  BY <1>6, WithdrawFlow
<1>8. PICK for : for = "withdraw"
  OBVIOUS
<1>9. Relayed(b)
  BY <1>6, <1>8, MergeFlow
<1>10. Sends(s, a) \/ Sends(s, b)
  BY <1>4, <1>5, <1>6
<1> QED BY <1>3, <1>7, <1>9, <1>10, RelayReconciledKeeps

LEMMA ClearKeeps ==
    ASSUME Inv, Sides \subseteq {"YES"}, NEW s \in 1..tabs, withdrawClearLineages(s)
    PROVE  Inv'
<1>1. PICK m \in Reconciles(mem[s]) :
        /\ LET open == OpenDeposits(m)
               clear == {x \in getFreeNotes(m) : x.i \notin open}
               target == TopSum(clear, MAX_CONSOLIDATE_INPUTS)
               note == LargestFirst(clear)[1]
           IN  \/ Sends(s, Flow("consolidate", selectNotesForAmount(m, target, open, note.i),
                                NoBet, target, "none", "clear", {}))
               \/ Sends(s, Flow("withdraw", <<note>>, NoBet, note.bal, "none", "none", {}))
        /\ SaveIfChanged(s, m)
  BY DEF withdrawClearLineages
<1>2. PICK open, clear, target, note :
        /\ open = OpenDeposits(m)
        /\ clear = {x \in getFreeNotes(m) : x.i \notin open}
        /\ target = TopSum(clear, MAX_CONSOLIDATE_INPUTS)
        /\ note = LargestFirst(clear)[1]
  OBVIOUS
<1>3. PICK picked, bal : picked = selectNotesForAmount(m, target, open, note.i) /\ bal = note.bal
  OBVIOUS
<1>4. PICK a, b : /\ a = Flow("withdraw", <<note>>, NoBet, bal, "none", "none", {})
                  /\ b = Flow("consolidate", picked, NoBet, target, "none", "clear", {})
  OBVIOUS
<1>5. PICK keeps : keeps = {}
  OBVIOUS
<1>6. Relayed(a)
  BY <1>4, <1>5, WithdrawFlow
<1>7. PICK for : for = "clear"
  OBVIOUS
<1>8. Relayed(b)
  BY <1>4, <1>7, MergeFlow
<1>9. Sends(s, a) \/ Sends(s, b)
  BY <1>1, <1>2, <1>3, <1>4
<1> QED BY <1>1, <1>6, <1>8, <1>9, RelayReconciledKeeps

\* A claim is for a bet the tab has a receipt of, and is paid to the bet's own lineage.
LEMMA CreditKeeps ==
    ASSUME Inv, Sides \subseteq {"YES"}, NEW s \in 1..tabs, NEW r \in getOpenBetReceipts(mem[s]),
           NEW f \in Credits, NEW amt, NEW b, b = BetOf(r), CreditStarts(s, r, f, amt),
           f = "betCancel" => amt = bets[b].stake + bets[b].fee,
           f = "partial" => amt = Refund(bets[b].stake, bets[b].fee, bets[b].filled),
           f = "close" => amt = bets[b].soldAtt
    PROVE  Inv'
<1>1. PICK c : c = mem[s]
  OBVIOUS
<1>2. Kept(c) /\ r \in c /\ r.kind = "BET_RECEIPT"
  BY <1>1, TabIs DEF getOpenBetReceipts
<1>3. r \in BetReceipts /\ b \in DOMAIN bets
  BY <1>2 DEF Kept, CashNotes
<1>4. PICK side : side = r.side
  OBVIOUS
<1>5. side \in AnySide /\ b[1] = r.i
  BY <1>3, <1>4 DEF BetReceipts, BetOf
<1>6. PICK note \in getFreeNoteForDeposit(c, r.i) :
        Sends(s, Flow(f, <<note>>, b, amt, side, "none", {})) /\ UNCHANGED <<mem, disk>>
  BY <1>1, <1>4 DEF CreditStarts
<1>7. note.i = r.i
  BY <1>6 DEF getFreeNoteForDeposit
<1>8. PICK o : o = Flow(f, <<note>>, b, amt, side, "none", {})
  OBVIOUS
<1>9. Relayed(o)
  BY <1>3, <1>5, <1>7, <1>8, CreditFlow
<1>10. Sends(s, o) /\ UNCHANGED <<mem, disk>>
  BY <1>6, <1>8
<1> QED BY <1>9, <1>10, RelayKeeps

LEMMA ClaimsKeep ==
    ASSUME Inv, Sides \subseteq {"YES"}, NEW s \in 1..tabs,
           \/ settlePosition(s) \/ closeLosses(s) \/ BetCancelRefund(s)
           \/ creditFailedReclaim(s) \/ finalizePartialFill(s) \/ finalizeClose(s)
    PROVE  Inv'
<1>1. CASE settlePosition(s) \/ closeLosses(s)
  <2>1. PICK f \in Credits : f = "settle"
    BY DEF Credits
  <2>2. PICK r \in getOpenBetReceipts(mem[s]) :
          CreditStarts(s, r, f, ClaimAmount(r)) \/ CreditStarts(s, r, f, 0)
    BY <1>1, <2>1 DEF settlePosition, closeLosses
  <2>3. PICK amt : CreditStarts(s, r, f, amt)
    BY <2>2
  <2>4. PICK b : b = BetOf(r)
    OBVIOUS
  <2>5. f \notin {"betCancel", "partial", "close"}
    BY <2>1
  <2> QED BY <2>3, <2>4, <2>5, CreditKeeps
<1>2. CASE BetCancelRefund(s) \/ creditFailedReclaim(s)
  <2>1. PICK f \in Credits : f = "betCancel"
    BY DEF Credits
  <2>2. PICK r \in getOpenBetReceipts(mem[s]) :
          CreditStarts(s, r, f, bets[BetOf(r)].stake + bets[BetOf(r)].fee)
    BY <1>2, <2>1 DEF BetCancelRefund, creditFailedReclaim
  <2>3. PICK b : b = BetOf(r)
    OBVIOUS
  <2>4. PICK amt : amt = bets[b].stake + bets[b].fee
    OBVIOUS
  <2>5. CreditStarts(s, r, f, amt)
    BY <2>2, <2>3, <2>4
  <2>6. f \notin {"partial", "close"}
    BY <2>1
  <2> QED BY <2>3, <2>4, <2>5, <2>6, CreditKeeps
<1>3. CASE finalizePartialFill(s)
  <2>1. PICK f \in Credits : f = "partial"
    BY DEF Credits
  <2>2. PICK r \in getOpenBetReceipts(mem[s]) :
          CreditStarts(s, r, f, Refund(bets[BetOf(r)].stake, bets[BetOf(r)].fee,
                                       bets[BetOf(r)].filled))
    BY <1>3, <2>1 DEF finalizePartialFill
  <2>3. PICK b : b = BetOf(r)
    OBVIOUS
  <2>4. PICK amt : amt = Refund(bets[b].stake, bets[b].fee, bets[b].filled)
    OBVIOUS
  <2>5. CreditStarts(s, r, f, amt)
    BY <2>2, <2>3, <2>4
  <2>6. f \notin {"betCancel", "close"}
    BY <2>1
  <2> QED BY <2>3, <2>4, <2>5, <2>6, CreditKeeps
<1>4. CASE finalizeClose(s)
  <2>1. PICK f \in Credits : f = "close"
    BY DEF Credits
  <2>2. PICK r \in getOpenBetReceipts(mem[s]) : CreditStarts(s, r, f, bets[BetOf(r)].soldAtt)
    BY <1>4, <2>1 DEF finalizeClose
  <2>3. PICK b : b = BetOf(r)
    OBVIOUS
  <2>4. PICK amt : amt = bets[b].soldAtt
    OBVIOUS
  <2>5. CreditStarts(s, r, f, amt)
    BY <2>2, <2>3, <2>4
  <2>6. f \notin {"betCancel", "partial"}
    BY <2>1
  <2> QED BY <2>3, <2>4, <2>5, <2>6, CreditKeeps
<1> QED BY <1>1, <1>2, <1>3, <1>4

LEMMA OperatorKeeps ==
    ASSUME Inv, attests \/ attestsSale \/ resolves
    PROVE  Inv'
<1>1. UNCHANGED <<mem, disk, op, tabs>>
  BY DEF attests, attestsSale, resolves, cache, bounds
<1>2. ChainInv' /\ Later
  BY InvIs, OthersKeep
<1>3. CacheInv' /\ OpInv' /\ tabs' \in Sessions
  BY <1>1, <1>2, InvIs, CacheStays, OpsStay
<1> QED BY <1>2, <1>3, InvNext

LEMMA StutterKeeps ==
    ASSUME Inv, UNCHANGED vars
    PROVE  Inv'
<1>1. UNCHANGED <<chain, mem, disk, op, tabs>>
  BY DEF vars, cache, bounds
<1>2. ChainInv' /\ Later /\ tabs' \in Sessions
  BY <1>1, Quiet
<1>3. CacheInv' /\ OpInv'
  BY <1>1, <1>2, InvIs, CacheStays, OpsStay
<1> QED BY <1>2, <1>3, InvNext

LEMMA NextKeeps ==
    ASSUME Inv, Sides \subseteq {"YES"}, MergedOnce, [Next]_vars
    PROVE  Inv'
<1>1. CASE \E s \in 1..tabs :
             \/ reconcileSpentStatus(s) \/ retireReceipts(s) \/ hydrateCache(s)
             \/ WalletConnect(s) \/ \E k \in IndexHeads : handleRecover(s, k)
  BY <1>1, ReconcileKeeps, RetireKeeps, HydrateKeeps, ConnectKeeps, RecoverKeeps
<1>2. CASE \E s \in 1..tabs :
             \/ depositStarts(s) \/ doDeposit(s) \/ depositRejected(s) \/ depositConfirmed(s)
             \/ confirmed(s) \/ waitForTransactionConfirmation(s)
  BY <1>2, DepositStartsKeeps, DepositKeeps, RejectedKeeps, DepositConfirmedKeeps,
     ConfirmedKeeps, WaitKeeps
<1>3. CASE \E s \in 1..tabs :
             \/ betStarts(s) \/ withdrawStarts(s) \/ withdrawClearLineages(s) \/ relayMerged(s)
  BY <1>3, BetKeeps, WithdrawKeeps, ClearKeeps, MergedKeeps
<1>4. CASE \E s \in 1..tabs :
             \/ settlePosition(s) \/ closeLosses(s) \/ BetCancelRefund(s)
             \/ creditFailedReclaim(s) \/ finalizePartialFill(s) \/ finalizeClose(s)
  BY <1>4, ClaimsKeep
<1>5. CASE attests \/ attestsSale \/ resolves
  BY <1>5, OperatorKeeps
<1>6. CASE UNCHANGED vars
  BY <1>6, StutterKeeps
<1> QED BY <1>1, <1>2, <1>3, <1>4, <1>5, <1>6 DEF Next

LEMMA StartIs ==
    ASSUME NEW i \in Indices, NEW h, h = Start(i)
    PROVE  /\ IsLineage(h) /\ h.i = i /\ h.n = 0 /\ h.n \in Nat /\ h.bal = DepositAmount
           /\ h.bal \in Nat /\ h.live /\ h.live \in BOOLEAN /\ h.receipts = {}
  BY WalletAssumption DEF Start, IsLineage

LEMMA InitInv ==
    ASSUME Init
    PROVE  Inv
<1>1. /\ log = <<>> /\ bets = <<>> /\ \A i \in Indices : tip[i] = NoNote
      /\ tip = [i \in Indices |-> NoNote]
  BY DEF Init
<1>2. DOMAIN bets = {} /\ Len(log) = 0
  BY <1>1
<1>3. TipInv
  BY <1>1 DEF TipInv, NoNote
<1>4. BetsInv /\ KeysInv
  BY <1>2 DEF BetsInv, KeysInv
<1>5. PICK H : H = [j \in {0} |-> [i \in Indices |-> Start(i)]]
  OBVIOUS
<1>6. \A i \in Indices : H[0][i] = Start(i)
  BY <1>5
<1>7. IsHistory(H)
  <2>1. 1..Len(log) = {} /\ 0..Len(log) = {0}
    BY <1>2
  <2>2. Steps(H)
    BY <1>6, <2>1 DEF Steps
  <2>3. ASSUME NEW i \in Indices, NEW h, h = H[0][i]
        PROVE  /\ IsLineage(h) /\ h.i = i /\ h.n = 0 /\ h.n \in Nat /\ h.bal = DepositAmount
               /\ h.bal \in Nat /\ h.live /\ h.live \in BOOLEAN /\ h.receipts = {}
    BY <1>6, <2>3, StartIs
  <2>4. Typed(H)
    BY <2>1, <2>3 DEF Typed
  <2>5. EventsInv(H)
    BY <2>1 DEF EventsInv
  <2>6. NowInv(H)
    BY <1>1, <1>2, <2>3 DEF NowInv
  <2>7. PastInv(H)
    BY <1>1, <2>1, <2>3 DEF PastInv
  <2>8. RecallInv(H)
    BY <1>2 DEF RecallInv
  <2> QED BY <2>2, <2>4, <2>5, <2>6, <2>7, <2>8 DEF IsHistory
<1>8. log \in Seq(Nat)
  BY <1>1
<1>9. HistInv
  BY <1>7, <1>8 DEF HistInv
<1>10. CacheInv
  <2>1. DOMAIN mem = Sessions /\ disk = {} /\ \A s \in Sessions : mem[s] = {}
    BY DEF Init
  <2> QED BY <2>1, KeptEmpty DEF CacheInv
<1>11. OpInv
  <2>1. DOMAIN op = Sessions /\ \A s \in Sessions : op[s] = NoOp
    BY DEF Init
  <2> QED BY <2>1, NoOpOk DEF OpInv
<1>12. tabs \in Sessions
  BY DEF Init
<1> QED BY <1>3, <1>4, <1>9, <1>10, <1>11, <1>12 DEF Inv

-----------------------------------------------------------------------------
(* The theorems.                                                           *)

LEMMA InvKept ==
    ASSUME Sides \subseteq {"YES"}
    PROVE  Spec /\ []MergedOnce => []Inv
<1>1. Inv /\ MergedOnce /\ [Next]_vars => Inv'
  BY NextKeeps
<1>2. Init => Inv
  BY InitInv
<1> QED BY <1>1, <1>2, PTL DEF Spec

LEMMA InvOpens ==
    ASSUME Inv
    PROVE  NotesOpen
<1>1. ASSUME NEW m \in {disk} \cup Range(mem), NEW x \in getFreeNotes(m)
      PROVE  SpentOnChain(x.i, x.n) \/ tip[x.i] = [n |-> x.n, bal |-> x.bal, live |-> TRUE]
  <2>1. Kept(m)
    <3>1. CASE m = disk
      BY <3>1 DEF Inv, CacheInv
    <3>2. CASE m \in Range(mem)
      <4>1. PICK s \in DOMAIN mem : m = mem[s]
        BY <3>2 DEF Range
      <4> QED BY <4>1 DEF Inv, CacheInv
    <3> QED BY <3>1, <3>2
  <2>2. x \in CashNotes /\ Open(x)
    BY <1>1, <2>1 DEF Kept, getFreeNotes, BetReceipts
  <2>3. PICK t : t = tip[x.i]
    OBVIOUS
  <2>4. x.i \in Indices /\ x.n \in Nat
    BY <2>2 DEF CashNotes
  <2>5. t \in [n : Int, bal : Int, live : BOOLEAN]
    BY <2>3, <2>4 DEF Inv, TipInv
  <2>6. CASE x.n < t.n \/ ~t.live
    BY <2>2, <2>3, <2>6 DEF Open, SpentOnChain
  <2>7. CASE t.live /\ ~(x.n < t.n)
    <3>1. x.n = t.n /\ x.bal = t.bal
      BY <2>2, <2>3, <2>7 DEF Open
    <3>2. t = [n |-> t.n, bal |-> t.bal, live |-> TRUE]
      BY <2>5, <2>7
    <3> QED BY <2>3, <3>1, <3>2
  <2> QED BY <2>6, <2>7
<1> QED BY <1>1 DEF NotesOpen

(* NotesOpen: every cash note the wallet may spend, in any tab and in the stored
   copy, is spent on chain or is the last note of its lineage with exactly that
   balance.  Assumed is what notes.ts leaves out: no lineage takes part in a
   merge twice (MergedOnce), and the bets are on YES, the price of a receipt that
   was recovered without a side.                                             *)
THEOREM NotesAreOpen ==
    ASSUME Sides \subseteq {"YES"}
    PROVE  Spec /\ []MergedOnce => []NotesOpen
<1>1. Inv => NotesOpen
  BY InvOpens
<1> QED BY <1>1, InvKept, PTL

LEMMA InvRestores ==
    ASSUME Inv, MergedOnce, [Next]_vars
    PROVE  [\A s \in Sessions : Complete(s) \/ ~handleRecover(s, Len(log))]_vars
<1>1. ASSUME NEW s \in Sessions, handleRecover(s, Len(log))
      PROVE  Complete(s)
  <2>1. PICK m : m = recoverNotes(RecoveryEvents(Len(log)))
    OBVIOUS
  <2>2. mem' = [mem EXCEPT ![s] = m]
    BY <1>1, <2>1 DEF handleRecover, Save
  <2>3. DOMAIN mem = Sessions /\ ChainInv
    BY InvIs DEF CacheInv
  <2>4. mem'[s] = m
    BY <2>2, <2>3
  <2>5. /\ \A i \in Indices : tip[i].live /\ tip[i].bal > 0 =>
             Cash(i, tip[i].n, tip[i].bal) \in m
        /\ \A b \in DOMAIN bets : bets[b].status \notin Terminal =>
             \E r \in getOpenBetReceipts(m) : BetOf(r) = b
    BY <2>1, <2>3, RestoredAll
  <2> QED BY <2>4, <2>5 DEF Complete
<1> QED BY <1>1

(* RestoreComplete: a Restore that read the whole log (handleRecover,
   recoverNotes) brings back the last note of every lineage with money in it and
   the receipt of every open bet, under the same assumptions.                 *)
THEOREM RestoreIsComplete ==
    ASSUME Sides \subseteq {"YES"}
    PROVE  Spec /\ []MergedOnce => RestoreComplete
<1>1. Inv /\ MergedOnce /\ [Next]_vars =>
        [\A s \in Sessions : Complete(s) \/ ~handleRecover(s, Len(log))]_vars
  BY InvRestores
<1> QED BY <1>1, InvKept, PTL DEF Spec, RestoreComplete

-----------------------------------------------------------------------------
(* The deposit index is fresh.                                             *)

\* The lineages that have a note are those of the first indices, one for each deposit.
ChainFresh ==
    /\ \E S : log \in Seq(S)
    /\ DOMAIN tip = Indices
    /\ \A i \in Indices : /\ tip[i].live => tip[i].n \in Nat
                          /\ tip[i] # NoNote <=> i < Deposited
\* One deposit is under way at a time, and it takes the first index without one.
DepositFresh(o) ==
    /\ {"ins", "sent"} \subseteq DOMAIN o
    /\ o.ins[1].i \in Indices
    /\ IF o.sent THEN tip[o.ins[1].i] # NoNote ELSE o.ins[1].i = Deposited
OpsFresh ==
    /\ DOMAIN op = Sessions
    /\ \A s \in Sessions : "flow" \in DOMAIN op[s]
    /\ \A s \in Sessions : op[s].flow = "deposit" =>
         /\ DepositFresh(op[s])
         /\ \A t \in Sessions : op[t].flow = "deposit" => t = s
CounterFresh == counter \in Nat /\ counter <= Deposited
FreshInv == ChainFresh /\ OpsFresh /\ CounterFresh /\ tabs \in Sessions /\ locked = {}

LEMMA Counted ==
    ASSUME NEW l, NEW n \in Nat, DOMAIN l = 1..n
    PROVE  /\ IsFiniteSet({k \in DOMAIN l : l[k].ev = "deposit"})
           /\ Cardinality({k \in DOMAIN l : l[k].ev = "deposit"}) \in Nat
<1>1. IsFiniteSet(1..n)
  BY FS_Interval
<1>2. {k \in DOMAIN l : l[k].ev = "deposit"} \in SUBSET (1..n)
  OBVIOUS
<1>3. IsFiniteSet({k \in DOMAIN l : l[k].ev = "deposit"})
  BY <1>1, <1>2, FS_Subset
<1> QED BY <1>3, FS_CardinalityType

\* Each deposit is counted once.
LEMMA OneMore ==
    ASSUME NEW e, \E S : log \in Seq(S), log' = Append(log, e)
    PROVE  /\ \E S : log' \in Seq(S)
           /\ Deposited \in Nat
           /\ Deposited' = IF e.ev = "deposit" THEN Deposited + 1 ELSE Deposited
<1>1. PICK S : log \in Seq(S)
  OBVIOUS
<1>2. PICK n \in Nat : n = Len(log)
  BY <1>1
<1>3. /\ \E T : log' \in Seq(T)
      /\ Len(log') = n + 1 /\ log'[n + 1] = e
      /\ \A j \in 1..n : log'[j] = log[j]
  BY <1>1, <1>2, Logged
<1>4. DOMAIN log = 1..n /\ DOMAIN log' = 1..(n + 1)
  BY <1>1, <1>2, <1>3
<1>5. PICK D : D = {k \in DOMAIN log : log[k].ev = "deposit"}
  OBVIOUS
<1>6. PICK D2 : D2 = {k \in DOMAIN log' : log'[k].ev = "deposit"}
  OBVIOUS
<1>7. IsFiniteSet(D) /\ Cardinality(D) \in Nat
  BY <1>4, <1>5, Counted
<1>8. Deposited = Cardinality(D) /\ Deposited' = Cardinality(D2)
  BY <1>5, <1>6 DEF Deposited
<1>9. (n + 1) \notin D
  BY <1>4, <1>5
<1>10. CASE e.ev = "deposit"
  <2>1. D2 = D \cup {n + 1}
    BY <1>3, <1>4, <1>5, <1>6, <1>10
  <2> QED BY <1>3, <1>7, <1>8, <1>9, <1>10, <2>1, FS_AddElement
<1>11. CASE e.ev # "deposit"
  <2>1. D2 = D
    BY <1>3, <1>4, <1>5, <1>6, <1>11
  <2> QED BY <1>3, <1>7, <1>8, <1>11, <2>1
<1> QED BY <1>10, <1>11

LEMMA DepositedIs ==
    ASSUME ChainFresh
    PROVE  Deposited \in Nat
<1>1. PICK S : log \in Seq(S)
  BY DEF ChainFresh
<1>2. Len(log) \in Nat /\ DOMAIN log = 1..Len(log)
  BY <1>1
<1> QED BY <1>2, Counted DEF Deposited

\* The relay and the Vault leave a note in the lineages that had one, and in no other.
LEMMA FreshExecutes ==
    ASSUME ChainFresh, NEW o, Executes(o), o.flow # "deposit"
    PROVE  /\ ChainFresh' /\ Deposited' = Deposited
           /\ \A i \in Indices : tip'[i] # NoNote <=> tip[i] # NoNote
<1>1. log' = Append(log, Event(o)) /\ Event(o).ev # "deposit"
  BY DEF Executes, Event
<1>2. /\ \E S : log' \in Seq(S)
      /\ Deposited \in Nat /\ Deposited' = Deposited
  BY <1>1, OneMore DEF ChainFresh
<1>3. DOMAIN tip' = Indices
  BY DEF Executes
<1>4. ASSUME NEW i \in Indices
      PROVE  /\ tip'[i].live => tip'[i].n \in Nat
             /\ tip'[i] # NoNote <=> tip[i] # NoNote
  <2> DEFINE drains == o.flow = "withdraw" /\ NewBalance(o) = 0
  <2>1. /\ 1 \in DOMAIN o.ins
        /\ \A k \in DOMAIN o.ins :
             tip[o.ins[k].i] = [n |-> o.ins[k].n, bal |-> o.ins[k].bal, live |-> TRUE]
    BY DEF Executes, Spendable
  <2>2. tip[i].live => tip[i].n \in Nat
    BY DEF ChainFresh
  <2>3. tip'[i] = IF i = o.ins[1].i /\ ~drains
                  THEN [n |-> o.ins[1].n + 1, bal |-> NewBalance(o), live |-> TRUE]
                  ELSE IF \E k \in DOMAIN o.ins : o.ins[k].i = i
                  THEN [tip[i] EXCEPT !.live = FALSE, !.bal = 0]
                  ELSE tip[i]
    BY DEF Executes
  <2> HIDE DEF drains
  <2>4. CASE i = o.ins[1].i /\ ~drains
    <3>1. tip'[i] = [n |-> o.ins[1].n + 1, bal |-> NewBalance(o), live |-> TRUE]
      BY <2>3, <2>4
    <3>2. tip[i] = [n |-> o.ins[1].n, bal |-> o.ins[1].bal, live |-> TRUE]
      BY <2>1, <2>4
    <3>3. o.ins[1].n \in Nat
      BY <2>2, <3>2
    <3> QED BY <3>1, <3>2, <3>3 DEF NoNote
  <2>5. CASE ~(i = o.ins[1].i /\ ~drains) /\ \E k \in DOMAIN o.ins : o.ins[k].i = i
    <3>1. PICK k \in DOMAIN o.ins : o.ins[k].i = i
      BY <2>5
    <3>2. tip[i] = [n |-> o.ins[k].n, bal |-> o.ins[k].bal, live |-> TRUE]
      BY <2>1, <3>1
    <3>3. tip'[i] = [tip[i] EXCEPT !.live = FALSE, !.bal = 0]
      BY <2>3, <2>5
    <3>4. PICK t : t = tip[i]
      OBVIOUS
    <3>5. t = [n |-> o.ins[k].n, bal |-> o.ins[k].bal, live |-> TRUE]
      BY <3>2, <3>4
    <3>6. tip'[i] = [t EXCEPT !.live = FALSE, !.bal = 0]
      BY <3>3, <3>4
    <3>7. DOMAIN t = {"n", "bal", "live"} /\ t.n = o.ins[k].n /\ t.live
      BY <3>5
    <3>8. tip'[i].n = o.ins[k].n /\ tip'[i].live = FALSE
      BY <3>6, <3>7
    <3>9. o.ins[k].n \in Nat
      BY <2>2, <3>4, <3>7
    <3> QED BY <3>2, <3>8, <3>9 DEF NoNote
  <2>6. CASE ~(i = o.ins[1].i /\ ~drains) /\ ~\E k \in DOMAIN o.ins : o.ins[k].i = i
    <3>1. tip'[i] = tip[i]
      BY <2>3, <2>6
    <3> QED BY <2>2, <3>1
  <2> QED BY <2>4, <2>5, <2>6
<1> QED BY <1>2, <1>3, <1>4 DEF ChainFresh

\* A deposit goes to the first lineage without a note.
LEMMA FreshDeposits ==
    ASSUME ChainFresh, NEW o, Deposits(o), o.flow = "deposit",
           o.ins[1].i \in Indices, o.ins[1].i = Deposited
    PROVE  /\ ChainFresh' /\ Deposited' = Deposited + 1 /\ Deposited \in Nat
           /\ locked' = locked /\ tip'[o.ins[1].i] # NoNote
<1>1. log' = Append(log, Event(o)) /\ Event(o).ev = "deposit"
  BY DEF Deposits, Event
<1>2. /\ \E S : log' \in Seq(S)
      /\ Deposited \in Nat /\ Deposited' = Deposited + 1
  BY <1>1, OneMore DEF ChainFresh
<1>3. PICK i \in Indices : i = o.ins[1].i
  OBVIOUS
<1>4. tip[i] = NoNote
  BY <1>2, <1>3 DEF ChainFresh
<1>5. /\ tip' = [tip EXCEPT ![i] = [n |-> 0, bal |-> o.amt, live |-> TRUE]]
      /\ locked' = locked
  BY <1>3, <1>4 DEF Deposits
<1>6. DOMAIN tip' = Indices /\ tip'[i] = [n |-> 0, bal |-> o.amt, live |-> TRUE]
  BY <1>5 DEF ChainFresh
<1>7. Indices \subseteq Nat
  BY WalletAssumption
<1>8. ASSUME NEW k \in Indices
      PROVE  /\ tip'[k].live => tip'[k].n \in Nat
             /\ tip'[k] # NoNote <=> k < Deposited'
  <2>1. CASE k = i
    BY <1>2, <1>3, <1>6, <1>7, <2>1 DEF NoNote
  <2>2. CASE k # i
    <3>1. tip'[k] = tip[k]
      BY <1>5, <2>2 DEF ChainFresh
    <3>2. k < Deposited' <=> k < Deposited
      BY <1>2, <1>3, <1>7, <2>2
    <3> QED BY <3>1, <3>2 DEF ChainFresh
  <2> QED BY <2>1, <2>2
<1> QED BY <1>2, <1>3, <1>5, <1>6, <1>8 DEF ChainFresh, NoNote

\* A flow that is not a deposit.
IsOther(o) == "flow" \in DOMAIN o /\ o.flow # "deposit"

\* A step that leaves the deposits, and the flows that deposit, alone.
LEMMA FreshOps ==
    ASSUME FreshInv, Deposited' = Deposited,
           \A i \in Indices : tip'[i] # NoNote <=> tip[i] # NoNote,
           NEW s, NEW o, IsOther(o), op' = op \/ op' = [op EXCEPT ![s] = o]
    PROVE  OpsFresh'
<1>1. DOMAIN op' = Sessions /\ \A t \in Sessions : "flow" \in DOMAIN op'[t]
  BY DEF FreshInv, OpsFresh, IsOther
<1>2. ASSUME NEW t \in Sessions, op'[t].flow = "deposit"
      PROVE  op'[t] = op[t] /\ op[t].flow = "deposit"
  BY <1>2 DEF FreshInv, OpsFresh, IsOther
<1>3. ASSUME NEW t \in Sessions, op'[t].flow = "deposit"
      PROVE  /\ DepositFresh(op[t])'
             /\ \A u \in Sessions : op'[u].flow = "deposit" => u = t
  <2>1. op'[t] = op[t] /\ op[t].flow = "deposit"
    BY <1>2, <1>3
  <2>2. PICK p : p = op[t]
    OBVIOUS
  <2>3. DepositFresh(p) /\ \A u \in Sessions : op[u].flow = "deposit" => u = t
    BY <2>1, <2>2 DEF FreshInv, OpsFresh
  <2>4. DepositFresh(p)'
    BY <2>3 DEF DepositFresh
  <2> QED BY <1>2, <2>1, <2>2, <2>3, <2>4 DEF DepositFresh
<1> QED BY <1>1, <1>3 DEF OpsFresh

LEMMA FreshStays ==
    ASSUME FreshInv, ChainFresh', Deposited' = Deposited,
           \A i \in Indices : tip'[i] # NoNote <=> tip[i] # NoNote,
           NEW s, NEW o, IsOther(o), op' = op \/ op' = [op EXCEPT ![s] = o],
           counter' \in {0, counter}, UNCHANGED <<tabs, locked>>
    PROVE  FreshInv'
<1>1. Deposited \in Nat /\ CounterFresh'
  BY DepositedIs DEF FreshInv, CounterFresh
<1>2. OpsFresh'
  BY FreshOps
<1> QED BY <1>1, <1>2 DEF FreshInv

\* A step that leaves the chain alone.
LEMMA FreshQuiet ==
    ASSUME FreshInv, NEW s, NEW o, IsOther(o), op' = op \/ op' = [op EXCEPT ![s] = o],
           counter' \in {0, counter}, UNCHANGED <<log, tip, tabs, locked>>
    PROVE  FreshInv'
<1>1. Deposited' = Deposited
  BY DEF Deposited
<1>2. ChainFresh'
  BY <1>1 DEF FreshInv, ChainFresh
<1> QED BY <1>1, <1>2, FreshStays

LEMMA NoOpIs == IsOther(NoOp)
  BY DEF NoOp, IsOther

LEMMA FreshTabs ==
    ASSUME FreshInv, NEW s \in 1..tabs
    PROVE  s \in Sessions
  BY WalletAssumption DEF FreshInv, Sessions

LEMMA AfterFailureFresh ==
    ASSUME NEW p, NEW o, o = AfterFailure(p)
    PROVE  IsOther(o)
<1>1. CASE p.flow = "consolidate" /\ p.for = "clear"
  <2>1. PICK note : note = LargestFirst(Range(p.ins))[1]
    OBVIOUS
  <2>2. o = Flow("withdraw", <<note>>, NoBet, note.bal, "none", "none", {})
    BY <1>1, <2>1 DEF AfterFailure
  <2> QED BY <2>2 DEF Flow, IsOther
<1>2. CASE ~(p.flow = "consolidate" /\ p.for = "clear")
  <2>1. o = NoOp
    BY <1>2 DEF AfterFailure
  <2> QED BY <2>1, NoOpIs
<1> QED BY <1>1, <1>2

LEMMA NextFlowFresh ==
    ASSUME NEW p, NEW o, o = NextFlow(p)
    PROVE  IsOther(o)
<1>1. PICK note : note = Output(p)
  OBVIOUS
<1>2. PICK amt : amt = effectiveWithdrawal(note, p.amt, p.open)
  OBVIOUS
<1>3. \/ o = Flow("bet", <<note>>, NoBet, p.amt, p.side, "none", {})
      \/ o = Flow("withdraw", <<note>>, NoBet, amt, "none", "none", p.open)
      \/ o = Flow("withdraw", <<note>>, NoBet, note.bal, "none", "none", {})
      \/ o = NoOp
  BY <1>1, <1>2 DEF NextFlow
<1> QED BY <1>3, NoOpIs DEF Flow, IsOther

\* Whatever the relay does with a flow, the deposits are what they were.
LEMMA FreshPosts ==
    ASSUME FreshInv, NEW s, NEW o, IsOther(o), Sends(s, o)
    PROVE  FreshInv'
<1>1. UNCHANGED <<counter, tabs, locked>>
  BY DEF Sends, bounds
<1>2. CASE Executes(o) /\ op' = [op EXCEPT ![s] = [o EXCEPT !.sent = TRUE]]
  <2>1. PICK p : p = [o EXCEPT !.sent = TRUE]
    OBVIOUS
  <2>2. IsOther(p)
    BY <2>1 DEF IsOther
  <2>3. /\ ChainFresh' /\ Deposited' = Deposited
        /\ \A i \in Indices : tip'[i] # NoNote <=> tip[i] # NoNote
    BY <1>2, FreshExecutes DEF FreshInv, IsOther
  <2> QED BY <1>1, <1>2, <2>1, <2>2, <2>3, FreshStays
<1>3. CASE op' = [op EXCEPT ![s] = AfterFailure(o)] /\ UNCHANGED chain
  <2>1. PICK p : p = AfterFailure(o)
    OBVIOUS
  <2>2. IsOther(p)
    BY <2>1, AfterFailureFresh
  <2> QED BY <1>1, <1>3, <2>1, <2>2, FreshQuiet DEF chain
<1> QED BY <1>2, <1>3 DEF Sends, post

\* A flow that the wallet starts.
LEMMA FreshStarts ==
    ASSUME FreshInv, NEW s, NEW f, f # "deposit", NEW ins, NEW b, NEW amt, NEW side,
           NEW for, NEW open, Sends(s, Flow(f, ins, b, amt, side, for, open))
    PROVE  FreshInv'
<1>1. PICK o : o = Flow(f, ins, b, amt, side, for, open)
  OBVIOUS
<1>2. IsOther(o)
  BY <1>1, FlowIs DEF IsOther
<1> QED BY <1>1, <1>2, FreshPosts

\* The page takes the next index: no counter is ahead of the deposits, and no lineage at
\* or past their number has a note.
LEMMA FreshDepositStarts ==
    ASSUME FreshInv, "down" \notin Faults, "lag" \notin Faults, "twoTabs" \notin Faults,
           NEW s \in 1..tabs, depositStarts(s)
    PROVE  FreshInv'
<1>1. PICK n \in Nat : n = Deposited
  BY DepositedIs DEF FreshInv
<1>2. getSafeNextDepositIndex = {n}
  <2>1. \A y \in {counter, n} : n >= y
    BY <1>1 DEF FreshInv, CounterFresh
  <2>2. \E x \in {counter, n} : \A y \in {counter, n} : x >= y
    BY <2>1
  <2>3. /\ Max({counter, n}) \in {counter, n}
        /\ \A y \in {counter, n} : Max({counter, n}) >= y
    BY <2>2 DEF Max
  <2>4. Max({counter, n}) = n
    BY <1>1, <2>1, <2>3 DEF FreshInv, CounterFresh
  <2> QED BY <1>1, <2>4 DEF getSafeNextDepositIndex
<1>3. PICK fresh :
        fresh = {i \in Indices : i >= n /\ i + tabs <= MaxWidth /\ ~SpentOnChain(i, 0)}
  OBVIOUS
<1>4. /\ fresh # {}
      /\ op' = [op EXCEPT ![s] = Flow("deposit", <<Cash(Min(fresh), 0, 0)>>, NoBet,
                                      DepositAmount, "none", "none", {})]
  BY <1>2, <1>3 DEF depositStarts
<1>5. fresh \in SUBSET Nat
  BY <1>3, WalletAssumption
<1>6. PICK i : i = Min(fresh)
  OBVIOUS
<1>7. i \in fresh /\ \A k \in fresh : i <= k
  BY <1>4, <1>5, <1>6, MinIn
<1>8. i \in Indices /\ i \in Nat /\ i >= n /\ i + tabs <= MaxWidth
  BY <1>3, <1>5, <1>7
<1>9. i = n
  <2>1. n \in Indices
    BY <1>1, <1>8, WalletAssumption
  <2>2. tip[n] = NoNote
    BY <1>1, <2>1 DEF FreshInv, ChainFresh
  <2>3. ~SpentOnChain(n, 0)
    BY <2>2 DEF SpentOnChain, NoNote
  <2>4. tabs \in Nat
    BY WalletAssumption DEF FreshInv, Sessions
  <2>5. n + tabs <= MaxWidth
    BY <1>1, <1>8, <2>4, WalletAssumption
  <2>6. n \in fresh
    BY <1>3, <2>1, <2>3, <2>5, <1>1
  <2> QED BY <1>1, <1>7, <1>8, <2>6
<1>10. PICK o : o = Flow("deposit", <<Cash(i, 0, 0)>>, NoBet, DepositAmount, "none", "none", {})
  OBVIOUS
<1>11. op' = [op EXCEPT ![s] = o]
  BY <1>4, <1>6, <1>10
<1>12. {"flow", "ins", "sent"} \subseteq DOMAIN o /\ o.flow = "deposit" /\ o.ins = <<Cash(i, 0, 0)>> /\ ~o.sent
  BY <1>10, FlowIs
<1>13. o.ins[1].i = i
  BY <1>12 DEF Cash
<1>14. UNCHANGED <<log, tip, counter, tabs, locked>>
  BY DEF depositStarts, chain, cache, bounds
<1>15. Deposited' = Deposited
  BY <1>14 DEF Deposited
<1>16. ChainFresh' /\ CounterFresh'
  BY <1>14, <1>15 DEF FreshInv, ChainFresh, CounterFresh
<1>17. DepositFresh(o)'
  BY <1>1, <1>8, <1>9, <1>12, <1>13, <1>15 DEF DepositFresh
<1>18. s \in Sessions /\ \A t \in Sessions : op[t].flow # "deposit"
  BY FreshTabs DEF depositStarts
<1>19. OpsFresh'
  <2>1. DOMAIN op' = Sessions /\ op'[s] = o /\ \A t \in Sessions : t # s => op'[t] = op[t]
    BY <1>11, <1>18 DEF FreshInv, OpsFresh
  <2>2. \A t \in Sessions : "flow" \in DOMAIN op'[t]
    BY <1>12, <2>1 DEF FreshInv, OpsFresh
  <2>3. \A t \in Sessions : op'[t].flow = "deposit" => t = s
    BY <1>18, <2>1
  <2>4. DepositFresh(op[s])'
    BY <1>17, <2>1 DEF DepositFresh
  <2> QED BY <2>1, <2>2, <2>3, <2>4 DEF OpsFresh
<1> QED BY <1>14, <1>16, <1>19 DEF FreshInv

LEMMA FreshDeposited ==
    ASSUME FreshInv, NEW s \in 1..tabs, doDeposit(s)
    PROVE  FreshInv'
<1>1. s \in Sessions
  BY FreshTabs
<1>2. PICK o : o = op[s]
  OBVIOUS
<1>3. /\ o.flow = "deposit" /\ ~o.sent /\ {"flow", "ins", "sent"} \subseteq DOMAIN o
      /\ o.ins[1].i \in Indices /\ o.ins[1].i = Deposited
      /\ \A t \in Sessions : op[t].flow = "deposit" => t = s
  BY <1>1, <1>2 DEF doDeposit, FreshInv, OpsFresh, DepositFresh
<1>4. /\ ChainFresh' /\ Deposited' = Deposited + 1 /\ Deposited \in Nat
      /\ locked' = locked /\ tip'[o.ins[1].i] # NoNote
  BY <1>2, <1>3, FreshDeposits DEF doDeposit, FreshInv
<1>5. op' = [op EXCEPT ![s].sent = TRUE] /\ UNCHANGED <<counter, tabs>>
  BY DEF doDeposit, cache, bounds
<1>6. PICK p : p = [o EXCEPT !.sent = TRUE]
  OBVIOUS
<1>7. op' = [op EXCEPT ![s] = p]
  BY <1>2, <1>5, <1>6
<1>8. /\ DOMAIN op' = Sessions /\ op'[s] = p
      /\ \A t \in Sessions : t # s => op'[t] = op[t]
  BY <1>1, <1>7 DEF FreshInv, OpsFresh
<1>9. {"flow", "ins", "sent"} \subseteq DOMAIN p /\ p.ins = o.ins /\ p.sent = TRUE
  BY <1>3, <1>6
<1>10. DepositFresh(p)'
  BY <1>3, <1>4, <1>9 DEF DepositFresh
<1>11. OpsFresh'
  <2>1. \A t \in Sessions : "flow" \in DOMAIN op'[t]
    BY <1>8, <1>9 DEF FreshInv, OpsFresh
  <2>2. \A t \in Sessions : op'[t].flow = "deposit" => t = s
    BY <1>3, <1>8
  <2>3. DepositFresh(op[s])'
    BY <1>8, <1>10 DEF DepositFresh
  <2> QED BY <1>8, <2>1, <2>2, <2>3 DEF OpsFresh
<1>12. CounterFresh'
  BY <1>4, <1>5 DEF FreshInv, CounterFresh
<1> QED BY <1>4, <1>5, <1>11, <1>12 DEF FreshInv

\* A confirmed deposit moves the counter past its index, which has a note.
LEMMA FreshConfirmed ==
    ASSUME FreshInv, NEW s \in 1..tabs, depositConfirmed(s)
    PROVE  FreshInv'
<1>1. s \in Sessions
  BY FreshTabs
<1>2. PICK i : i = op[s].ins[1].i
  OBVIOUS
<1>3. i \in Indices /\ i \in Nat /\ i < Deposited
  <2>1. i \in Indices /\ tip[i] # NoNote
    BY <1>1, <1>2 DEF depositConfirmed, FreshInv, OpsFresh, DepositFresh
  <2> QED BY <2>1, WalletAssumption DEF FreshInv, ChainFresh
<1>4. counter' = Max({counter, i + 1})
  BY <1>2 DEF depositConfirmed, recordDepositIndexUsed
<1>5. UNCHANGED <<log, tip, tabs, locked>> /\ op' = [op EXCEPT ![s] = NoOp]
  BY DEF depositConfirmed, chain, bounds
<1>6. PICK o : o = NoOp
  OBVIOUS
<1>7. IsOther(o) /\ op' = [op EXCEPT ![s] = o]
  BY <1>5, <1>6, NoOpIs
<1>8. FreshInv /\ Deposited \in Nat
  BY DepositedIs DEF FreshInv
<1>9. counter' \in Nat /\ counter' <= Deposited
  <2>1. \E x \in {counter, i + 1} : \A y \in {counter, i + 1} : x >= y
    <3>1. counter >= i + 1 \/ i + 1 >= counter
      BY <1>3 DEF FreshInv, CounterFresh
    <3> QED BY <1>3, <3>1 DEF FreshInv, CounterFresh
  <2>2. counter' \in {counter, i + 1}
    BY <1>4, <2>1 DEF Max
  <2> QED BY <1>3, <1>8, <2>2 DEF FreshInv, CounterFresh
<1>10. Deposited' = Deposited
  BY <1>5 DEF Deposited
<1>11. ChainFresh' /\ CounterFresh'
  BY <1>5, <1>9, <1>10 DEF FreshInv, ChainFresh, CounterFresh
<1>12. OpsFresh'
  BY <1>5, <1>7, <1>10, FreshOps
<1> QED BY <1>5, <1>11, <1>12 DEF FreshInv

LEMMA FreshSaves ==
    ASSUME FreshInv, UNCHANGED <<log, tip, op, tabs, locked>>, counter' \in {0, counter}
    PROVE  FreshInv'
<1>1. PICK o : o = NoOp
  OBVIOUS
<1>2. IsOther(o)
  BY <1>1, NoOpIs
<1> QED BY <1>2, FreshQuiet

LEMMA FreshEnds ==
    ASSUME FreshInv, NEW s, op' = [op EXCEPT ![s] = NoOp],
           UNCHANGED <<log, tip, counter, tabs, locked>>
    PROVE  FreshInv'
<1>1. PICK o : o = NoOp
  OBVIOUS
<1>2. IsOther(o)
  BY <1>1, NoOpIs
<1> QED BY <1>1, <1>2, FreshQuiet

LEMMA FreshFlows ==
    ASSUME FreshInv, NEW s,
           betStarts(s) \/ withdrawStarts(s) \/ withdrawClearLineages(s)
    PROVE  FreshInv'
<1>1. \E f \in {"bet", "withdraw", "consolidate"} : \E ins, b, amt, side, for, open :
        Sends(s, Flow(f, ins, b, amt, side, for, open))
  <2>1. CASE betStarts(s)
    BY <2>1 DEF betStarts
  <2>2. CASE withdrawStarts(s)
    BY <2>2 DEF withdrawStarts
  <2>3. CASE withdrawClearLineages(s)
    BY <2>3 DEF withdrawClearLineages
  <2> QED BY <2>1, <2>2, <2>3
<1> QED BY <1>1, FreshStarts

LEMMA FreshCredits ==
    ASSUME FreshInv, NEW s,
           \/ settlePosition(s) \/ closeLosses(s) \/ BetCancelRefund(s)
           \/ creditFailedReclaim(s) \/ finalizePartialFill(s) \/ finalizeClose(s)
    PROVE  FreshInv'
<1>1. \E f \in Credits : \E r, amt : CreditStarts(s, r, f, amt)
  <2>1. CASE settlePosition(s)
    BY <2>1 DEF settlePosition, Credits
  <2>2. CASE closeLosses(s)
    BY <2>2 DEF closeLosses, Credits
  <2>3. CASE BetCancelRefund(s)
    BY <2>3 DEF BetCancelRefund, Credits
  <2>4. CASE creditFailedReclaim(s)
    BY <2>4 DEF creditFailedReclaim, Credits
  <2>5. CASE finalizePartialFill(s)
    BY <2>5 DEF finalizePartialFill, Credits
  <2>6. CASE finalizeClose(s)
    BY <2>6 DEF finalizeClose, Credits
  <2> QED BY <2>1, <2>2, <2>3, <2>4, <2>5, <2>6
<1>2. PICK f \in Credits : \E r, amt : CreditStarts(s, r, f, amt)
  BY <1>1
<1>3. PICK r, amt : CreditStarts(s, r, f, amt)
  BY <1>2
<1>4. PICK note : Sends(s, Flow(f, <<note>>, BetOf(r), amt, r.side, "none", {}))
  BY <1>3 DEF CreditStarts
<1> QED BY <1>2, <1>4, FreshStarts DEF Credits

LEMMA FreshRelays ==
    ASSUME FreshInv, NEW s \in 1..tabs, relayMerged(s)
    PROVE  FreshInv'
<1>1. PICK o : o = op[s]
  OBVIOUS
<1>2. IsOther(o) /\ Sends(s, o)
  BY <1>1, FreshTabs DEF relayMerged, FreshInv, OpsFresh, IsOther
<1> QED BY <1>2, FreshPosts

LEMMA FreshGoesOn ==
    ASSUME FreshInv, NEW s, confirmed(s) \/ waitForTransactionConfirmation(s)
    PROVE  FreshInv'
<1>1. PICK p : p = op[s]
  OBVIOUS
<1>2. PICK o : op' = [op EXCEPT ![s] = o] /\ (o = NextFlow(p) \/ o = AfterFailure(p))
  BY <1>1 DEF confirmed, waitForTransactionConfirmation
<1>3. IsOther(o)
  BY <1>2, NextFlowFresh, AfterFailureFresh
<1>4. UNCHANGED <<log, tip, counter, tabs, locked>>
  BY DEF confirmed, waitForTransactionConfirmation, chain, cache, bounds
<1> QED BY <1>2, <1>3, <1>4, FreshQuiet

LEMMA FreshNext ==
    ASSUME FreshInv, "down" \notin Faults, "lag" \notin Faults, "twoTabs" \notin Faults,
           [Next]_vars
    PROVE  FreshInv'
<1>1. CASE \E s \in 1..tabs : depositStarts(s)
  BY <1>1, FreshDepositStarts
<1>2. CASE \E s \in 1..tabs : doDeposit(s)
  BY <1>2, FreshDeposited
<1>3. CASE \E s \in 1..tabs : depositConfirmed(s)
  BY <1>3, FreshConfirmed
<1>4. CASE \E s \in 1..tabs : relayMerged(s)
  BY <1>4, FreshRelays
<1>5. CASE \E s \in 1..tabs : betStarts(s) \/ withdrawStarts(s) \/ withdrawClearLineages(s)
  BY <1>5, FreshFlows
<1>6. CASE \E s \in 1..tabs :
             \/ settlePosition(s) \/ closeLosses(s) \/ BetCancelRefund(s)
             \/ creditFailedReclaim(s) \/ finalizePartialFill(s) \/ finalizeClose(s)
  BY <1>6, FreshCredits
<1>7. CASE \E s \in 1..tabs : confirmed(s) \/ waitForTransactionConfirmation(s)
  BY <1>7, FreshGoesOn
<1>8. CASE \E s \in 1..tabs : depositRejected(s) \/ hydrateCache(s)
  <2>1. PICK s : depositRejected(s) \/ hydrateCache(s)
    BY <1>8
  <2>2. op' = [op EXCEPT ![s] = NoOp] /\ UNCHANGED <<log, tip, counter, tabs, locked>>
    BY <2>1 DEF depositRejected, hydrateCache, chain, cache, bounds
  <2> QED BY <2>2, FreshEnds
<1>9. CASE \E s \in 1..tabs : \/ reconcileSpentStatus(s) \/ retireReceipts(s)
                              \/ WalletConnect(s) \/ \E k \in IndexHeads : handleRecover(s, k)
  <2>1. UNCHANGED <<log, tip, op, tabs, locked>> /\ counter' \in {0, counter}
    BY <1>9 DEF reconcileSpentStatus, retireReceipts, WalletConnect, resetAllLocalState,
                handleRecover, chain, bounds
  <2> QED BY <2>1, FreshSaves
<1>10. CASE attests \/ attestsSale \/ resolves \/ UNCHANGED vars
  <2>1. UNCHANGED <<log, tip, op, counter, tabs, locked>>
    BY <1>10 DEF attests, attestsSale, resolves, vars, chain, cache, bounds
  <2> QED BY <2>1, FreshSaves
<1> QED BY <1>1, <1>2, <1>3, <1>4, <1>5, <1>6, <1>7, <1>8, <1>9, <1>10 DEF Next

LEMMA InitFresh ==
    ASSUME Init
    PROVE  FreshInv
<1>1. log = <<>>
  BY DEF Init
<1>2. {k \in DOMAIN log : log[k].ev = "deposit"} = {}
  BY <1>1
<1>3. Deposited = 0
  BY <1>2, FS_EmptySet DEF Deposited
<1>4. ChainFresh
  <2>1. log \in Seq({})
    BY <1>1
  <2>2. \A i \in Indices : tip[i] = NoNote /\ ~(i < Deposited)
    BY <1>3, WalletAssumption DEF Init
  <2>3. DOMAIN tip = Indices
    BY DEF Init
  <2> QED BY <2>1, <2>2, <2>3 DEF ChainFresh, NoNote
<1>5. OpsFresh
  BY DEF Init, OpsFresh, NoOp
<1>6. CounterFresh
  BY <1>3 DEF Init, CounterFresh
<1> QED BY <1>4, <1>5, <1>6 DEF Init, FreshInv

(* IndexFresh, where it holds: as long as the relay counts every deposit that was
   mined (it answers, and its index is not behind the chain) and one tab deposits
   at a time, no deposit goes to an index that was used before, after any wipe,
   reload, lost confirmation and Restore: the counter is never ahead of the
   deposits, the indices in use are the first ones, and getSafeNextDepositIndex
   with the nullifier check of the deposit page takes the next.  Without the
   count it does not hold ("down", "lag").                                    *)
THEOREM IndicesAreFresh ==
    ASSUME "down" \notin Faults, "lag" \notin Faults, "twoTabs" \notin Faults
    PROVE  Spec => []IndexFresh
<1>1. Init => FreshInv
  BY InitFresh
<1>2. FreshInv /\ [Next]_vars => FreshInv'
  BY FreshNext
<1>3. FreshInv => IndexFresh
  BY DEF FreshInv, IndexFresh
<1> QED BY <1>1, <1>2, <1>3, PTL DEF Spec

-----------------------------------------------------------------------------
(* The order in which notes are picked.                                    *)

Priceable(ns) == IsFiniteSet(ns) /\ \A x \in ns : x.bal \in Nat
Sorted(ns, order) ==
    /\ order \in [1..Cardinality(ns) -> ns]
    /\ \A j, k \in 1..Cardinality(ns) :
         j < k => order[j] # order[k] /\ order[j].bal >= order[k].bal

LEMMA SortedExists ==
    \A n \in Nat : \A ns : Priceable(ns) /\ Cardinality(ns) = n => \E order : Sorted(ns, order)
<1> DEFINE T == {n \in Nat : \A ns : Priceable(ns) /\ Cardinality(ns) = n =>
                                 \E order : Sorted(ns, order)}
<1>1. 0 \in T
  <2> SUFFICES ASSUME NEW ns, Priceable(ns), Cardinality(ns) = 0
               PROVE  \E order : Sorted(ns, order)
    OBVIOUS
  <2>1. [j \in 1..0 |-> 0] \in [1..0 -> ns] /\ 1..0 = {}
    OBVIOUS
  <2>2. Sorted(ns, [j \in 1..0 |-> 0])
    BY <2>1 DEF Sorted
  <2> QED BY <2>2
<1>2. ASSUME NEW n \in Nat, n \in T PROVE n + 1 \in T
  <2> SUFFICES ASSUME NEW ns, Priceable(ns), Cardinality(ns) = n + 1
               PROVE  \E order : Sorted(ns, order)
    OBVIOUS
  <2>1. ns # {}
    BY FS_EmptySet
  <2>2. PICK bals : bals = {x.bal : x \in ns}
    OBVIOUS
  <2>3. bals \in SUBSET Nat /\ bals # {}
    BY <2>1, <2>2 DEF Priceable
  <2>4. PICK low \in bals : \A m \in bals : low <= m
    BY <2>3, Least
  <2>5. PICK x \in ns : x.bal = low
    BY <2>2, <2>4
  <2>6. PICK rest : rest = ns \ {x}
    OBVIOUS
  <2>7. Priceable(rest) /\ Cardinality(rest) = n
    <3>1. IsFiniteSet(ns)
      BY DEF Priceable
    <3>2. IsFiniteSet(rest) /\ Cardinality(rest) = Cardinality(ns) - 1
      BY <2>5, <2>6, <3>1, FS_RemoveElement
    <3>3. Cardinality(rest) = n
      BY <3>2
    <3> QED BY <2>6, <3>2, <3>3 DEF Priceable
  <2>8. PICK f : Sorted(rest, f)
    BY <1>2, <2>7
  <2>9. /\ f \in [1..n -> rest]
        /\ \A j, k \in 1..n : j < k => f[j] # f[k] /\ f[j].bal >= f[k].bal
    BY <2>7, <2>8 DEF Sorted
  <2>10. PICK g : g = [j \in 1..(n + 1) |-> IF j <= n THEN f[j] ELSE x]
    OBVIOUS
  <2>11. ASSUME NEW j \in 1..(n + 1)
         PROVE  /\ j <= n => j \in 1..n /\ g[j] = f[j] /\ g[j] \in rest
                /\ ~(j <= n) => j = n + 1 /\ g[j] = x
    BY <2>9, <2>10
  <2>12. ASSUME NEW j \in 1..(n + 1), NEW k \in 1..(n + 1), j < k
         PROVE  g[j] # g[k] /\ g[j].bal >= g[k].bal
    <3>1. j <= n
      BY <2>12
    <3>2. CASE k <= n
      BY <2>9, <2>11, <2>12, <3>1, <3>2
    <3>3. CASE ~(k <= n)
      <4>1. g[k] = x /\ g[j] \in ns /\ g[j] # x
        BY <2>6, <2>11, <3>1, <3>3
      <4>2. g[j].bal \in bals /\ g[j].bal >= low
        BY <2>2, <2>3, <2>4, <4>1
      <4> QED BY <2>5, <4>1, <4>2
    <3> QED BY <3>2, <3>3
  <2>13. g \in [1..(n + 1) -> ns]
    BY <2>5, <2>6, <2>10, <2>11
  <2>14. Sorted(ns, g)
    BY <2>12, <2>13 DEF Sorted
  <2> QED BY <2>14
<1>3. \A n \in Nat : n \in T
  <2> HIDE DEF T
  <2> QED BY <1>1, <1>2, Induct
<1> QED BY <1>3

LEMMA LargestFirstIs ==
    ASSUME NEW ns, Priceable(ns)
    PROVE  /\ Sorted(ns, LargestFirst(ns)) /\ Cardinality(ns) \in Nat
           /\ ns # {} => Cardinality(ns) > 0 /\ LargestFirst(ns)[1] \in ns
<1>1. IsFiniteSet(ns) /\ Cardinality(ns) \in Nat
  BY FS_CardinalityType DEF Priceable
<1>2. \E order : Sorted(ns, order)
  BY <1>1, SortedExists
<1>3. Sorted(ns, LargestFirst(ns))
  BY <1>2 DEF LargestFirst, Sorted
<1>4. ns # {} => Cardinality(ns) > 0
  BY <1>1, FS_EmptySet
<1>5. ns # {} => LargestFirst(ns)[1] \in ns
  BY <1>1, <1>3, <1>4 DEF Sorted
<1> QED BY <1>1, <1>3, <1>4, <1>5

\* The sums of the largest notes.
LEMMA TopSumIs ==
    ASSUME NEW ns, Priceable(ns)
    PROVE  \E sum : /\ \A j \in 0..Cardinality(ns) : sum[j] \in Nat
                    /\ \A k : TopSum(ns, k) = sum[Min({k, Cardinality(ns)})]
<1> DEFINE c == Cardinality(ns)
           order == LargestFirst(ns)
           Fits(n, f) == f = [j \in 0..n |-> IF j = 0 THEN 0 ELSE f[j - 1] + order[j].bal]
           T == {n \in Nat : \E f : Fits(n, f)}
<1>1. \A k : TopSum(ns, k) = (CHOOSE f : Fits(c, f))[Min({k, c})]
  BY DEF TopSum
<1>2. c \in Nat /\ \A j \in 1..c : order[j].bal \in Nat
  <2>1. c \in Nat /\ order \in [1..c -> ns]
    BY LargestFirstIs DEF Sorted
  <2> QED BY <2>1 DEF Priceable
<1> HIDE DEF c, order
<1>3. 0 \in T
  <2>1. Fits(0, [j \in 0..0 |-> 0])
    OBVIOUS
  <2> QED BY <2>1
<1>4. ASSUME NEW n \in Nat, n \in T PROVE n + 1 \in T
  <2>1. PICK f : Fits(n, f)
    BY <1>4
  <2> DEFINE g == [j \in 0..(n + 1) |-> IF j <= n THEN f[j] ELSE f[n] + order[j].bal]
  <2>2. ASSUME NEW j \in 0..(n + 1)
        PROVE  g[j] = IF j = 0 THEN 0 ELSE g[j - 1] + order[j].bal
    <3>1. CASE j = 0
      BY <2>1, <3>1
    <3>2. CASE j # 0 /\ j <= n
      BY <2>1, <3>2
    <3>3. CASE j = n + 1
      <4>1. j - 1 = n /\ n \in 0..(n + 1) /\ n <= n /\ j # 0 /\ ~(j <= n)
        BY <3>3
      <4>2. g[n] = f[n] /\ g[j] = f[n] + order[j].bal
        BY <4>1
      <4> HIDE DEF g
      <4> QED BY <4>1, <4>2
    <3> QED BY <3>1, <3>2, <3>3
  <2>3. g = [j \in 0..(n + 1) |-> g[j]]
    OBVIOUS
  <2> HIDE DEF g
  <2>4. Fits(n + 1, g)
    BY <2>2, <2>3
  <2> HIDE DEF Fits
  <2> QED BY <2>4
<1> HIDE DEF T
<1>5. c \in T
  BY <1>2, <1>3, <1>4, Induct
<1>6. PICK f : Fits(c, f)
  BY <1>5 DEF T
<1> HIDE DEF Fits
<1>7. PICK h : h = (CHOOSE g : Fits(c, g)) /\ Fits(c, h)
  BY <1>6
<1> USE DEF Fits
<1>8. \A j \in 0..c : h[j] \in Nat
  <2> DEFINE U == {j \in Nat : j <= c => h[j] \in Nat}
  <2>0. h[0] = 0 /\ \A j \in 1..c : h[j] = h[j - 1] + order[j].bal
    <3>1. Fits(c, h)
      BY <1>7
    <3> QED BY <1>2, <3>1
  <2>1. 0 \in U
    BY <2>0
  <2>2. ASSUME NEW j \in Nat, j \in U PROVE j + 1 \in U
    <3> SUFFICES ASSUME j + 1 <= c PROVE h[j + 1] \in Nat
      OBVIOUS
    <3>1. j + 1 \in 0..c /\ j + 1 # 0 /\ (j + 1) - 1 = j /\ j + 1 \in 1..c /\ j <= c
      BY <1>2
    <3>2. h[j + 1] = h[j] + order[j + 1].bal
      BY <2>0, <3>1
    <3> QED BY <1>2, <2>2, <3>1, <3>2
  <2> HIDE DEF U
  <2>3. \A j \in Nat : j \in U
    BY <2>1, <2>2, Induct
  <2> QED BY <1>2, <2>3 DEF U
<1>9. /\ \A j \in 0..Cardinality(ns) : h[j] \in Nat
      /\ \A k : TopSum(ns, k) = h[Min({k, Cardinality(ns)})]
  BY <1>1, <1>7, <1>8 DEF c
<1> QED BY <1>9

\* The shortest run of the largest notes that covers an amount.
LEMMA CoveringIs ==
    ASSUME NEW pool, Priceable(pool), NEW amount, NEW c, c = Covering(pool, amount)
    PROVE  /\ c \in Seq(pool)
           /\ \A j, k \in DOMAIN c : j < k => c[j] # c[k]
           /\ amount = TopSum(pool, MAX_CONSOLIDATE_INPUTS) /\ pool # {} => Len(c) > 0
<1> DEFINE most == Min({Cardinality(pool), MAX_CONSOLIDATE_INPUTS})
           lens == {k \in 1..most : TopSum(pool, k) >= amount}
<1>0. PICK order : order = LargestFirst(pool)
  OBVIOUS
<1>1. c = IF lens = {} THEN <<>> ELSE SubSeq(order, 1, Min(lens))
  BY <1>0 DEF Covering
<1>2. /\ Cardinality(pool) \in Nat /\ order \in [1..Cardinality(pool) -> pool]
      /\ \A j, k \in 1..Cardinality(pool) : j < k => order[j] # order[k]
      /\ pool # {} => Cardinality(pool) > 0
  BY <1>0, LargestFirstIs DEF Sorted
<1>3. /\ most \in {Cardinality(pool), MAX_CONSOLIDATE_INPUTS}
      /\ most <= Cardinality(pool) /\ most <= MAX_CONSOLIDATE_INPUTS
  <2>1. {Cardinality(pool), MAX_CONSOLIDATE_INPUTS} \in SUBSET Nat
    BY <1>2, WalletAssumption
  <2> QED BY <2>1, MinIn
<1>4. most \in Nat /\ MAX_CONSOLIDATE_INPUTS \in Nat \ {0}
  BY <1>2, <1>3, WalletAssumption
<1>5. CASE lens # {}
  <2>1. PICK n : n = Min(lens)
    OBVIOUS
  <2>2. n \in 1..Cardinality(pool)
    <3>1. lens \in SUBSET Nat
      BY <1>4
    <3>2. n \in lens
      BY <1>5, <2>1, <3>1, MinIn
    <3> QED BY <1>2, <1>3, <1>4, <3>2
  <2>3. c = SubSeq(order, 1, n)
    BY <1>1, <1>5, <2>1
  <2>4. \A j \in 1..n : order[j] \in pool
    BY <1>2, <2>2
  <2>5. /\ c \in Seq(pool) /\ Len(c) = IF 1 <= n THEN n - 1 + 1 ELSE 0
        /\ \A j \in 1..(n - 1 + 1) : c[j] = order[1 + j - 1]
    BY <2>2, <2>3, <2>4, SubSeqProperties
  <2>6. Len(c) = n /\ \A j \in 1..n : c[j] = order[j]
    <3>1. 1 <= n /\ n - 1 + 1 = n /\ \A j \in 1..n : 1 + j - 1 = j
      BY <2>2
    <3> QED BY <2>5, <3>1
  <2>7. DOMAIN c = 1..n /\ \A j \in 1..n : j \in 1..Cardinality(pool)
    BY <1>2, <2>2, <2>5, <2>6
  <2>8. Len(c) > 0
    BY <2>2, <2>6
  <2> QED BY <1>2, <2>5, <2>6, <2>7, <2>8
<1>6. CASE lens = {}
  <2>1. c = <<>>
    BY <1>1, <1>6
  <2>2. ASSUME amount = TopSum(pool, MAX_CONSOLIDATE_INPUTS), pool # {} PROVE FALSE
    <3>1. PICK sum : /\ \A j \in 0..Cardinality(pool) : sum[j] \in Nat
                     /\ \A k : TopSum(pool, k) = sum[Min({k, Cardinality(pool)})]
      BY TopSumIs
    <3>2. TopSum(pool, MAX_CONSOLIDATE_INPUTS) = sum[most]
      <4>1. {MAX_CONSOLIDATE_INPUTS, Cardinality(pool)} = {Cardinality(pool), MAX_CONSOLIDATE_INPUTS}
        OBVIOUS
      <4> QED BY <3>1, <4>1
    <3>3. TopSum(pool, most) = sum[most]
      <4>1. {most, Cardinality(pool)} \in SUBSET Nat
        BY <1>2, <1>4
      <4>2. Min({most, Cardinality(pool)}) \in {most, Cardinality(pool)}
            /\ Min({most, Cardinality(pool)}) <= most
        BY <4>1, MinIn
      <4>3. Min({most, Cardinality(pool)}) = most
        BY <1>2, <1>3, <1>4, <4>2
      <4> QED BY <3>1, <4>3
    <3>4. sum[most] \in Nat
      BY <1>2, <1>3, <1>4, <3>1
    <3>5. most \in 1..most
      BY <1>2, <1>3, <1>4, <2>2
    <3>6. most \in lens
      BY <2>2, <3>2, <3>3, <3>4, <3>5
    <3> QED BY <1>6, <3>6
  <2>3. DOMAIN c = {} /\ c \in Seq(pool)
    BY <2>1
  <2> QED BY <2>2, <2>3
<1> QED BY <1>5, <1>6

\* The one lineage with an open position is slot 0.
LEMMA SlotZeroIs ==
    ASSUME NEW S, NEW picked \in Seq(S), NEW open, NEW preferred,
           \A j, k \in DOMAIN picked : picked[j].i \in open /\ picked[k].i \in open => j = k,
           NEW z, z = SlotZero(picked, open, preferred)
    PROVE  /\ z \in Seq(S) /\ (Len(picked) > 0 => Len(z) > 0)
           /\ \A k \in DOMAIN z : z[k].i \in open => k = 1
<1> DEFINE opens == {k \in DOMAIN picked : picked[k].i \in open}
           own == {k \in DOMAIN picked : picked[k].i = preferred}
<1>1. CASE opens = {} /\ own = {}
  <2>1. z = picked
    BY <1>1 DEF SlotZero
  <2> QED BY <1>1, <2>1
<1>2. CASE ~(opens = {} /\ own = {})
  <2>1. PICK k \in DOMAIN picked :
          /\ z = <<picked[k]>> \o RemoveAt(picked, k)
          /\ opens # {} => k \in opens
    BY <1>2 DEF SlotZero
  <2>2. PICK n \in Nat : n = Len(picked) /\ DOMAIN picked = 1..n
    OBVIOUS
  <2>3. k \in 1..n /\ \A j \in 1..n : picked[j] \in S
    BY <2>2
  <2>4. PICK a, b : a = SubSeq(picked, 1, k - 1) /\ b = SubSeq(picked, k + 1, Len(picked))
    OBVIOUS
  <2>5. /\ a \in Seq(S) /\ Len(a) = k - 1 /\ \A j \in 1..(k - 1) : a[j] = picked[j]
    <3>1. 1 \in Int /\ k - 1 \in Int /\ \A j \in 1..(k - 1) : picked[j] \in S
      BY <2>3
    <3>2. /\ a \in Seq(S) /\ Len(a) = IF 1 <= k - 1 THEN (k - 1) - 1 + 1 ELSE 0
          /\ \A j \in 1..((k - 1) - 1 + 1) : a[j] = picked[1 + j - 1]
      BY <2>4, <3>1, SubSeqProperties
    <3>3. (k - 1) - 1 + 1 = k - 1 /\ \A j \in 1..(k - 1) : 1 + j - 1 = j
      BY <2>3
    <3>4. Len(a) = k - 1
      BY <2>3, <3>2, <3>3
    <3> QED BY <3>2, <3>3, <3>4
  <2>6. /\ b \in Seq(S) /\ Len(b) = n - k /\ \A j \in 1..(n - k) : b[j] = picked[k + j]
    <3>1. k + 1 \in Int /\ n \in Int /\ \A j \in (k + 1)..n : picked[j] \in S
      BY <2>3
    <3>2. /\ b \in Seq(S) /\ Len(b) = IF k + 1 <= n THEN n - (k + 1) + 1 ELSE 0
          /\ \A j \in 1..(n - (k + 1) + 1) : b[j] = picked[(k + 1) + j - 1]
      BY <2>2, <2>4, <3>1, SubSeqProperties
    <3>3. n - (k + 1) + 1 = n - k /\ \A j \in 1..(n - k) : (k + 1) + j - 1 = k + j
      BY <2>3
    <3>4. Len(b) = n - k
      BY <2>3, <3>2, <3>3
    <3> QED BY <3>2, <3>3, <3>4
  <2>7. PICK r : r = a \o b
    OBVIOUS
  <2>8. /\ r \in Seq(S) /\ Len(r) = n - 1
        /\ \A j \in 1..(n - 1) : \E l \in 1..n : l # k /\ r[j] = picked[l]
    <3>1. /\ r \in Seq(S) /\ Len(r) = Len(a) + Len(b)
          /\ \A j \in 1..(Len(a) + Len(b)) : r[j] = IF j <= Len(a) THEN a[j] ELSE b[j - Len(a)]
      BY <2>5, <2>6, <2>7, ConcatProperties
    <3>2. Len(a) + Len(b) = n - 1
      BY <2>3, <2>5, <2>6
    <3>3. ASSUME NEW j \in 1..(n - 1) PROVE \E l \in 1..n : l # k /\ r[j] = picked[l]
      <4>1. CASE j <= k - 1
        <5>1. r[j] = picked[j] /\ j # k /\ j \in 1..n
          BY <2>3, <2>5, <3>1, <3>2, <4>1
        <5> QED BY <5>1
      <4>2. CASE ~(j <= k - 1)
        <5>1. j - (k - 1) \in 1..(n - k) /\ k + (j - (k - 1)) = j + 1 /\ j + 1 # k /\ j + 1 \in 1..n
          BY <2>3, <4>2
        <5>2. r[j] = b[j - (k - 1)]
          BY <2>5, <3>1, <3>2, <4>2
        <5>3. r[j] = picked[j + 1]
          BY <2>6, <5>1, <5>2
        <5> QED BY <5>1, <5>3
      <4> QED BY <4>1, <4>2
    <3> QED BY <3>1, <3>2, <3>3
  <2>9. z = <<picked[k]>> \o r
    BY <2>1, <2>4, <2>7 DEF RemoveAt
  <2>10. <<picked[k]>> \in Seq(S) /\ Len(<<picked[k]>>) = 1
    BY <2>2, <2>3
  <2>11. /\ z \in Seq(S) /\ Len(z) = 1 + (n - 1)
         /\ \A j \in 1..(1 + (n - 1)) : z[j] = IF j <= 1 THEN <<picked[k]>>[j] ELSE r[j - 1]
    BY <2>8, <2>9, <2>10, ConcatProperties
  <2>12. Len(z) = n /\ DOMAIN z = 1..n
    BY <2>3, <2>11
  <2>13. ASSUME NEW j \in DOMAIN z, z[j].i \in open, j # 1 PROVE FALSE
    <3>1. j - 1 \in 1..(n - 1) /\ ~(j <= 1) /\ j \in 1..(1 + (n - 1))
      BY <2>12, <2>13
    <3>2. z[j] = r[j - 1]
      BY <2>11, <3>1
    <3>3. PICK l \in 1..n : l # k /\ r[j - 1] = picked[l]
      BY <2>8, <3>1
    <3>4. l \in opens /\ k \in opens
      BY <2>1, <2>2, <2>13, <3>2, <3>3
    <3> QED BY <3>3, <3>4
  <2> QED BY <2>3, <2>11, <2>12, <2>13
<1> QED BY <1>1, <1>2

\* The notes a flow merges: slot 0 alone may hold an open position.
LEMMA PickedIs ==
    ASSUME NEW m, Priceable(getFreeNotes(m)), NEW amount, NEW open, NEW preferred,
           NEW z, z = selectNotesForAmount(m, amount, open, preferred),
           NEW clear, clear = {x \in getFreeNotes(m) : x.i \notin open}
    PROVE  /\ z \in Seq(getFreeNotes(m)) /\ \A k \in DOMAIN z : z[k].i \in open => k = 1
           /\ amount = TopSum(clear, MAX_CONSOLIDATE_INPUTS) /\ clear # {} =>
                Len(z) > 0 /\ \A k \in DOMAIN z : z[k] \in clear
<1>1. PICK all : all = getFreeNotes(m)
  OBVIOUS
<1>2. clear = {x \in all : x.i \notin open}
  BY <1>1
<1>3. PICK rest : rest = all \ clear
  OBVIOUS
<1>4. PICK pool : pool = IF TopSum(clear, MAX_CONSOLIDATE_INPUTS) >= amount \/ rest = {}
                         THEN clear ELSE clear \cup {LargestFirst(rest)[1]}
  OBVIOUS
<1>5. PICK c : c = Covering(pool, amount)
  OBVIOUS
<1>6. z = SlotZero(c, open, preferred)
  BY <1>1, <1>2, <1>3, <1>4, <1>5 DEF selectNotesForAmount
<1>7. Priceable(all) /\ Priceable(clear) /\ Priceable(rest)
  <2>1. clear \in SUBSET all /\ rest \in SUBSET all /\ IsFiniteSet(all)
    BY <1>1, <1>2, <1>3 DEF Priceable
  <2>2. IsFiniteSet(clear) /\ IsFiniteSet(rest)
    BY <2>1, FS_Subset
  <2> QED BY <1>1, <2>1, <2>2 DEF Priceable
<1>8. PICK top : top = LargestFirst(rest)[1]
  OBVIOUS
<1>9. rest # {} => top \in rest
  BY <1>7, <1>8, LargestFirstIs
<1>10. pool = clear \/ (rest # {} /\ pool = clear \cup {top})
  BY <1>4, <1>8
<1>11. pool \subseteq all /\ \A x, y \in pool : x.i \in open /\ y.i \in open => x = y
  BY <1>2, <1>3, <1>9, <1>10
<1>12. Priceable(pool)
  <2>1. pool \in SUBSET all /\ IsFiniteSet(all)
    BY <1>7, <1>11 DEF Priceable
  <2>2. IsFiniteSet(pool)
    BY <2>1, FS_Subset
  <2> QED BY <1>7, <2>1, <2>2 DEF Priceable
<1>13. /\ c \in Seq(pool)
       /\ \A j, k \in DOMAIN c : j < k => c[j] # c[k]
       /\ amount = TopSum(pool, MAX_CONSOLIDATE_INPUTS) /\ pool # {} => Len(c) > 0
  BY <1>5, <1>12, CoveringIs
<1>14. ASSUME NEW j \in DOMAIN c, NEW k \in DOMAIN c, c[j].i \in open, c[k].i \in open
       PROVE  j = k
  <2>1. c[j] \in pool /\ c[k] \in pool /\ j \in Nat /\ k \in Nat
    BY <1>13
  <2>2. c[j] = c[k]
    BY <1>11, <1>14, <2>1
  <2>3. ~(j < k) /\ ~(k < j)
    BY <1>13, <2>2
  <2> QED BY <2>1, <2>3
<1>15. /\ z \in Seq(pool) /\ (Len(c) > 0 => Len(z) > 0)
       /\ \A k \in DOMAIN z : z[k].i \in open => k = 1
  BY <1>6, <1>13, <1>14, SlotZeroIs
<1>16. z \in Seq(all)
  BY <1>11, <1>15
<1>17. ASSUME amount = TopSum(clear, MAX_CONSOLIDATE_INPUTS), clear # {}
       PROVE  Len(z) > 0 /\ \A k \in DOMAIN z : z[k] \in clear
  <2>1. PICK sum : /\ \A j \in 0..Cardinality(clear) : sum[j] \in Nat
                   /\ \A k : TopSum(clear, k) = sum[Min({k, Cardinality(clear)})]
    BY <1>7, TopSumIs
  <2>2. PICK least : least = Min({MAX_CONSOLIDATE_INPUTS, Cardinality(clear)})
    OBVIOUS
  <2>3. least \in 0..Cardinality(clear)
    <3>1. Cardinality(clear) \in Nat
      BY <1>7, LargestFirstIs
    <3>2. {MAX_CONSOLIDATE_INPUTS, Cardinality(clear)} \in SUBSET Nat
      BY <3>1, WalletAssumption
    <3>3. least \in {MAX_CONSOLIDATE_INPUTS, Cardinality(clear)} /\ least <= Cardinality(clear)
      BY <2>2, <3>2, MinIn
    <3> QED BY <3>1, <3>2, <3>3
  <2>4. amount \in Nat
    BY <1>17, <2>1, <2>2, <2>3
  <2>5. pool = clear
    <3>1. PICK most : most = TopSum(clear, MAX_CONSOLIDATE_INPUTS)
      OBVIOUS
    <3>2. most >= amount
      BY <1>17, <2>4, <3>1
    <3> QED BY <1>4, <3>1, <3>2
  <2>6. Len(z) > 0
    BY <1>13, <1>15, <1>17, <2>5
  <2> QED BY <1>15, <2>5, <2>6
<1> QED BY <1>1, <1>2, <1>15, <1>16, <1>17

LEMMA PickedFirst ==
    ASSUME NEW m, Priceable(getFreeNotes(m)), NEW amount, NEW open, NEW preferred,
           NEW z, z = selectNotesForAmount(m, amount, open, preferred)
    PROVE  z \in Seq(getFreeNotes(m)) /\ \A k \in DOMAIN z : z[k].i \in open => k = 1
<1>1. PICK clear : clear = {x \in getFreeNotes(m) : x.i \notin open}
  OBVIOUS
<1> QED BY <1>1, PickedIs


-----------------------------------------------------------------------------
(* No bet that can still pay loses the note it would be paid into.         *)

\* No bet made before the note can still pay.
NoneOwed(x) == \A b \in DOMAIN bets : b[1] = x.i /\ b[2] < x.n => ~Owed(b)
\* The cache shows a receipt of every such bet.
Told(m, x) == \A b \in DOMAIN bets : b[1] = x.i /\ b[2] < x.n /\ Owed(b) =>
                 \E r \in getOpenBetReceipts(m) : BetOf(r) = b
Aware(m) == IsFiniteSet(getFreeNotes(m)) /\ \A x \in getFreeNotes(m) : Told(m, x)
Behind(x) == x.i \in Indices /\ x.n \in Nat /\ x.n <= tip[x.i].n

\* What a flow that ends a lineage, or that will, knows of its bets.
Guarded(o) ==
    /\ o.flow = "withdraw" /\ ~o.sent /\ Drains(o) /\ o.amt >= MinWithdrawal =>
         NoneOwed(o.ins[1])
    /\ o.flow = "consolidate" /\ o.for = "withdraw" =>
         o.amt \in Nat /\ (o.ins[1].i \in o.open \/ NoneOwed(o.ins[1]))
    /\ o.flow = "consolidate" /\ o.for = "clear" =>
         /\ Priceable(Range(o.ins)) /\ o.ins[1] \in Range(o.ins)
         /\ \A x \in Range(o.ins) : Behind(x) /\ NoneOwed(x)

\* The bet of a claim that was sent.
Ended(o) ==
    /\ o.flow \in {"settle", "betCancel"} => bets[o.bet].status \in Terminal
    /\ o.flow = "close" =>
         /\ bets[o.bet].status # "ACTIVE" /\ bets[o.bet].soldAtt > 0
         /\ bets[o.bet].soldAtt >= bets[o.bet].shares => bets[o.bet].status \in Terminal
\* The note that was spent, and no bet was made with it.
Past(o) == /\ o.ins[1].n < tip[o.ins[1].i].n
           /\ o.flow # "bet" => BetOf(o.ins[1]) \notin DOMAIN bets

Safe(m, o) ==
    o.flow \notin {"none", "deposit"} =>
      /\ Behind(o.ins[1]) /\ Told(m, o.ins[1]) /\ Guarded(o)
      /\ o.sent => Ended(o) /\ (Drains(o) \/ Past(o))

StrandInv ==
    /\ NoStranding /\ Aware(disk)
    /\ \A s \in Sessions : Aware(mem[s]) /\ Safe(mem[s], op[s])

-----------------------------------------------------------------------------
(* What a step of the chain leaves as it was.                              *)

\* What was sold of an order that is final.
Fixed ==
    \A b \in DOMAIN bets : bets[b].status # "ACTIVE" =>
      /\ bets'[b].status # "ACTIVE" /\ bets'[b].shares = bets[b].shares
      /\ bets[b].soldAtt > 0 => bets'[b].soldAtt = bets[b].soldAtt
Onto == Later /\ Fewer /\ Fixed

LEMMA TipsLater ==
    ASSUME TipInv, TipInv', Later, NEW i \in Indices
    PROVE  tip[i].n \in Int /\ tip'[i].n \in Int /\ tip'[i].n >= tip[i].n
  BY DEF TipInv, Later

LEMMA BehindOnto ==
    ASSUME TipInv, TipInv', Later, NEW x, Behind(x)
    PROVE  Behind(x)'
<1>1. PICK i \in Indices : i = x.i
  BY DEF Behind
<1>2. tip[i].n \in Int /\ tip'[i].n \in Int /\ tip'[i].n >= tip[i].n
  BY TipsLater
<1>3. x.n \in Nat /\ x.n <= tip[i].n
  BY <1>1 DEF Behind
<1> QED BY <1>1, <1>2, <1>3 DEF Behind

\* A bet that can pay after a step could before it, or was made with a later note.
LEMMA OwedOnto ==
    ASSUME TipInv, Fewer, NEW x, Behind(x), NEW b \in DOMAIN bets', Owed(b)',
           b[1] = x.i, b[2] < x.n
    PROVE  b \in DOMAIN bets /\ Owed(b)
<1>1. PICK i \in Indices : i = x.i
  BY DEF Behind
<1>2. x.n \in Nat /\ x.n <= tip[i].n /\ tip[i].n \in Int
  BY <1>1 DEF Behind, TipInv
<1>3. CASE b \notin DOMAIN bets
  <2>1. b[2] = tip[i].n
    BY <1>1, <1>3 DEF Fewer
  <2> QED BY <1>2, <2>1
<1> QED BY <1>3 DEF Fewer

LEMMA NoneOwedOnto ==
    ASSUME TipInv, Fewer, NEW x, Behind(x), NoneOwed(x)
    PROVE  NoneOwed(x)'
<1>1. ASSUME NEW b \in DOMAIN bets', b[1] = x.i, b[2] < x.n, Owed(b)'
      PROVE  FALSE
  <2>1. b \in DOMAIN bets /\ Owed(b)
    BY <1>1, OwedOnto
  <2> QED BY <1>1, <2>1 DEF NoneOwed
<1> QED BY <1>1 DEF NoneOwed

LEMMA ToldOnto ==
    ASSUME TipInv, Fewer, NEW m, NEW x, Behind(x), Told(m, x)
    PROVE  Told(m, x)'
<1>1. ASSUME NEW b \in DOMAIN bets', b[1] = x.i, b[2] < x.n, Owed(b)'
      PROVE  \E r \in getOpenBetReceipts(m) : BetOf(r) = b
  <2>1. b \in DOMAIN bets /\ Owed(b)
    BY <1>1, OwedOnto
  <2> QED BY <1>1, <2>1 DEF Told
<1> QED BY <1>1 DEF Told, getOpenBetReceipts, BetOf

\* A cash note of a cache is behind its lineage.
LEMMA CashBehind ==
    ASSUME NEW m, Kept(m), TipInv, NEW x \in getFreeNotes(m)
    PROVE  Behind(x) /\ x.bal \in Nat /\ x.kind = "CASH"
<1>1. x \in CashNotes /\ Open(x)
  BY DEF getFreeNotes, Kept, BetReceipts
<1>2. x.i \in Indices /\ x.n \in Nat /\ x.bal \in Nat /\ x.kind = "CASH"
  BY <1>1 DEF CashNotes
<1>3. PICK i \in Indices : i = x.i
  BY <1>2
<1>4. tip[i].n \in Int
  BY DEF TipInv
<1>5. x.n <= tip[i].n
  BY <1>1, <1>2, <1>3, <1>4 DEF Open
<1> QED BY <1>2, <1>3, <1>5 DEF Behind

LEMMA AwareOnto ==
    ASSUME TipInv, Fewer, NEW m, Kept(m), Aware(m)
    PROVE  Aware(m)'
<1>1. ASSUME NEW x \in getFreeNotes(m) PROVE Told(m, x)'
  <2>1. Behind(x) /\ Told(m, x)
    BY CashBehind DEF Aware
  <2> QED BY <2>1, ToldOnto
<1>2. IsFiniteSet(getFreeNotes(m))
  BY DEF Aware
<1>3. PICK ns : ns = getFreeNotes(m)
  OBVIOUS
<1>4. getFreeNotes(m)' = ns
  BY <1>3 DEF getFreeNotes
<1> QED BY <1>1, <1>2, <1>3, <1>4 DEF Aware

LEMMA SafeOnto ==
    ASSUME TipInv, TipInv', Onto, NEW m, NEW o, IsFlow(o), Safe(m, o)
    PROVE  Safe(m, o)'
<1> SUFFICES ASSUME o.flow \notin {"none", "deposit"}
             PROVE  /\ Behind(o.ins[1])' /\ Told(m, o.ins[1])' /\ Guarded(o)'
                    /\ o.sent => Ended(o)' /\ (Drains(o)' \/ Past(o)')
  BY DEF Safe
<1>1. Later /\ Fewer /\ Fixed
  BY DEF Onto
<1>2. PICK x : x = o.ins[1]
  OBVIOUS
<1>3. /\ Behind(x) /\ Told(m, x) /\ Guarded(o)
      /\ o.sent => Ended(o) /\ (Drains(o) \/ Past(o))
  BY <1>2 DEF Safe
<1>4. Behind(x)' /\ Told(m, x)' /\ (NoneOwed(x) => NoneOwed(x)')
  BY <1>1, <1>3, BehindOnto, ToldOnto, NoneOwedOnto
<1>5. Drains(o)' <=> Drains(o)
  BY DEF Drains, NewBalance
<1>6. Guarded(o)'
  <2>1. o.flow = "withdraw" /\ ~o.sent /\ Drains(o) /\ o.amt >= MinWithdrawal => NoneOwed(x)'
    BY <1>2, <1>3, <1>4 DEF Guarded
  <2>2. o.flow = "consolidate" /\ o.for = "withdraw" =>
          o.amt \in Nat /\ (x.i \in o.open \/ NoneOwed(x)')
    BY <1>2, <1>3, <1>4 DEF Guarded
  <2>3. ASSUME o.flow = "consolidate", o.for = "clear"
        PROVE  /\ Priceable(Range(o.ins)) /\ o.ins[1] \in Range(o.ins)
               /\ \A y \in Range(o.ins) : Behind(y)' /\ NoneOwed(y)'
    <3>1. /\ Priceable(Range(o.ins)) /\ o.ins[1] \in Range(o.ins)
          /\ \A y \in Range(o.ins) : Behind(y) /\ NoneOwed(y)
      BY <1>3, <2>3 DEF Guarded
    <3>2. ASSUME NEW y \in Range(o.ins) PROVE Behind(y)' /\ NoneOwed(y)'
      <4>1. Behind(y) /\ NoneOwed(y)
        BY <3>1
      <4> QED BY <1>1, <4>1, BehindOnto, NoneOwedOnto
    <3> QED BY <3>1, <3>2
  <2>4. PICK ns : ns = Range(o.ins)
    OBVIOUS
  <2>5. Priceable(ns)' <=> Priceable(ns)
    BY DEF Priceable
  <2> QED BY <1>2, <1>5, <2>1, <2>2, <2>3 DEF Guarded, Priceable
<1>7. ASSUME o.sent PROVE Ended(o)'
  <2>1. Ended(o)
    BY <1>3, <1>7
  <2>2. ASSUME o.flow \in Credits PROVE o.bet \in DOMAIN bets /\ o.bet \in DOMAIN bets'
    BY <1>1, <2>2 DEF IsFlow, Later
  <2>3. o.flow \in {"settle", "betCancel"} => bets'[o.bet].status \in Terminal
    BY <1>1, <2>1, <2>2 DEF Ended, Fewer, Credits
  <2>4. ASSUME o.flow = "close"
        PROVE  /\ bets'[o.bet].status # "ACTIVE" /\ bets'[o.bet].soldAtt > 0
               /\ bets'[o.bet].soldAtt >= bets'[o.bet].shares => bets'[o.bet].status \in Terminal
    <3>1. PICK b \in DOMAIN bets : b = o.bet /\ b \in DOMAIN bets'
      BY <2>2, <2>4 DEF Credits
    <3>2. /\ bets[b].status # "ACTIVE" /\ bets[b].soldAtt > 0
          /\ bets[b].soldAtt >= bets[b].shares => bets[b].status \in Terminal
      BY <2>1, <2>4, <3>1 DEF Ended
    <3>3. /\ bets'[b].status # "ACTIVE" /\ bets'[b].shares = bets[b].shares
          /\ bets'[b].soldAtt = bets[b].soldAtt
      BY <1>1, <3>2 DEF Fixed
    <3>4. bets[b].status \in Terminal => bets'[b].status \in Terminal
      BY <1>1, <3>1 DEF Fewer
    <3> QED BY <3>1, <3>2, <3>3, <3>4
  <2> QED BY <2>3, <2>4 DEF Ended
<1>8. ASSUME Past(o) PROVE Past(o)'
  <2>1. PICK i \in Indices : i = x.i
    BY <1>3 DEF Behind
  <2>2. /\ tip[i].n \in Int /\ tip'[i].n \in Int /\ tip'[i].n >= tip[i].n
        /\ x.n \in Nat /\ x.n < tip[i].n
    BY <1>1, <1>2, <1>3, <1>8, <2>1, TipsLater DEF Past, Behind
  <2>3. x.n < tip'[i].n
    BY <2>2
  <2>4. ASSUME BetOf(x) \notin DOMAIN bets, BetOf(x) \in DOMAIN bets' PROVE FALSE
    <3>0. PICK b : b = BetOf(x)
      OBVIOUS
    <3>1. b = BetOf(x) /\ b[1] = i /\ b[2] = x.n
      BY <2>1, <3>0 DEF BetOf
    <3>2. b[2] = tip[i].n
      BY <1>1, <2>4, <3>1 DEF Fewer
    <3> QED BY <2>2, <3>1, <3>2
  <2>5. PICK key : key = BetOf(x)
    OBVIOUS
  <2>6. BetOf(o.ins[1])' = key /\ BetOf(o.ins[1]) = key
    BY <1>2, <2>5 DEF BetOf
  <2> QED BY <1>2, <1>8, <2>1, <2>3, <2>4, <2>5, <2>6 DEF Past
<1> QED BY <1>2, <1>3, <1>4, <1>5, <1>6, <1>7, <1>8

LEMMA FixedByRelay ==
    ASSUME NEW o, TipInv, BetsInv, KeysInv, Relayed(o), Executes(o)
    PROVE  Fixed
<1>1. ASSUME NEW b \in DOMAIN bets, bets[b].status # "ACTIVE"
      PROVE  bets'[b].soldAtt = bets[b].soldAtt
  <2>1. CASE o.flow = "bet"
    <3>1. PICK k, new : k = BetOf(o.ins[1]) /\ new = NewBet(o)
      OBVIOUS
    <3>2. o.ins[1].i \in Indices /\ o.ins[1].n = tip[o.ins[1].i].n /\ o.ins[1].n \in Nat
      BY InsAre DEF Executes
    <3>3. b # k
      BY <3>1, <3>2 DEF KeysInv, BetOf
    <3>4. bets' = Put(bets, k, new)
      BY <2>1, <3>1, BetsStep
    <3> QED BY <3>3, <3>4 DEF Put
  <2>2. CASE o.flow \in Credits
    <3>1. /\ o.bet \in DOMAIN bets /\ VaultAllows(o)
          /\ bets' = [bets EXCEPT ![o.bet] = BetAfter(o)]
      BY <2>2, BetsStep DEF Relayed, IsFlow, Executes
    <3>2. PICK c : c = BetAfter(o)
      OBVIOUS
    <3>3. c.soldAtt = bets[o.bet].soldAtt
      BY <2>2, <3>1, <3>2, BetAfterIs
    <3> QED BY <3>1, <3>2, <3>3
  <2>3. CASE o.flow \notin {"bet"} \cup Credits
    BY <2>3, BetsStep
  <2> QED BY <2>1, <2>2, <2>3
<1> QED BY <1>1, FinalKept DEF Fixed

LEMMA RelayOnto ==
    ASSUME NEW o, ChainInv, Sides \subseteq {"YES"}, Relayed(o), Executes(o)
    PROVE  Onto
  BY Transacted, FewerByRelay, FixedByRelay DEF ChainInv, Onto

LEMMA SameOnto ==
    ASSUME Later, UNCHANGED <<bets, market>>
    PROVE  Onto
  BY DEF Onto, Fewer, Fixed, Owed, betDidFill, fetchAttestation

\* The operator signs what was not signed yet, and a resolution pays no more bets.
LEMMA OperatorOnto ==
    ASSUME ChainInv, attests \/ attestsSale \/ resolves
    PROVE  Onto /\ tip' = tip /\ DOMAIN bets' = DOMAIN bets
<1>1. Later /\ SameBets
  BY OthersKeep
<1>2. DOMAIN bets' = DOMAIN bets /\ tip' = tip
  BY <1>1 DEF SameBets, attests, attestsSale, resolves
<1>3. BetsInv
  BY DEF ChainInv
<1>4. ASSUME NEW b \in DOMAIN bets
      PROVE  /\ bets'[b].side = bets[b].side /\ (betDidFill(b) => betDidFill(b)')
             /\ bets[b].soldAtt > 0 => bets'[b].soldAtt = bets[b].soldAtt
  <2>1. CASE attests
    <3>0. PICK c \in DOMAIN bets, o \in {"FILLED", "FAILED", "PARTIAL"} :
            /\ bets[c].outcome = "none"
            /\ bets' = [bets EXCEPT ![c].outcome = o,
                                    ![c].filled = CASE o = "FILLED" -> bets[c].stake
                                                    [] o = "FAILED" -> 0
                                                    [] OTHER -> bets[c].stake \div 2]
      BY <2>1 DEF attests
    <3>10. PICK v : v = CASE o = "FILLED" -> bets[c].stake [] o = "FAILED" -> 0
                         [] OTHER -> bets[c].stake \div 2
      OBVIOUS
    <3>1. bets[c].outcome = "none" /\ bets' = [bets EXCEPT ![c].outcome = o, ![c].filled = v]
      BY <3>0, <3>10
    <3>2. PICK r \in BetRecords : r = bets[c]
      BY <1>3 DEF BetsInv
    <3>3. PICK d : d = [r EXCEPT !.outcome = o, !.filled = v]
      OBVIOUS
    <3>4. d.side = r.side /\ d.soldAtt = r.soldAtt /\ d.status = r.status
      BY <3>3 DEF BetRecords
    <3>5. bets' = [bets EXCEPT ![c] = d]
      BY <3>1, <3>2, <3>3
    <3>6. bets'[c] = d /\ (b # c => bets'[b] = bets[b])
      BY <3>5
    <3>7. b = c => (betDidFill(b) => betDidFill(b)')
      BY <3>1, <3>2, <3>4, <3>6 DEF betDidFill, fetchAttestation
    <3>8. b # c => (betDidFill(b) => betDidFill(b)')
      BY <3>6 DEF betDidFill, fetchAttestation
    <3> QED BY <3>2, <3>4, <3>6, <3>7, <3>8
  <2>2. CASE attestsSale
    <3>1. PICK c \in DOMAIN bets :
            bets[c].soldAtt = 0 /\ \E v : bets' = [bets EXCEPT ![c].soldAtt = v]
      BY <2>2 DEF attestsSale
    <3>2. PICK v : bets' = [bets EXCEPT ![c].soldAtt = v]
      BY <3>1
    <3>3. PICK r \in BetRecords : r = bets[c]
      BY <1>3 DEF BetsInv
    <3>4. PICK d : d = [r EXCEPT !.soldAtt = v]
      OBVIOUS
    <3>5. d.side = r.side /\ d.outcome = r.outcome /\ d.status = r.status
      BY <3>4 DEF BetRecords
    <3>6. bets' = [bets EXCEPT ![c] = d]
      BY <3>2, <3>3, <3>4
    <3>7. bets'[c] = d /\ (b # c => bets'[b] = bets[b])
      BY <3>6
    <3> QED BY <3>1, <3>3, <3>5, <3>7 DEF betDidFill, fetchAttestation
  <2>3. CASE resolves
    BY <2>3 DEF resolves, betDidFill, fetchAttestation
  <2> QED BY <2>1, <2>2, <2>3
<1>5. market' = market \/ market = "open"
  BY DEF attests, attestsSale, resolves
<1>6. Fewer
  <2>1. ASSUME NEW b \in DOMAIN bets, Owed(b)' PROVE Owed(b)
    <3>1. bets'[b].status = bets[b].status
      BY <1>1 DEF SameBets
    <3> QED BY <1>4, <1>5, <2>1, <3>1 DEF Owed
  <2> QED BY <1>1, <1>2, <2>1 DEF Fewer, SameBets
<1>7. Fixed
  BY <1>1, <1>4 DEF Fixed, SameBets
<1> QED BY <1>1, <1>2, <1>6, <1>7 DEF Onto

\* The lineages that end: by a withdrawal of all, or as a later input of a merge.
LEMMA StrandsNone ==
    ASSUME NEW o, ChainInv, NoStranding, Relayed(o), Executes(o),
           Drains(o) => NoneOwed(o.ins[1]),
           \A k \in DOMAIN o.ins : o.flow = "consolidate" /\ k # 1 => NoneOwed(o.ins[k])
    PROVE  NoStranding'
<1>1. TipInv /\ BetsInv /\ KeysInv /\ Fewer
  BY FewerByRelay DEF ChainInv
<1>2. Spendable(o)
  BY DEF Executes
<1>3. 1 \in DOMAIN o.ins
  BY <1>1, <1>2, InsAre
<1>4. ASSUME NEW b \in DOMAIN bets', b \notin DOMAIN bets
      PROVE  tip'[b[1]].live
  <2>1. o.flow = "bet"
    <3>1. o.flow \in Credits => DOMAIN bets' = DOMAIN bets
      BY BetsStep
    <3>2. o.flow \notin {"bet"} \cup Credits => bets' = bets
      BY BetsStep
    <3> QED BY <1>4, <3>1, <3>2
  <2>2. b = BetOf(o.ins[1])
    <3>1. PICK key, new : key = BetOf(o.ins[1]) /\ new = NewBet(o)
      OBVIOUS
    <3>2. bets' = Put(bets, key, new)
      BY <2>1, <3>1, BetsStep
    <3> QED BY <1>4, <3>1, <3>2 DEF Put
  <2>3. PICK i \in Indices : i = o.ins[1].i
    BY <1>1, <1>2, <1>3, InsAre
  <2>4. b[1] = i /\ ~Drains(o)
    BY <2>1, <2>2, <2>3 DEF BetOf, Drains
  <2>5. tip'[i] = [n |-> o.ins[1].n + 1, bal |-> NewBalance(o), live |-> TRUE]
    BY <1>1, <2>3, <2>4, TipStep
  <2> QED BY <2>4, <2>5
<1>5. ASSUME NEW b \in DOMAIN bets, Owed(b)
      PROVE  tip'[b[1]].live
  <2>1. PICK i \in Indices : i = b[1]
    BY <1>1 DEF BetsInv
  <2>2. tip[i].live /\ b[2] < tip[i].n
    BY <1>1, <1>5, <2>1 DEF NoStranding, KeysInv
  <2>3. CASE i = o.ins[1].i /\ ~Drains(o)
    <3>1. tip'[i] = [n |-> o.ins[1].n + 1, bal |-> NewBalance(o), live |-> TRUE]
      BY <1>1, <2>3, TipStep
    <3> QED BY <2>1, <3>1
  <2>4. CASE i = o.ins[1].i /\ Drains(o)
    <3>1. o.ins[1].n = tip[i].n
      BY <1>1, <1>2, <1>3, <2>4, InsAre
    <3> QED BY <1>5, <2>1, <2>2, <2>4, <3>1 DEF NoneOwed
  <2>5. CASE i # o.ins[1].i /\ Takes(o, i)
    <3>1. PICK k \in DOMAIN o.ins : o.ins[k].i = i
      BY <2>5 DEF Takes
    <3>2. k # 1
      BY <2>5, <3>1
    <3>3. o.flow = "consolidate"
      BY <3>2 DEF Relayed, IsFlow
    <3>4. o.ins[k].n = tip[i].n
      BY <1>1, <1>2, <3>1, InsAre
    <3>5. NoneOwed(o.ins[k])
      BY <3>2, <3>3
    <3> QED BY <1>5, <2>1, <2>2, <3>1, <3>4, <3>5 DEF NoneOwed
  <2>6. CASE ~Takes(o, i)
    BY <1>1, <2>1, <2>2, <2>6, TipStep
  <2> QED BY <2>3, <2>4, <2>5, <2>6
<1>6. \A b \in DOMAIN bets : Owed(b)' => Owed(b)
  BY <1>1, BetsKept DEF Fewer, Later
<1> QED BY <1>4, <1>5, <1>6 DEF NoStranding

LEMMA StrandsStay ==
    ASSUME ChainInv, NoStranding, Fewer, DOMAIN bets' = DOMAIN bets,
           \A i \in Indices : tip[i].live => tip'[i].live
    PROVE  NoStranding'
<1>1. \A b \in DOMAIN bets : b[1] \in Indices
  BY DEF ChainInv, BetsInv
<1> QED BY <1>1 DEF NoStranding, Fewer

-----------------------------------------------------------------------------
(* The flows: what a tab knows when one is sent, and when one fails.       *)

LEMMA SafeIdle ==
    ASSUME NEW m, NEW o, o.flow \in {"none", "deposit"}
    PROVE  Safe(m, o)
  BY DEF Safe

LEMMA SafeStays ==
    ASSUME TipInv, TipInv', Onto, NEW m, NEW o, OpOk(o), Safe(m, o)
    PROVE  Safe(m, o)'
<1>1. CASE o.flow = "none"
  BY <1>1 DEF Safe
<1>2. CASE o.flow # "none"
  <2>1. IsFlow(o)
    BY <1>2 DEF OpOk
  <2> QED BY <2>1, SafeOnto
<1> QED BY <1>1, <1>2

\* A transaction that was sent.
LEMMA SentSafe ==
    ASSUME NEW o, ChainInv, ChainInv', Onto, Relayed(o), Executes(o), NEW m, Safe(m, o),
           NEW p, p = [o EXCEPT !.sent = TRUE]
    PROVE  Safe(m, p)'
<1>1. TipInv /\ BetsInv /\ KeysInv /\ TipInv' /\ Spendable(o) /\ VaultAllows(o)
  BY DEF ChainInv, Executes
<1>2. IsFlow(o)
  BY DEF Relayed
<1>3. /\ p.flow = o.flow /\ p.ins = o.ins /\ p.bet = o.bet /\ p.amt = o.amt
      /\ p.for = o.for /\ p.open = o.open /\ p.sent = TRUE
  BY <1>2 DEF IsFlow
<1>4. Safe(m, o)'
  BY <1>1, <1>2, SafeOnto
<1> SUFFICES ASSUME o.flow \notin {"none", "deposit"}
             PROVE  /\ Behind(p.ins[1])' /\ Told(m, p.ins[1])' /\ Guarded(p)'
                    /\ Ended(p)' /\ (Drains(p)' \/ Past(p)')
  BY <1>3 DEF Safe
<1>5. PICK x : x = o.ins[1]
  OBVIOUS
<1>6. Behind(x)' /\ Told(m, x)' /\ Guarded(o)'
  BY <1>4, <1>5 DEF Safe
<1>7. Guarded(p)'
  <2>1. (o.flow = "consolidate" /\ o.for = "withdraw" =>
           o.amt \in Nat /\ (x.i \in o.open \/ NoneOwed(x)'))
    BY <1>5, <1>6 DEF Guarded
  <2>2. PICK ns : ns = Range(o.ins)
    OBVIOUS
  <2>3. o.flow = "consolidate" /\ o.for = "clear" =>
          /\ Priceable(ns)' /\ x \in ns /\ \A y \in ns : Behind(y)' /\ NoneOwed(y)'
    BY <1>5, <1>6, <2>2 DEF Guarded
  <2>4. Range(p.ins)' = ns
    BY <1>3, <2>2
  <2> QED BY <1>3, <1>5, <2>1, <2>2, <2>3, <2>4 DEF Guarded
<1>8. Ended(p)'
  <2> SUFFICES ASSUME o.flow \in Credits PROVE Ended(p)'
    BY <1>3 DEF Ended, Credits
  <2>1. o.bet \in DOMAIN bets /\ bets' = [bets EXCEPT ![o.bet] = BetAfter(o)]
    BY <1>2, BetsStep DEF IsFlow
  <2>2. PICK c : c = BetAfter(o)
    OBVIOUS
  <2>3. bets'[o.bet] = c
    BY <2>1, <2>2
  <2>4. o.flow \in {"settle", "betCancel"} => c.status \in Terminal
    BY <1>1, <2>1, <2>2, BetAfterIs
  <2>5. PICK b \in BetRecords : b = bets[o.bet]
    BY <1>1, <2>1 DEF BetsInv
  <2>6. ASSUME o.flow = "close"
        PROVE  c.status # "ACTIVE" /\ c.soldAtt > 0 /\ (c.soldAtt >= c.shares => c.status \in Terminal)
    <3>1. b.sold < b.soldAtt /\ b.soldAtt <= b.shares
      BY <1>1, <2>5, <2>6 DEF VaultAllows, Credits
    <3>2. b.sold \in Nat /\ b.soldAtt \in Nat /\ b.shares \in Nat
      BY <2>5 DEF BetRecords
    <3>3. c.soldAtt = b.soldAtt /\ c.shares = b.shares
      BY <1>1, <2>1, <2>2, <2>5, <2>6, BetAfterIs
    <3>4. c.status = IF b.soldAtt = b.shares THEN "CLOSED_CREDITED" ELSE "FILLED"
      BY <1>1, <2>1, <2>2, <2>5, <2>6, BetAfterIs
    <3> QED BY <3>1, <3>2, <3>3, <3>4 DEF Terminal
  <2> QED BY <1>3, <2>3, <2>4, <2>6 DEF Ended
<1>9. Drains(p)' <=> Drains(o)
  BY <1>3 DEF Drains, NewBalance
<1>10. ASSUME ~Drains(o) PROVE Past(p)'
  <2>1. PICK i \in Indices : i = x.i
    BY <1>1, <1>5, InsAre
  <2>2. x.n = tip[i].n /\ x.n \in Nat
    BY <1>1, <1>5, <2>1, InsAre
  <2>3. tip'[i] = [n |-> x.n + 1, bal |-> NewBalance(o), live |-> TRUE]
    BY <1>1, <1>5, <1>10, <2>1, TipStep
  <2>4. x.n < tip'[x.i].n
    BY <2>1, <2>2, <2>3
  <2>5. ASSUME o.flow # "bet" PROVE <<x.i, x.n>> \notin DOMAIN bets'
    <3>1. DOMAIN bets' = DOMAIN bets
      <4>1. o.flow \in Credits => DOMAIN bets' = DOMAIN bets
        BY BetsStep
      <4>2. o.flow \notin {"bet"} \cup Credits => bets' = bets
        BY BetsStep
      <4> QED BY <2>5, <4>1, <4>2
    <3>2. PICK k : k = <<i, x.n>>
      OBVIOUS
    <3>3. k[1] = i /\ k[2] = x.n
      BY <3>2
    <3>4. k \notin DOMAIN bets
      BY <1>1, <2>2, <3>3 DEF KeysInv
    <3> QED BY <2>1, <3>1, <3>2, <3>4
  <2>6. BetOf(p.ins[1])' = <<x.i, x.n>>
    BY <1>3, <1>5 DEF BetOf
  <2> QED BY <1>3, <1>5, <2>4, <2>5, <2>6 DEF Past
<1> QED BY <1>3, <1>5, <1>6, <1>7, <1>8, <1>9, <1>10

\* Settle & Withdraw withdraws one of the notes it could not merge.
LEMMA FailedSafe ==
    ASSUME NEW o, NEW m, Safe(m, o), NEW p, p = AfterFailure(o)
    PROVE  Safe(m, p)
<1>1. CASE o.flow = "consolidate" /\ o.for = "clear"
  <2>1. PICK ns : ns = Range(o.ins)
    OBVIOUS
  <2>2. /\ Priceable(ns) /\ ns # {} /\ \A x \in ns : Behind(x) /\ NoneOwed(x)
    BY <1>1, <2>1 DEF Safe, Guarded
  <2>3. PICK note : note = LargestFirst(ns)[1]
    OBVIOUS
  <2>4. note \in ns
    BY <2>2, <2>3, LargestFirstIs
  <2>5. PICK bal, keeps : bal = note.bal /\ keeps = {}
    OBVIOUS
  <2>6. p = Flow("withdraw", <<note>>, NoBet, bal, "none", "none", keeps)
    BY <1>1, <2>1, <2>3, <2>5 DEF AfterFailure
  <2>7. p.flow = "withdraw" /\ p.ins = <<note>> /\ ~p.sent
    BY <2>6, FlowIs
  <2>8. p.ins[1] = note
    BY <2>7
  <2>9. Behind(note) /\ NoneOwed(note) /\ Told(m, note)
    BY <2>2, <2>4 DEF NoneOwed, Told
  <2> QED BY <2>7, <2>8, <2>9 DEF Safe, Guarded
<1>2. CASE ~(o.flow = "consolidate" /\ o.for = "clear")
  BY <1>2 DEF AfterFailure, NoOp, Safe
<1> QED BY <1>1, <1>2

\* One tab moves; the others know what they knew.
LEMMA Assembled ==
    ASSUME Inv, StrandInv, TipInv', Onto, NoStranding', NEW s, NEW m, NEW p,
           Aware(m)', Safe(m, p)', disk' \in {m, disk},
           \A t \in Sessions : /\ mem'[t] = IF t = s THEN m ELSE mem[t]
                               /\ op'[t] = IF t = s THEN p ELSE op[t]
    PROVE  StrandInv'
<1>1. TipInv /\ CacheInv /\ OpInv /\ Fewer
  BY DEF Inv, Onto
<1>2. Aware(disk)'
  <2>1. PICK d : d = disk
    OBVIOUS
  <2>2. Kept(d) /\ Aware(d)
    BY <1>1, <2>1 DEF CacheInv, StrandInv
  <2>3. Aware(d)'
    BY <1>1, <2>2, AwareOnto
  <2>4. PICK e : e = disk'
    OBVIOUS
  <2>5. Aware(e)'
    BY <2>1, <2>3, <2>4
  <2> QED BY <2>4, <2>5
<1>3. ASSUME NEW t \in Sessions PROVE Aware(mem[t])' /\ Safe(mem[t], op[t])'
  <2>1. PICK c, o : c = mem[t] /\ o = op[t]
    OBVIOUS
  <2>2. Kept(c) /\ Aware(c) /\ Safe(c, o) /\ OpOk(o)
    BY <1>1, <2>1 DEF CacheInv, OpInv, StrandInv
  <2>3. Aware(c)' /\ Safe(c, o)'
    BY <1>1, <2>2, AwareOnto, SafeStays
  <2>4. PICK e, q : e = mem'[t] /\ q = op'[t]
    OBVIOUS
  <2>5. e = (IF t = s THEN m ELSE c) /\ q = (IF t = s THEN p ELSE o)
    BY <2>1, <2>4
  <2>6. Aware(e)' /\ Safe(e, q)'
    BY <2>3, <2>5
  <2> QED BY <2>4, <2>6
<1> QED BY <1>2, <1>3 DEF StrandInv

\* A tab relays a flow.
LEMMA StrandSends ==
    ASSUME Inv, StrandInv, Sides \subseteq {"YES"}, NEW s \in 1..tabs, NEW o, Relayed(o),
           Sends(s, o), NEW m, Kept(m), Aware(m), Safe(m, o),
           \A k \in DOMAIN o.ins : o.flow = "consolidate" /\ k # 1 => NoneOwed(o.ins[k]),
           disk' \in {m, disk}, \A t \in Sessions : mem'[t] = IF t = s THEN m ELSE mem[t]
    PROVE  StrandInv'
<1>1. ChainInv /\ TipInv /\ NoStranding /\ DOMAIN op = Sessions
  BY InvIs DEF ChainInv, StrandInv, OpInv
<1>2. ChainInv' /\ Later
  BY SendsKeeps
<1>3. TipInv'
  BY <1>2 DEF ChainInv
<1>4. CASE Executes(o) /\ op' = [op EXCEPT ![s] = [o EXCEPT !.sent = TRUE]]
  <2>1. Onto
    BY <1>1, <1>4, RelayOnto
  <2>2. Drains(o) => NoneOwed(o.ins[1])
    <3> SUFFICES ASSUME Drains(o) PROVE NoneOwed(o.ins[1])
      OBVIOUS
    <3>1. o.flow = "withdraw" /\ o.amt >= MinWithdrawal
      BY <1>4 DEF Drains, Executes, VaultAllows, Credits
    <3> QED BY <3>1 DEF Safe, Guarded, Relayed
  <2>3. NoStranding'
    BY <1>1, <1>4, <2>2, StrandsNone
  <2>4. PICK p : p = [o EXCEPT !.sent = TRUE]
    OBVIOUS
  <2>5. Safe(m, p)'
    BY <1>1, <1>2, <1>4, <2>1, <2>4, SentSafe
  <2>6. Fewer
    BY <2>1 DEF Onto
  <2>7. Aware(m)'
    BY <1>1, <2>6, AwareOnto
  <2>8. \A t \in Sessions : op'[t] = IF t = s THEN p ELSE op[t]
    BY <1>1, <1>4, <2>4
  <2>9. \A t \in Sessions : /\ mem'[t] = IF t = s THEN m ELSE mem[t]
                           /\ op'[t] = IF t = s THEN p ELSE op[t]
    BY <2>8
  <2> QED BY <1>3, <2>1, <2>3, <2>5, <2>7, <2>9, Assembled
<1>5. CASE op' = [op EXCEPT ![s] = AfterFailure(o)] /\ UNCHANGED chain
  <2>1. Onto
    BY <1>2, <1>5, SameOnto DEF chain
  <2>2. Fewer
    BY <2>1 DEF Onto
  <2>3. NoStranding'
    BY <1>1, <1>5, <2>2, StrandsStay DEF chain
  <2>4. PICK p : p = AfterFailure(o)
    OBVIOUS
  <2>5. Safe(m, p) /\ OpOk(p)
    BY <2>4, FailedSafe, AfterFailureOk
  <2>6. Safe(m, p)'
    BY <1>1, <1>3, <2>1, <2>5, SafeStays
  <2>7. Aware(m)'
    BY <1>1, <2>2, AwareOnto
  <2>8. \A t \in Sessions : op'[t] = IF t = s THEN p ELSE op[t]
    BY <1>1, <1>5, <2>4
  <2> QED BY ZenonT(40), <1>3, <2>1, <2>3, <2>4, <2>6, <2>7, <2>8, Assembled
<1> QED BY <1>4, <1>5 DEF Sends, post

\* The chain stays.
LEMMA StrandQuiet ==
    ASSUME Inv, StrandInv, UNCHANGED chain, NEW s, NEW m, Kept(m), Aware(m),
           NEW p, OpOk(p), Safe(m, p), disk' \in {m, disk},
           \A t \in Sessions : /\ mem'[t] = IF t = s THEN m ELSE mem[t]
                               /\ op'[t] = IF t = s THEN p ELSE op[t]
    PROVE  StrandInv'
<1>1. ChainInv /\ TipInv /\ NoStranding
  BY InvIs DEF ChainInv, StrandInv
<1>2. ChainInv' /\ Later
  BY <1>1, ChainStays
<1>3. TipInv'
  BY <1>2 DEF ChainInv
<1>4. Onto
  BY <1>2, SameOnto DEF chain
<1>5. Fewer
  BY <1>4 DEF Onto
<1>6. NoStranding'
  BY <1>1, <1>5, StrandsStay DEF chain
<1>7. Safe(m, p)' /\ Aware(m)'
  BY <1>1, <1>3, <1>4, <1>5, SafeStays, AwareOnto
<1> QED BY <1>3, <1>4, <1>6, <1>7, Assembled

-----------------------------------------------------------------------------
(* The cache: the receipts a write may hide.                               *)

LEMMA ToldLess ==
    ASSUME NEW m, NEW p,
           \A r \in getOpenBetReceipts(m) : Owed(BetOf(r)) =>
             \E q \in getOpenBetReceipts(p) : BetOf(q) = BetOf(r),
           NEW x, Told(m, x)
    PROVE  Told(p, x)
<1>1. ASSUME NEW b \in DOMAIN bets, b[1] = x.i, b[2] < x.n, Owed(b)
      PROVE  \E q \in getOpenBetReceipts(p) : BetOf(q) = b
  <2>1. PICK r \in getOpenBetReceipts(m) : BetOf(r) = b
    BY <1>1 DEF Told
  <2>2. PICK key : key = BetOf(r)
    OBVIOUS
  <2>3. key = b
    BY <2>1, <2>2
  <2>4. Owed(key)
    BY <1>1, <2>3
  <2> QED BY <2>2, <2>3, <2>4
<1> QED BY <1>1 DEF Told

LEMMA AwareLess ==
    ASSUME NEW m, Aware(m), NEW p, getFreeNotes(p) \subseteq getFreeNotes(m),
           \A r \in getOpenBetReceipts(m) : Owed(BetOf(r)) =>
             \E q \in getOpenBetReceipts(p) : BetOf(q) = BetOf(r)
    PROVE  Aware(p) /\ \A x : Told(m, x) => Told(p, x)
<1>1. \A x : Told(m, x) => Told(p, x)
  BY ToldLess
<1>2. IsFiniteSet(getFreeNotes(p))
  <2>1. getFreeNotes(p) \in SUBSET getFreeNotes(m) /\ IsFiniteSet(getFreeNotes(m))
    BY DEF Aware
  <2> QED BY <2>1, FS_Subset
<1> QED BY <1>1, <1>2 DEF Aware

LEMMA SafeTold ==
    ASSUME NEW m, NEW p, NEW o, Safe(m, o), \A x : Told(m, x) => Told(p, x)
    PROVE  Safe(p, o)
  BY DEF Safe

LEMMA AwareEmpty == Aware({})
<1>1. getFreeNotes({}) = {}
  BY DEF getFreeNotes
<1> QED BY <1>1, FS_EmptySet DEF Aware

\* What was spent is dropped, and the receipts stay.
LEMMA PartAware ==
    ASSUME NEW m, Aware(m), NEW p, p \subseteq m, \A x \in m : x.kind = "BET_RECEIPT" => x \in p
    PROVE  Aware(p) /\ \A x : Told(m, x) => Told(p, x)
<1>1. getFreeNotes(p) \subseteq getFreeNotes(m)
  BY DEF getFreeNotes
<1>2. \A r \in getOpenBetReceipts(m) : r \in getOpenBetReceipts(p)
  BY DEF getOpenBetReceipts
<1> QED BY <1>1, <1>2, AwareLess

LEMMA SpentIs ==
    ASSUME NEW m, NEW keys, NEW p, p = markNoteSpent(m, keys)
    PROVE  p \subseteq m /\ \A x \in m : x.kind = "BET_RECEIPT" => x \in p
  BY DEF markNoteSpent

LEMMA ReconciledAware ==
    ASSUME NEW m, Aware(m)
    PROVE  /\ Aware(Reconciled(m)) /\ \A x : Told(m, x) => Told(Reconciled(m), x)
           /\ \A p \in Reconciles(m) :
                /\ Aware(p) /\ \A x : Told(m, x) => Told(p, x)
                /\ p \subseteq m /\ \A x \in m : x.kind = "BET_RECEIPT" => x \in p
<1>1. PICK r : r = Reconciled(m)
  OBVIOUS
<1>2. PICK keys : keys = {BetOf(x) : x \in fetchSpentNullifiers(m)}
  OBVIOUS
<1>3. r = markNoteSpent(m, keys)
  BY <1>1, <1>2 DEF Reconciled
<1>4. r \subseteq m /\ \A x \in m : x.kind = "BET_RECEIPT" => x \in r
  BY <1>3, SpentIs
<1>5. Aware(r) /\ \A x : Told(m, x) => Told(r, x)
  BY <1>4, PartAware
<1>6. \A p \in Reconciles(m) : p = r \/ p = m
  BY <1>1 DEF Reconciles
<1> QED BY <1>1, <1>4, <1>5, <1>6

LEMMA HealedAware ==
    ASSUME NEW m, Kept(m), Aware(m), NEW p, p = Healed(m)
    PROVE  Aware(p)
<1>1. ASSUME NEW y \in getFreeNotes(p) PROVE y \in getFreeNotes(m)
  <2>1. y \in p /\ y.kind = "CASH"
    BY <1>1 DEF getFreeNotes
  <2>2. PICK x \in m :
          y = IF x.kind = "BET_RECEIPT" /\ bets[BetOf(x)].status \notin Terminal
              THEN [x EXCEPT !.spent = FALSE] ELSE x
    BY <2>1 DEF Healed
  <2>3. CASE x.kind = "BET_RECEIPT" /\ y = [x EXCEPT !.spent = FALSE]
    <3>1. x \in BetReceipts
      BY <2>3 DEF Kept, CashNotes
    <3>2. y.kind = "BET_RECEIPT"
      BY <2>3, <3>1 DEF BetReceipts
    <3> QED BY <2>1, <3>2
  <2> QED BY <2>1, <2>2, <2>3 DEF getFreeNotes
<1>2. ASSUME NEW r \in getOpenBetReceipts(m), Owed(BetOf(r))
      PROVE  \E q \in getOpenBetReceipts(p) : BetOf(q) = BetOf(r)
  <2>1. r \in m /\ r.kind = "BET_RECEIPT" /\ ~r.spent
    BY <1>2 DEF getOpenBetReceipts
  <2>2. r \in BetReceipts
    BY <2>1 DEF Kept, CashNotes
  <2>3. bets[BetOf(r)].status \notin Terminal
    BY <1>2 DEF Owed
  <2>4. PICK q : q = [r EXCEPT !.spent = FALSE]
    OBVIOUS
  <2>5. q \in p
    BY <2>1, <2>3, <2>4 DEF Healed
  <2>6. q.kind = "BET_RECEIPT" /\ q.spent = FALSE /\ q.i = r.i /\ q.n = r.n
    BY <2>2, <2>4 DEF BetReceipts
  <2>7. ~q.spent
    BY <2>6
  <2> QED BY <2>5, <2>6, <2>7 DEF getOpenBetReceipts, BetOf
<1> QED BY <1>1, <1>2, AwareLess

\* The receipts of bets that pay no more.
LEMMA RetiredAware ==
    ASSUME NEW m, Kept(m), Aware(m), NEW keys, \A b \in keys : ~Owed(b), NEW p,
           p = markBetReceiptSpent(m, keys)
    PROVE  Aware(p) /\ \A x : Told(m, x) => Told(p, x)
<1>1. ASSUME NEW y \in getFreeNotes(p) PROVE y \in getFreeNotes(m)
  <2>1. y \in p /\ y.kind = "CASH"
    BY <1>1 DEF getFreeNotes
  <2>2. PICK x \in m : y = IF x.kind = "BET_RECEIPT" /\ BetOf(x) \in keys
                           THEN [x EXCEPT !.spent = TRUE] ELSE x
    BY <2>1 DEF markBetReceiptSpent
  <2>3. CASE x.kind = "BET_RECEIPT" /\ y = [x EXCEPT !.spent = TRUE]
    <3>1. x \in BetReceipts
      BY <2>3 DEF Kept, CashNotes
    <3>2. y.kind = "BET_RECEIPT"
      BY <2>3, <3>1 DEF BetReceipts
    <3> QED BY <2>1, <3>2
  <2> QED BY <2>1, <2>2, <2>3 DEF getFreeNotes
<1>2. ASSUME NEW r \in getOpenBetReceipts(m), Owed(BetOf(r))
      PROVE  \E q \in getOpenBetReceipts(p) : BetOf(q) = BetOf(r)
  <2>1. r \in m /\ r.kind = "BET_RECEIPT" /\ ~r.spent
    BY <1>2 DEF getOpenBetReceipts
  <2>2. BetOf(r) \notin keys
    BY <1>2
  <2>3. r \in p
    BY <2>1, <2>2 DEF markBetReceiptSpent
  <2> QED BY <2>1, <2>3 DEF getOpenBetReceipts
<1> QED BY <1>1, <1>2, AwareLess

\* A lost bet, and one the chain has finished, cannot pay.
LEMMA DoneIsNotOwed ==
    ASSUME BetsInv, Sides \subseteq {"YES"}, NEW m, Kept(m), NEW r \in getOpenBetReceipts(m),
           Lost(r) \/ bets[BetOf(r)].status \in Terminal
    PROVE  ~Owed(BetOf(r))
<1>1. r \in BetReceipts /\ BetOf(r) \in DOMAIN bets
  BY DEF getOpenBetReceipts, Kept, CashNotes
<1>2. r.side # "NO" /\ bets[BetOf(r)].side = "YES"
  <2>1. PICK c \in BetRecords : c = bets[BetOf(r)]
    BY <1>1 DEF BetsInv
  <2>2. c.side \in Sides
    BY <2>1 DEF BetRecords
  <2> QED BY <1>1, <2>1, <2>2 DEF BetReceipts, AnySide
<1>3. CASE Lost(r)
  <2>1. market # "open" /\ pendingCredit(r.side) = 0 /\ betDidFill(BetOf(r))
    BY <1>3 DEF Lost, Settleable
  <2>2. market = "NO"
    <3>1. Payout \in Nat /\ Payout # 0
      BY WalletAssumption
    <3> QED BY <1>2, <2>1, <3>1 DEF pendingCredit
  <2> QED BY <1>2, <2>1, <2>2 DEF Owed
<1> QED BY <1>3 DEF Owed

-----------------------------------------------------------------------------
(* The cache: what a Restore brings back.                                  *)

LEMMA RestoredAware ==
    ASSUME ChainInv, MergedOnce, NEW K \in 0..Len(log), NEW m, m = recoverNotes(RecoveryEvents(K))
    PROVE  Aware(m)
<1>1. PICK S : log \in Seq(S)
  BY DEF ChainInv, HistInv
<1>2. PICK H : IsHistory(H)
  BY DEF ChainInv, HistInv
<1>3. \A x : x \in m <=> \E i \in Indices : DepositedBy(i, K) /\ Holds(H[K][i], x)
  BY <1>1, <1>2, Recovered
<1>4. ASSUME NEW x \in getFreeNotes(m)
      PROVE  \E i \in Indices : H[K][i].live /\ x = Cash(i, H[K][i].n, H[K][i].bal)
                                /\ DepositedBy(i, K)
  <2>1. x \in m /\ x.kind = "CASH"
    BY <1>4 DEF getFreeNotes
  <2>2. PICK i \in Indices : DepositedBy(i, K) /\ Holds(H[K][i], x)
    BY <1>3, <2>1
  <2>3. PICK h : h = H[K][i]
    OBVIOUS
  <2>4. h.i = i /\ \A r \in h.receipts : r \in BetReceipts
    BY <1>2, <2>3 DEF IsHistory, Typed
  <2>5. x \notin h.receipts
    BY <2>1, <2>4 DEF BetReceipts
  <2>6. h.live /\ x = Cash(i, h.n, h.bal)
    BY <2>2, <2>3, <2>4, <2>5 DEF Holds
  <2> QED BY <2>2, <2>3, <2>6
<1>5. ASSUME NEW x \in getFreeNotes(m) PROVE Told(m, x)
  <2>1. PICK i \in Indices : /\ H[K][i].live /\ x = Cash(i, H[K][i].n, H[K][i].bal)
                             /\ DepositedBy(i, K)
    BY <1>4, <1>5
  <2>2. PICK h : h = H[K][i]
    OBVIOUS
  <2>3. x.i = i /\ x.n = h.n /\ h.live
    BY <2>1, <2>2 DEF Cash
  <2>4. ASSUME NEW b \in DOMAIN bets, b[1] = x.i, b[2] < x.n, Owed(b)
        PROVE  \E r \in getOpenBetReceipts(m) : BetOf(r) = b
    <3>1. b[1] \in Indices /\ b[2] \in Nat /\ b = <<b[1], b[2]>>
      BY DEF ChainInv, BetsInv
    <3>2. PICK r : r = Receipt(b[1], b[2], "none", FALSE)
      OBVIOUS
    <3>3. bets[b].status \notin Terminal
      BY <2>4 DEF Owed
    <3>4. RecallInv(H)
      BY <1>2 DEF IsHistory
    <3>5. r \in h.receipts
      BY <2>2, <2>3, <2>4, <3>2, <3>3, <3>4 DEF RecallInv
    <3>6. r \in m
      BY <1>3, <2>1, <2>2, <3>5 DEF Holds
    <3>7. r.kind = "BET_RECEIPT" /\ ~r.spent /\ BetOf(r) = b
      BY <3>1, <3>2 DEF Receipt, BetOf
    <3> QED BY <3>6, <3>7 DEF getOpenBetReceipts
  <2> QED BY <2>4 DEF Told
<1>6. IsFiniteSet(getFreeNotes(m))
  <2>1. IsFiniteSet(Indices)
    <3>1. PICK top \in Nat : Indices = 0..top
      BY WalletAssumption
    <3> QED BY <3>1, FS_Interval
  <2>2. PICK all : all = [i \in Indices |-> Cash(i, H[K][i].n, H[K][i].bal)]
    OBVIOUS
  <2>3. PICK notes : notes = {all[i] : i \in Indices}
    OBVIOUS
  <2>4. all \in Surjection(Indices, notes)
    BY <2>2, <2>3 DEF Surjection
  <2>5. IsFiniteSet(notes)
    BY <2>1, <2>4, FS_Surjection
  <2>6. getFreeNotes(m) \in SUBSET notes
    BY <1>4, <2>2, <2>3
  <2> QED BY <2>5, <2>6, FS_Subset
<1> QED BY <1>5, <1>6 DEF Aware

-----------------------------------------------------------------------------
(* The cache: a confirmed transaction.                                     *)

LEMMA AwareMore ==
    ASSUME NEW m, Aware(m), NEW x, NEW p, getFreeNotes(p) \subseteq getFreeNotes(m) \cup {x},
           \A y : Told(m, y) => Told(p, y), x \in getFreeNotes(p) => Told(p, x)
    PROVE  Aware(p)
<1>1. ASSUME NEW y \in getFreeNotes(p) PROVE Told(p, y)
  BY <1>1 DEF Aware
<1>2. PICK all : all = getFreeNotes(m) \cup {x}
  OBVIOUS
<1>3. IsFiniteSet(all)
  BY <1>2, FS_AddElement DEF Aware
<1>4. getFreeNotes(p) \in SUBSET all
  BY <1>2
<1>5. IsFiniteSet(getFreeNotes(p))
  BY <1>3, <1>4, FS_Subset
<1> QED BY <1>1, <1>5 DEF Aware

LEMMA MoreReceipts ==
    ASSUME NEW m, NEW p, m \subseteq p
    PROVE  \A y : Told(m, y) => Told(p, y)
<1>1. getOpenBetReceipts(m) \subseteq getOpenBetReceipts(p)
  BY DEF getOpenBetReceipts
<1> QED BY <1>1 DEF Told

\* The bets behind the note that is left: those behind the note that was spent, and its own.
LEMMA BehindOutput ==
    ASSUME BetsInv, NEW o, IsFlow(o), Landed(o), o.flow # "deposit", NEW x, x = Output(o),
           NEW b \in DOMAIN bets, b[1] = x.i, b[2] < x.n
    PROVE  b[1] = o.ins[1].i /\ (b[2] < o.ins[1].n \/ b = BetOf(o.ins[1]))
<1>1. x.i = o.ins[1].i /\ x.n = o.ins[1].n + 1 /\ o.ins[1].n \in Nat
  BY DEF Output, Cash, Landed
<1>2. b \in Indices \X Nat
  BY DEF BetsInv
<1>3. b = <<b[1], b[2]>> /\ b[2] \in Nat
  BY <1>2
<1>4. b[2] < o.ins[1].n \/ b[2] = o.ins[1].n
  BY <1>1, <1>3
<1> QED BY <1>1, <1>3, <1>4 DEF BetOf

LEMMA NoneOwedOutput ==
    ASSUME BetsInv, NEW o, IsFlow(o), Landed(o), o.flow \notin {"deposit", "bet"}, Past(o),
           NoneOwed(o.ins[1]), NEW x, x = Output(o)
    PROVE  NoneOwed(x)
<1>1. ASSUME NEW b \in DOMAIN bets, b[1] = x.i, b[2] < x.n, Owed(b)
      PROVE  FALSE
  <2>1. b[1] = o.ins[1].i /\ (b[2] < o.ins[1].n \/ b = BetOf(o.ins[1]))
    BY <1>1, BehindOutput
  <2> QED BY <1>1, <2>1 DEF NoneOwed, Past
<1> QED BY <1>1 DEF NoneOwed

\* The receipts after a confirmation, and the cash.
Written(next, o) ==
    CASE o.flow = "bet" -> addNote(next, Receipt(o.ins[1].i, o.ins[1].n, o.side, FALSE))
      [] o.flow = "partial" -> replaceNote(next, o.bet, o.side)
      [] Finishes(o) -> markBetReceiptSpent(next, {o.bet})
      [] OTHER -> next
LEMMA CachedTold ==
    ASSUME NEW m, Kept(m), NEW x, x.kind = "CASH", NEW next,
           next \in {m, addNote(m, x)}, NEW o, Ended(o), NEW p, p = Written(next, o)
    PROVE  /\ \A y : Told(m, y) => Told(p, y)
           /\ getFreeNotes(p) \subseteq getFreeNotes(next)
           /\ o.flow = "bet" => \E r \in getOpenBetReceipts(p) : BetOf(r) = BetOf(o.ins[1])
<1>0. m \subseteq next /\ next \subseteq m \cup {x}
  BY DEF addNote
<1>1. CASE o.flow = "bet"
  <2>1. PICK r : r = Receipt(o.ins[1].i, o.ins[1].n, o.side, FALSE)
    OBVIOUS
  <2>2. p = next \cup {r}
    BY <1>1, <2>1 DEF Finishes, addNote, Written
  <2>3. r.kind = "BET_RECEIPT" /\ ~r.spent /\ BetOf(r) = BetOf(o.ins[1])
    BY <2>1 DEF Receipt, BetOf
  <2>4. m \subseteq p
    BY <1>0, <2>2
  <2> QED BY <2>2, <2>3, <2>4, MoreReceipts DEF getFreeNotes, getOpenBetReceipts
<1>2. CASE o.flow = "partial"
  <2>1. PICK r : r = Receipt(o.bet[1], o.bet[2], o.side, FALSE)
    OBVIOUS
  <2>2. p = next \/ p = next \cup {r}
    BY <1>2, <2>1 DEF Finishes, replaceNote, addNote, Written
  <2>3. r.kind = "BET_RECEIPT"
    BY <2>1 DEF Receipt
  <2>4. m \subseteq p
    BY <1>0, <2>2
  <2> QED BY <1>2, <2>2, <2>3, <2>4, MoreReceipts DEF getFreeNotes
<1>3. CASE o.flow \notin {"bet", "partial"} /\ Finishes(o)
  <2>1. p = markBetReceiptSpent(next, {o.bet})
    BY <1>3 DEF Written
  <2>2. ~Owed(o.bet)
    BY <1>3 DEF Finishes, Ended, Owed
  <2>3. ASSUME NEW r \in getOpenBetReceipts(m), Owed(BetOf(r))
        PROVE  \E q \in getOpenBetReceipts(p) : BetOf(q) = BetOf(r)
    <3>1. r \in next /\ r.kind = "BET_RECEIPT" /\ ~r.spent
      BY <1>0 DEF getOpenBetReceipts
    <3>2. PICK key : key = BetOf(r)
      OBVIOUS
    <3>3. key # o.bet
      BY <2>2, <2>3, <3>2
    <3>4. r \in p
      BY <2>1, <3>1, <3>2, <3>3 DEF markBetReceiptSpent
    <3> QED BY <3>1, <3>4 DEF getOpenBetReceipts
  <2>4. ASSUME NEW y \in getFreeNotes(p) PROVE y \in getFreeNotes(next)
    <3>1. y \in p /\ y.kind = "CASH"
      BY <2>4 DEF getFreeNotes
    <3>2. PICK r \in next : y = IF r.kind = "BET_RECEIPT" /\ BetOf(r) \in {o.bet}
                                THEN [r EXCEPT !.spent = TRUE] ELSE r
      BY <2>1, <3>1 DEF markBetReceiptSpent
    <3>3. CASE r.kind = "BET_RECEIPT" /\ y = [r EXCEPT !.spent = TRUE]
      <4>1. r \in BetReceipts
        BY <1>0, <3>3 DEF Kept, CashNotes
      <4>2. y.kind = "BET_RECEIPT"
        BY <3>3, <4>1 DEF BetReceipts
      <4> QED BY <3>1, <4>2
    <3> QED BY <3>1, <3>2, <3>3 DEF getFreeNotes
  <2> QED BY <1>3, <2>3, <2>4, ToldLess
<1>4. CASE o.flow \notin {"bet", "partial"} /\ ~Finishes(o)
  <2>1. p = next
    BY <1>4 DEF Written
  <2> QED BY <1>0, <1>4, <2>1, MoreReceipts
<1> QED BY <1>1, <1>2, <1>3, <1>4

\* The cache that follows a transaction knows the bets behind the note that is left.
LEMMA CachedAware ==
    ASSUME NEW m, Kept(m), Aware(m), BetsInv, NEW o, IsFlow(o), Landed(o), Safe(m, o), o.sent,
           o.flow \notin {"none", "deposit"}, NEW x, x = Output(o), NEW p, p = Cached(m, o)
    PROVE  Aware(p) /\ (Drains(o) \/ Told(p, x))
<1>1. PICK kept : kept = markNoteSpent(m, Keys(o))
  OBVIOUS
<1>2. PICK next : next = IF Drains(o) THEN kept ELSE addNote(kept, x)
  OBVIOUS
<1>3. p = Written(next, o)
  BY <1>1, <1>2 DEF Cached, Drains, Written
<1>4. x.kind = "CASH" /\ x.i = o.ins[1].i
  BY DEF Output, Cash
<1>5. Kept(kept) /\ Aware(kept) /\ \A y : Told(m, y) => Told(kept, y)
  <2>1. PICK keys : keys = Keys(o)
    OBVIOUS
  <2>2. kept = markNoteSpent(m, keys)
    BY <1>1, <2>1
  <2> QED BY <2>2, SpentIs, SpentKept, PartAware
<1>6. kept \subseteq next /\ next \subseteq kept \cup {x} /\ (Drains(o) => next = kept)
  BY <1>2 DEF addNote
<1>7. /\ Told(m, o.ins[1]) /\ Ended(o) /\ (Drains(o) \/ Past(o))
  BY DEF Safe
<1>8. /\ \A y : Told(kept, y) => Told(p, y)
      /\ getFreeNotes(p) \subseteq getFreeNotes(next)
      /\ o.flow = "bet" => \E r \in getOpenBetReceipts(p) : BetOf(r) = BetOf(o.ins[1])
  BY <1>2, <1>3, <1>4, <1>5, <1>7, CachedTold
<1>9. ASSUME ~Drains(o) PROVE Told(p, x)
  <2>1. ASSUME NEW b \in DOMAIN bets, b[1] = x.i, b[2] < x.n, Owed(b)
        PROVE  \E r \in getOpenBetReceipts(p) : BetOf(r) = b
    <3>1. b[1] = o.ins[1].i /\ (b[2] < o.ins[1].n \/ b = BetOf(o.ins[1]))
      BY <2>1, BehindOutput
    <3>2. CASE b[2] < o.ins[1].n
      <4>1. Told(p, o.ins[1])
        BY <1>5, <1>7, <1>8
      <4> QED BY <2>1, <3>1, <3>2, <4>1 DEF Told
    <3>3. CASE b = BetOf(o.ins[1])
      BY <1>7, <1>8, <1>9, <3>3 DEF Past
    <3> QED BY <3>1, <3>2, <3>3
  <2> QED BY <2>1 DEF Told
<1>10. getFreeNotes(p) \subseteq getFreeNotes(kept) \cup {x}
  BY <1>6, <1>8 DEF getFreeNotes
<1>11. CASE Drains(o)
  <2>1. getFreeNotes(p) \subseteq getFreeNotes(kept)
    BY <1>6, <1>8, <1>11
  <2>2. \A y \in getFreeNotes(p) : Told(p, y)
    BY <1>5, <1>8, <2>1 DEF Aware
  <2>3. getFreeNotes(p) \in SUBSET getFreeNotes(kept) /\ IsFiniteSet(getFreeNotes(kept))
    BY <1>5, <2>1 DEF Aware
  <2>4. IsFiniteSet(getFreeNotes(p))
    BY <2>3, FS_Subset
  <2> QED BY <1>11, <2>2, <2>4 DEF Aware
<1>12. CASE ~Drains(o)
  BY <1>5, <1>8, <1>9, <1>10, <1>12, AwareMore
<1> QED BY <1>11, <1>12

\* What a flow does with a merged note.
LEMMA NextSafe ==
    ASSUME TipInv, BetsInv, NEW m, NEW o, IsFlow(o), Landed(o), Safe(m, o), o.sent,
           o.flow \notin {"none", "deposit"}, NEW x, x = Output(o), NEW p,
           Drains(o) \/ Told(p, x), NEW q, q = NextFlow(o)
    PROVE  Safe(p, q)
<1>1. CASE o.flow # "consolidate" \/ o.for \notin {"bet", "withdraw", "clear"}
  <2>1. q = NoOp
    BY <1>1 DEF NextFlow
  <2> QED BY <2>1, SafeIdle DEF NoOp
<1>2. CASE o.flow = "consolidate" /\ o.for \in {"bet", "withdraw", "clear"}
  <2>1. ~Drains(o) /\ Past(o) /\ Guarded(o) /\ Told(p, x)
    BY <1>2 DEF Drains, Safe
  <2>2. /\ x.i = o.ins[1].i /\ x.bal = NewBalance(o) /\ x.bal \in Nat
        /\ x.i \in Indices /\ x.n \in Nat /\ Open(x)
    BY <1>2, <2>1 DEF Output, Cash, Landed, Drains
  <2>3. Behind(x)
    <3>1. PICK i \in Indices : i = x.i
      BY <2>2
    <3>2. tip[i].n \in Int
      BY DEF TipInv
    <3>3. x.n <= tip[i].n
      BY <2>2, <3>1, <3>2 DEF Open
    <3> QED BY <2>2, <3>1, <3>3 DEF Behind
  <2>4. NoneOwed(o.ins[1]) => NoneOwed(x)
    BY <1>2, <2>1, NoneOwedOutput
  <2>5. CASE o.for = "bet"
    <3>1. PICK amt, side, keeps : amt = o.amt /\ side = o.side /\ keeps = {}
      OBVIOUS
    <3>2. q = Flow("bet", <<x>>, NoBet, amt, side, "none", keeps)
      BY <1>2, <2>5, <3>1 DEF NextFlow
    <3>3. q.flow = "bet" /\ q.ins = <<x>> /\ ~q.sent
      BY <3>2, FlowIs
    <3>4. q.ins[1] = x
      BY <3>3
    <3> QED BY <2>1, <2>3, <3>3, <3>4 DEF Safe, Guarded
  <2>6. CASE o.for = "withdraw"
    <3>1. PICK open : open = o.open
      OBVIOUS
    <3>2. PICK amt : amt = effectiveWithdrawal(x, o.amt, open)
      OBVIOUS
    <3>3. q = Flow("withdraw", <<x>>, NoBet, amt, "none", "none", open)
      BY <1>2, <2>6, <3>1, <3>2 DEF NextFlow
    <3>4. q.flow = "withdraw" /\ q.ins = <<x>> /\ ~q.sent /\ q.amt = amt
      BY <3>3, FlowIs
    <3>5. q.ins[1] = x
      BY <3>4
    <3>6. o.amt \in Nat /\ (x.i \in open \/ NoneOwed(x))
      BY <1>2, <2>1, <2>2, <2>4, <2>6, <3>1 DEF Guarded
    <3>7. ASSUME x.i \in open, Drains(q), amt >= MinWithdrawal PROVE FALSE
      <4>1. amt = IF o.amt >= x.bal /\ x.bal > 1 THEN x.bal - 1 ELSE o.amt
        BY <3>2, <3>7 DEF effectiveWithdrawal
      <4>2. x.bal - amt = 0
        BY <3>4, <3>5, <3>7 DEF Drains, NewBalance
      <4>3. MinWithdrawal \in Nat /\ MinWithdrawal > 1
        BY WalletAssumption
      <4> QED BY <2>2, <3>6, <3>7, <4>1, <4>2, <4>3
    <3>8. Guarded(q)
      BY <3>4, <3>5, <3>6, <3>7 DEF Guarded
    <3> QED BY <2>1, <2>3, <3>4, <3>5, <3>8 DEF Safe
  <2>7. CASE o.for = "clear"
    <3>1. PICK bal, keeps : bal = x.bal /\ keeps = {}
      OBVIOUS
    <3>2. q = Flow("withdraw", <<x>>, NoBet, bal, "none", "none", keeps)
      BY <1>2, <2>7, <3>1 DEF NextFlow
    <3>3. q.flow = "withdraw" /\ q.ins = <<x>> /\ ~q.sent
      BY <3>2, FlowIs
    <3>4. q.ins[1] = x
      BY <3>3
    <3>5. NoneOwed(x)
      BY <1>2, <2>1, <2>4, <2>7 DEF Guarded
    <3> QED BY <2>1, <2>3, <3>3, <3>4, <3>5 DEF Safe, Guarded
  <2> QED BY <1>2, <2>5, <2>6, <2>7
<1> QED BY <1>1, <1>2

-----------------------------------------------------------------------------
(* The flows: what a tab picks to spend.                                   *)

LEMMA TabKnows ==
    ASSUME Inv, StrandInv, NEW s \in 1..tabs, NEW c, c = mem[s], NEW o, o = op[s]
    PROVE  s \in Sessions /\ OpOk(o) /\ Kept(c) /\ Aware(c) /\ Safe(c, o)
<1>1. s \in Sessions /\ OpOk(op[s]) /\ Kept(mem[s])
  BY TabIs
<1> QED BY <1>1 DEF StrandInv

LEMMA CacheWritten ==
    ASSUME CacheInv, NEW s \in Sessions, NEW m,
           Save(s, m) \/ SaveIfChanged(s, m) \/ (m = mem[s] /\ UNCHANGED <<mem, disk>>)
    PROVE  disk' \in {m, disk} /\ \A t \in Sessions : mem'[t] = IF t = s THEN m ELSE mem[t]
<1>1. CASE Save(s, m)
  <2>1. mem' = [mem EXCEPT ![s] = m] /\ disk' \in {m, disk}
    BY <1>1 DEF Save, writeEncrypted
  <2> QED BY <2>1 DEF CacheInv
<1>2. CASE m = mem[s] /\ UNCHANGED <<mem, disk>>
  BY <1>2
<1>3. CASE SaveIfChanged(s, m)
  <2>1. Save(s, m) \/ (m = mem[s] /\ UNCHANGED <<mem, disk>>)
    BY <1>3 DEF SaveIfChanged
  <2> QED BY <1>1, <1>2, <2>1
<1> QED BY <1>1, <1>2, <1>3

LEMMA OpWritten ==
    ASSUME OpInv, NEW s, NEW p, op' = [op EXCEPT ![s] = p]
    PROVE  \A t \in Sessions : op'[t] = IF t = s THEN p ELSE op[t]
  BY DEF OpInv

\* No open receipt of the lineage: no bet behind the note can pay.
LEMMA ClearIs ==
    ASSUME NEW m, NEW x, Told(m, x), x.i \notin OpenDeposits(m)
    PROVE  NoneOwed(x)
<1>1. ASSUME NEW b \in DOMAIN bets, b[1] = x.i, b[2] < x.n, Owed(b) PROVE FALSE
  <2>1. PICK r \in getOpenBetReceipts(m) : BetOf(r) = b
    BY <1>1 DEF Told
  <2>2. b[1] = r.i
    BY <2>1 DEF BetOf
  <2> QED BY <1>1, <2>1, <2>2 DEF OpenDeposits
<1> QED BY <1>1 DEF NoneOwed

\* The free notes of a tab that reconciles.
LEMMA FreeIs ==
    ASSUME TipInv, NEW c, Kept(c), Aware(c), NEW m \in Reconciles(c), NEW open,
           open = OpenDeposits(m)
    PROVE  /\ open = OpenDeposits(c) /\ getFreeNotes(m) \subseteq getFreeNotes(c)
           /\ Kept(m) /\ Aware(m) /\ Priceable(getFreeNotes(m)) /\ Priceable(getFreeNotes(c))
           /\ \A x \in getFreeNotes(c) : /\ Told(m, x) /\ Behind(x) /\ x.bal \in Nat
                                         /\ x.i \notin open => NoneOwed(x)
<1>1. /\ Aware(m) /\ \A x : Told(c, x) => Told(m, x)
      /\ m \subseteq c /\ \A x \in c : x.kind = "BET_RECEIPT" => x \in m
  BY ReconciledAware
<1>2. getOpenBetReceipts(m) = getOpenBetReceipts(c) /\ getFreeNotes(m) \subseteq getFreeNotes(c)
  BY <1>1 DEF getOpenBetReceipts, getFreeNotes
<1>3. open = OpenDeposits(c)
  BY <1>2 DEF OpenDeposits
<1>4. Kept(m)
  BY <1>1, KeptPart
<1>5. ASSUME NEW x \in getFreeNotes(c)
      PROVE  /\ Told(m, x) /\ Behind(x) /\ x.bal \in Nat
             /\ x.i \notin open => NoneOwed(x)
  <2>1. Told(m, x)
    BY <1>1 DEF Aware
  <2>2. Behind(x) /\ x.bal \in Nat
    BY CashBehind
  <2> QED BY <2>1, <2>2, ClearIs
<1>6. Priceable(getFreeNotes(c))
  BY <1>5 DEF Priceable, Aware
<1>7. Priceable(getFreeNotes(m))
  BY <1>1, <1>2, <1>5 DEF Priceable, Aware
<1> QED BY <1>1, <1>2, <1>3, <1>4, <1>5, <1>6, <1>7

\* A flow that spends one note.
LEMMA SingleSafe ==
    ASSUME NEW m, NEW x, Told(m, x), Behind(x), NEW o, ~o.sent, o.ins = <<x>>,
           o.flow # "consolidate",
           o.flow = "withdraw" /\ Drains(o) /\ o.amt >= MinWithdrawal => NoneOwed(x)
    PROVE  Safe(m, o)
<1>1. o.ins[1] = x
  OBVIOUS
<1> QED BY <1>1 DEF Safe, Guarded

\* A lineage that the withdraw page keeps alive is not drained.
LEMMA EffectiveIs ==
    ASSUME NEW x, x.bal \in Nat, NEW asked \in Nat, NEW open, x.i \in open, NEW o,
           o.flow = "withdraw", o.ins = <<x>>, o.amt = effectiveWithdrawal(x, asked, open),
           Drains(o), o.amt >= MinWithdrawal
    PROVE  FALSE
<1>1. o.amt = IF asked >= x.bal /\ x.bal > 1 THEN x.bal - 1 ELSE asked
  BY DEF effectiveWithdrawal
<1>2. x.bal - o.amt = 0
  BY DEF Drains, NewBalance
<1>3. MinWithdrawal \in Nat /\ MinWithdrawal > 1
  BY WalletAssumption
<1> QED BY <1>1, <1>2, <1>3

\* A merge.
LEMMA MergeSafe ==
    ASSUME TipInv, NEW c, Kept(c), Aware(c), NEW m \in Reconciles(c), NEW open,
           open = OpenDeposits(m), NEW picked \in Seq(getFreeNotes(m)), Len(picked) > 0,
           \A k \in DOMAIN picked : picked[k].i \in open => k = 1,
           NEW o, o.flow = "consolidate", o.ins = picked, ~o.sent,
           o.for = "withdraw" => o.amt \in Nat /\ o.open = open,
           o.for = "clear" => \A k \in DOMAIN picked : picked[k].i \notin open
    PROVE  Safe(m, o) /\ \A k \in DOMAIN o.ins : k # 1 => NoneOwed(o.ins[k])
<1>1. /\ getFreeNotes(m) \subseteq getFreeNotes(c) /\ Priceable(getFreeNotes(m))
      /\ \A x \in getFreeNotes(c) : /\ Told(m, x) /\ Behind(x)
                                    /\ x.i \notin open => NoneOwed(x)
  BY FreeIs
<1>2. \A k \in DOMAIN picked : picked[k] \in getFreeNotes(m)
  OBVIOUS
<1>3. ASSUME NEW k \in DOMAIN picked
      PROVE  /\ Told(m, picked[k]) /\ Behind(picked[k])
             /\ picked[k].i \notin open => NoneOwed(picked[k])
  BY <1>1, <1>2
<1>4. 1 \in DOMAIN picked
  OBVIOUS
<1>5. PICK ns : ns = Range(picked)
  OBVIOUS
<1>6. picked[1] \in ns /\ \A y \in ns : \E k \in DOMAIN picked : y = picked[k]
  BY <1>4, <1>5 DEF Range
<1>7. Priceable(ns)
  <2>1. ns \in SUBSET getFreeNotes(m)
    BY <1>2, <1>6
  <2>2. IsFiniteSet(getFreeNotes(m))
    BY <1>1 DEF Priceable
  <2>3. IsFiniteSet(ns)
    BY <2>1, <2>2, FS_Subset
  <2> QED BY <1>1, <2>1, <2>3 DEF Priceable
<1>8. o.for = "clear" => \A y \in ns : Behind(y) /\ NoneOwed(y)
  BY <1>3, <1>6
<1>9. Guarded(o)
  BY <1>3, <1>4, <1>5, <1>6, <1>7, <1>8 DEF Guarded
<1> QED BY <1>3, <1>4, <1>9 DEF Safe

-----------------------------------------------------------------------------
(* Every step keeps what the tabs know.                                    *)

\* A tab that relays what it picked writes the cache it reconciled.
LEMMA StrandRelays ==
    ASSUME Inv, StrandInv, Sides \subseteq {"YES"}, NEW s \in 1..tabs, NEW o, Relayed(o),
           Sends(s, o), NEW m, Kept(m), Aware(m), Safe(m, o),
           \A k \in DOMAIN o.ins : o.flow = "consolidate" /\ k # 1 => NoneOwed(o.ins[k]),
           SaveIfChanged(s, m) \/ (m = mem[s] /\ UNCHANGED <<mem, disk>>)
    PROVE  StrandInv'
<1>1. CacheInv /\ s \in Sessions
  BY InvIs, TabIs
<1>2. disk' \in {m, disk} /\ \A t \in Sessions : mem'[t] = IF t = s THEN m ELSE mem[t]
  BY <1>1, CacheWritten
<1> QED BY <1>2, StrandSends

LEMMA BetStrands ==
    ASSUME Inv, StrandInv, Sides \subseteq {"YES"}, NEW s \in 1..tabs, betStarts(s)
    PROVE  StrandInv'
<1>1. PICK m \in Reconciles(mem[s]) :
        /\ getFreeNotes(m) # {}
        /\ \E stake \in Stakes, side \in Sides :
             LET cost == stake + ProtocolFee
                 note == getCurrentCashNote(m)
                 picked == selectNotesForAmount(m, cost, OpenDeposits(m), -1)
             IN  IF note.bal >= cost
                 THEN Sends(s, Flow("bet", <<note>>, NoBet, stake, side, "none", {}))
                 ELSE /\ picked # <<>>
                      /\ Sends(s, Flow("consolidate", picked, NoBet, stake, side, "bet", {}))
        /\ SaveIfChanged(s, m)
  BY DEF betStarts
<1>2. PICK stake \in Stakes, side \in Sides :
        \/ Sends(s, Flow("bet", <<getCurrentCashNote(m)>>, NoBet, stake, side, "none", {}))
        \/ /\ selectNotesForAmount(m, stake + ProtocolFee, OpenDeposits(m), -1) # <<>>
           /\ Sends(s, Flow("consolidate",
                            selectNotesForAmount(m, stake + ProtocolFee, OpenDeposits(m), -1),
                            NoBet, stake, side, "bet", {}))
  BY <1>1
<1>3. PICK c, open, cost, less :
        c = mem[s] /\ open = OpenDeposits(m) /\ cost = stake + ProtocolFee /\ less = -1
  OBVIOUS
<1>4. PICK note : note = getCurrentCashNote(m)
  OBVIOUS
<1>5. PICK picked : picked = selectNotesForAmount(m, cost, open, less)
  OBVIOUS
<1>6. PICK a, b : /\ a = Flow("bet", <<note>>, NoBet, stake, side, "none", {})
                  /\ b = Flow("consolidate", picked, NoBet, stake, side, "bet", {})
  OBVIOUS
<1>7. TipInv /\ Kept(c) /\ Aware(c) /\ m \in Reconciles(c)
  BY <1>3, TabKnows DEF Inv
<1>8. /\ Kept(m) /\ Aware(m) /\ Priceable(getFreeNotes(m))
      /\ getFreeNotes(m) \subseteq getFreeNotes(c)
      /\ \A x \in getFreeNotes(c) : Told(m, x) /\ Behind(x)
  BY <1>3, <1>7, FreeIs
<1>9. CASE Sends(s, a)
  <2>1. Relayed(a)
    BY <1>6, BetFlow
  <2>2. note \in getFreeNotes(m)
    BY <1>1, <1>4, <1>8, LargestFirstIs DEF getCurrentCashNote
  <2>3. a.flow = "bet" /\ a.ins = <<note>> /\ ~a.sent
    BY <1>6, FlowIs
  <2>4. Told(m, note) /\ Behind(note)
    BY <1>8, <2>2
  <2>5. Safe(m, a)
    BY <2>3, <2>4, SingleSafe
  <2> QED BY <1>1, <1>8, <1>9, <2>1, <2>3, <2>5, StrandRelays
<1>10. CASE picked # <<>> /\ Sends(s, b)
  <2>1. Relayed(b)
    BY <1>6, MergeFlow
  <2>2. /\ picked \in Seq(getFreeNotes(m))
        /\ \A k \in DOMAIN picked : picked[k].i \in open => k = 1
    <3>1. Priceable(getFreeNotes(m))
      BY <1>8
    <3> QED BY <1>5, <3>1, PickedFirst
  <2>3. Len(picked) > 0
    BY <1>10, <2>2
  <2>4. b.flow = "consolidate" /\ b.ins = picked /\ ~b.sent /\ b.for = "bet"
    BY <1>6, FlowIs
  <2>5. Safe(m, b) /\ \A k \in DOMAIN b.ins : k # 1 => NoneOwed(b.ins[k])
    BY <1>3, <1>7, <2>2, <2>3, <2>4, MergeSafe
  <2> QED BY <1>1, <1>8, <1>10, <2>1, <2>5, StrandRelays
<1>11. Sends(s, a) \/ (picked # <<>> /\ Sends(s, b))
  BY <1>2, <1>3, <1>4, <1>6, <1>5
<1> QED BY <1>9, <1>10, <1>11

LEMMA WithdrawStrands ==
    ASSUME Inv, StrandInv, Sides \subseteq {"YES"}, NEW s \in 1..tabs, withdrawStarts(s)
    PROVE  StrandInv'
<1>1. PICK c, open : c = mem[s] /\ open = OpenDeposits(c)
  OBVIOUS
<1>2. PICK note : note = getCurrentCashNote(c)
  OBVIOUS
<1>3. PICK m \in Reconciles(c) :
        /\ getFreeNotes(c) # {}
        /\ \E amt \in Withdrawals :
             LET picked == selectNotesForAmount(m, amt, open, note.i) IN
             IF amt <= note.bal
             THEN Sends(s, Flow("withdraw", <<note>>, NoBet,
                                effectiveWithdrawal(note, amt, open), "none", "none", open))
             ELSE /\ Len(picked) > 1
                  /\ Sends(s, Flow("consolidate", picked, NoBet, amt, "none", "withdraw", open))
        /\ SaveIfChanged(s, m)
  BY <1>1, <1>2 DEF withdrawStarts
<1>4. PICK amt \in Withdrawals :
        \/ Sends(s, Flow("withdraw", <<note>>, NoBet,
                         effectiveWithdrawal(note, amt, open), "none", "none", open))
        \/ /\ Len(selectNotesForAmount(m, amt, open, note.i)) > 1
           /\ Sends(s, Flow("consolidate", selectNotesForAmount(m, amt, open, note.i), NoBet, amt,
                            "none", "withdraw", open))
  BY <1>3
<1>5. PICK eff, first : eff = effectiveWithdrawal(note, amt, open) /\ first = note.i
  OBVIOUS
<1>6. PICK picked : picked = selectNotesForAmount(m, amt, open, first)
  OBVIOUS
<1>7. PICK a, b : /\ a = Flow("withdraw", <<note>>, NoBet, eff, "none", "none", open)
                  /\ b = Flow("consolidate", picked, NoBet, amt, "none", "withdraw", open)
  OBVIOUS
<1>8. TipInv /\ Kept(c) /\ Aware(c) /\ amt \in Nat
  BY <1>1, TabKnows, WalletAssumption DEF Inv
<1>9. PICK shown : shown = OpenDeposits(m)
  OBVIOUS
<1>10. /\ shown = OpenDeposits(c) /\ Kept(m) /\ Aware(m)
       /\ Priceable(getFreeNotes(m)) /\ Priceable(getFreeNotes(c))
       /\ \A x \in getFreeNotes(c) : /\ Told(m, x) /\ Behind(x) /\ x.bal \in Nat
                                     /\ x.i \notin shown => NoneOwed(x)
  BY <1>8, <1>9, FreeIs
<1>11. open = shown
  BY <1>1, <1>10
<1>12. CASE Sends(s, a)
  <2>1. Relayed(a)
    BY <1>7, WithdrawFlow
  <2>2. note \in getFreeNotes(c)
    BY <1>2, <1>3, <1>10, LargestFirstIs DEF getCurrentCashNote
  <2>3. a.flow = "withdraw" /\ a.ins = <<note>> /\ ~a.sent /\ a.amt = eff
    BY <1>7, FlowIs
  <2>4. Told(m, note) /\ Behind(note) /\ note.bal \in Nat
    BY <1>10, <2>2
  <2>5. ASSUME Drains(a), a.amt >= MinWithdrawal PROVE NoneOwed(note)
    <3>1. note.i \notin open
      BY <1>5, <1>8, <2>3, <2>4, <2>5, EffectiveIs
    <3> QED BY <1>10, <1>11, <2>2, <3>1
  <2>6. Safe(m, a)
    BY <2>3, <2>4, <2>5, SingleSafe
  <2> QED BY <1>1, <1>3, <1>10, <1>12, <2>1, <2>3, <2>6, StrandRelays
<1>13. CASE Len(picked) > 1 /\ Sends(s, b)
  <2>1. PICK for : for = "withdraw"
    OBVIOUS
  <2>2. Relayed(b)
    BY <1>7, <2>1, MergeFlow
  <2>3. /\ picked \in Seq(getFreeNotes(m))
        /\ \A k \in DOMAIN picked : picked[k].i \in open => k = 1
    <3>1. Priceable(getFreeNotes(m))
      BY <1>10
    <3> QED BY <1>6, <3>1, PickedFirst
  <2>4. Len(picked) > 0
    BY <1>13, <2>3
  <2>5. /\ b.flow = "consolidate" /\ b.ins = picked /\ ~b.sent /\ b.for = "withdraw"
        /\ b.amt = amt /\ b.open = open
    BY <1>7, FlowIs
  <2>6. Safe(m, b) /\ \A k \in DOMAIN b.ins : k # 1 => NoneOwed(b.ins[k])
    BY <1>8, <1>9, <1>11, <2>3, <2>4, <2>5, MergeSafe
  <2> QED BY <1>1, <1>3, <1>10, <1>13, <2>2, <2>6, StrandRelays
<1>14. Sends(s, a) \/ (Len(picked) > 1 /\ Sends(s, b))
  BY <1>4, <1>5, <1>6, <1>7
<1> QED BY <1>12, <1>13, <1>14

LEMMA ClearStrands ==
    ASSUME Inv, StrandInv, Sides \subseteq {"YES"}, NEW s \in 1..tabs, withdrawClearLineages(s)
    PROVE  StrandInv'
<1>1. PICK m \in Reconciles(mem[s]) :
        /\ LET open == OpenDeposits(m)
               clear == {x \in getFreeNotes(m) : x.i \notin open}
               target == TopSum(clear, MAX_CONSOLIDATE_INPUTS)
               note == LargestFirst(clear)[1]
           IN  /\ clear # {}
               /\ \/ Sends(s, Flow("consolidate", selectNotesForAmount(m, target, open, note.i),
                                   NoBet, target, "none", "clear", {}))
                  \/ Sends(s, Flow("withdraw", <<note>>, NoBet, note.bal, "none", "none", {}))
        /\ SaveIfChanged(s, m)
  BY DEF withdrawClearLineages
<1>2. PICK c, open : c = mem[s] /\ open = OpenDeposits(m)
  OBVIOUS
<1>3. PICK clear : clear = {x \in getFreeNotes(m) : x.i \notin open}
  OBVIOUS
<1>4. PICK target, note : /\ target = TopSum(clear, MAX_CONSOLIDATE_INPUTS)
                          /\ note = LargestFirst(clear)[1]
  OBVIOUS
<1>5. PICK first, bal, keeps : first = note.i /\ bal = note.bal /\ keeps = {}
  OBVIOUS
<1>6. PICK picked : picked = selectNotesForAmount(m, target, open, first)
  OBVIOUS
<1>7. PICK a, b : /\ a = Flow("withdraw", <<note>>, NoBet, bal, "none", "none", keeps)
                  /\ b = Flow("consolidate", picked, NoBet, target, "none", "clear", keeps)
  OBVIOUS
<1>8. Sends(s, b) \/ Sends(s, a)
  BY <1>1, <1>2, <1>3, <1>4, <1>5, <1>6, <1>7
<1>9. TipInv /\ Kept(c) /\ Aware(c) /\ m \in Reconciles(c)
  BY <1>1, <1>2, TabKnows DEF Inv
<1>10. /\ Kept(m) /\ Aware(m) /\ Priceable(getFreeNotes(m))
       /\ getFreeNotes(m) \subseteq getFreeNotes(c)
       /\ \A x \in getFreeNotes(c) : /\ Told(m, x) /\ Behind(x)
                                     /\ x.i \notin open => NoneOwed(x)
  BY <1>2, <1>9, FreeIs
<1>11. clear # {}
  BY <1>1, <1>2, <1>3
<1>12. CASE Sends(s, a)
  <2>1. Relayed(a)
    BY <1>7, WithdrawFlow
  <2>2. Priceable(clear)
    <3>1. clear \in SUBSET getFreeNotes(m) /\ IsFiniteSet(getFreeNotes(m))
      BY <1>3, <1>10 DEF Priceable
    <3>2. IsFiniteSet(clear)
      BY <3>1, FS_Subset
    <3> QED BY <1>10, <3>1, <3>2 DEF Priceable
  <2>3. note \in clear
    BY <1>4, <1>11, <2>2, LargestFirstIs
  <2>4. Told(m, note) /\ Behind(note) /\ NoneOwed(note)
    BY <1>3, <1>10, <2>3
  <2>5. a.flow = "withdraw" /\ a.ins = <<note>> /\ ~a.sent
    BY <1>7, FlowIs
  <2>6. Safe(m, a)
    BY <2>4, <2>5, SingleSafe
  <2> QED BY <1>1, <1>10, <1>12, <2>1, <2>5, <2>6, StrandRelays
<1>13. CASE Sends(s, b)
  <2>1. PICK for : for = "clear"
    OBVIOUS
  <2>2. Relayed(b)
    BY <1>7, <2>1, MergeFlow
  <2>3. /\ picked \in Seq(getFreeNotes(m))
        /\ \A k \in DOMAIN picked : picked[k].i \in open => k = 1
        /\ Len(picked) > 0 /\ \A k \in DOMAIN picked : picked[k] \in clear
    BY <1>3, <1>4, <1>6, <1>10, <1>11, PickedIs
  <2>4. \A k \in DOMAIN picked : picked[k].i \notin open
    BY <1>3, <2>3
  <2>5. b.flow = "consolidate" /\ b.ins = picked /\ ~b.sent /\ b.for = "clear"
    BY <1>7, FlowIs
  <2>6. Safe(m, b) /\ \A k \in DOMAIN b.ins : k # 1 => NoneOwed(b.ins[k])
    BY <1>2, <1>9, <2>3, <2>4, <2>5, MergeSafe
  <2> QED BY <1>1, <1>10, <1>13, <2>2, <2>6, StrandRelays
<1> QED BY <1>8, <1>12, <1>13

\* A claim is paid to the last note of its lineage.
LEMMA CreditStrands ==
    ASSUME Inv, StrandInv, Sides \subseteq {"YES"}, NEW s \in 1..tabs,
           NEW r \in getOpenBetReceipts(mem[s]),
           NEW f \in Credits, NEW amt, NEW b, b = BetOf(r), CreditStarts(s, r, f, amt),
           f = "betCancel" => amt = bets[b].stake + bets[b].fee,
           f = "partial" => amt = Refund(bets[b].stake, bets[b].fee, bets[b].filled),
           f = "close" => amt = bets[b].soldAtt
    PROVE  StrandInv'
<1>1. PICK c : c = mem[s]
  OBVIOUS
<1>2. TipInv /\ Kept(c) /\ Aware(c) /\ r \in c /\ r.kind = "BET_RECEIPT"
  BY <1>1, TabKnows DEF getOpenBetReceipts, Inv
<1>3. r \in BetReceipts /\ b \in DOMAIN bets
  BY <1>2 DEF Kept, CashNotes
<1>4. PICK side : side = r.side
  OBVIOUS
<1>5. side \in AnySide /\ b[1] = r.i
  BY <1>3, <1>4 DEF BetReceipts, BetOf
<1>6. PICK note \in getFreeNoteForDeposit(c, r.i) :
        Sends(s, Flow(f, <<note>>, b, amt, side, "none", {})) /\ UNCHANGED <<mem, disk>>
  BY <1>1, <1>4 DEF CreditStarts
<1>7. note.i = r.i /\ note \in getFreeNotes(c)
  BY <1>6 DEF getFreeNoteForDeposit
<1>8. PICK o, keeps : o = Flow(f, <<note>>, b, amt, side, "none", keeps) /\ keeps = {}
  OBVIOUS
<1>9. Relayed(o)
  BY <1>3, <1>5, <1>7, <1>8, CreditFlow
<1>10. Sends(s, o) /\ UNCHANGED <<mem, disk>>
  BY <1>6, <1>8
<1>11. o.flow = f /\ o.ins = <<note>> /\ ~o.sent
  BY <1>8, FlowIs
<1>12. Told(c, note) /\ Behind(note)
  BY <1>2, <1>7, CashBehind DEF Aware
<1>13. o.flow \notin {"consolidate", "withdraw"}
  BY <1>11 DEF Credits
<1>14. Safe(c, o)
  BY <1>11, <1>12, <1>13, SingleSafe
<1> QED BY <1>1, <1>2, <1>9, <1>10, <1>13, <1>14, StrandRelays

LEMMA ClaimsStrand ==
    ASSUME Inv, StrandInv, Sides \subseteq {"YES"}, NEW s \in 1..tabs,
           \/ settlePosition(s) \/ closeLosses(s) \/ BetCancelRefund(s)
           \/ creditFailedReclaim(s) \/ finalizePartialFill(s) \/ finalizeClose(s)
    PROVE  StrandInv'
<1>1. CASE settlePosition(s) \/ closeLosses(s)
  <2>1. PICK f \in Credits : f = "settle"
    BY DEF Credits
  <2>2. PICK r \in getOpenBetReceipts(mem[s]) :
          CreditStarts(s, r, f, ClaimAmount(r)) \/ CreditStarts(s, r, f, 0)
    BY <1>1, <2>1 DEF settlePosition, closeLosses
  <2>3. PICK amt : CreditStarts(s, r, f, amt)
    BY <2>2
  <2>4. PICK b : b = BetOf(r)
    OBVIOUS
  <2>5. f \notin {"betCancel", "partial", "close"}
    BY <2>1
  <2> QED BY <2>3, <2>4, <2>5, CreditStrands
<1>2. CASE BetCancelRefund(s) \/ creditFailedReclaim(s)
  <2>1. PICK f \in Credits : f = "betCancel"
    BY DEF Credits
  <2>2. PICK r \in getOpenBetReceipts(mem[s]) :
          CreditStarts(s, r, f, bets[BetOf(r)].stake + bets[BetOf(r)].fee)
    BY <1>2, <2>1 DEF BetCancelRefund, creditFailedReclaim
  <2>3. PICK b : b = BetOf(r)
    OBVIOUS
  <2>4. PICK amt : amt = bets[b].stake + bets[b].fee
    OBVIOUS
  <2>5. CreditStarts(s, r, f, amt)
    BY <2>2, <2>3, <2>4
  <2>6. f \notin {"partial", "close"}
    BY <2>1
  <2> QED BY <2>3, <2>4, <2>5, <2>6, CreditStrands
<1>3. CASE finalizePartialFill(s)
  <2>1. PICK f \in Credits : f = "partial"
    BY DEF Credits
  <2>2. PICK r \in getOpenBetReceipts(mem[s]) :
          CreditStarts(s, r, f, Refund(bets[BetOf(r)].stake, bets[BetOf(r)].fee,
                                       bets[BetOf(r)].filled))
    BY <1>3, <2>1 DEF finalizePartialFill
  <2>3. PICK b : b = BetOf(r)
    OBVIOUS
  <2>4. PICK amt : amt = Refund(bets[b].stake, bets[b].fee, bets[b].filled)
    OBVIOUS
  <2>5. CreditStarts(s, r, f, amt)
    BY <2>2, <2>3, <2>4
  <2>6. f \notin {"betCancel", "close"}
    BY <2>1
  <2> QED BY <2>3, <2>4, <2>5, <2>6, CreditStrands
<1>4. CASE finalizeClose(s)
  <2>1. PICK f \in Credits : f = "close"
    BY DEF Credits
  <2>2. PICK r \in getOpenBetReceipts(mem[s]) : CreditStarts(s, r, f, bets[BetOf(r)].soldAtt)
    BY <1>4, <2>1 DEF finalizeClose
  <2>3. PICK b : b = BetOf(r)
    OBVIOUS
  <2>4. PICK amt : amt = bets[b].soldAtt
    OBVIOUS
  <2>5. CreditStarts(s, r, f, amt)
    BY <2>2, <2>3, <2>4
  <2>6. f \notin {"betCancel", "partial"}
    BY <2>1
  <2> QED BY <2>3, <2>4, <2>5, <2>6, CreditStrands
<1> QED BY <1>1, <1>2, <1>3, <1>4

\* A bet or a withdrawal that waited for its merge.
LEMMA MergedStrands ==
    ASSUME Inv, StrandInv, Sides \subseteq {"YES"}, NEW s \in 1..tabs, relayMerged(s)
    PROVE  StrandInv'
<1>1. PICK c, o : c = mem[s] /\ o = op[s]
  OBVIOUS
<1>2. OpOk(o) /\ Kept(c) /\ Aware(c) /\ Safe(c, o)
  BY <1>1, TabKnows
<1>3. /\ o.flow # "none" /\ o.flow # "deposit" /\ ~o.sent /\ Sends(s, o)
      /\ UNCHANGED <<mem, disk>>
  BY <1>1 DEF relayMerged, Idle
<1>4. Relayed(o) /\ o.flow # "consolidate"
  BY <1>2, <1>3 DEF OpOk, Relayed, Priced, Credits
<1> QED BY <1>1, <1>2, <1>3, <1>4, StrandRelays

\* A step of one tab that leaves the chain alone.
LEMMA TabStrands ==
    ASSUME Inv, StrandInv, UNCHANGED chain, NEW s \in 1..tabs, NEW m, Kept(m), Aware(m),
           NEW p, OpOk(p), Safe(m, p),
           Save(s, m) \/ SaveIfChanged(s, m) \/ (m = mem[s] /\ UNCHANGED <<mem, disk>>),
           op' = [op EXCEPT ![s] = p] \/ (p = op[s] /\ UNCHANGED op)
    PROVE  StrandInv'
<1>1. CacheInv /\ OpInv /\ s \in Sessions
  BY InvIs, TabIs
<1>2. disk' \in {m, disk} /\ \A t \in Sessions : mem'[t] = IF t = s THEN m ELSE mem[t]
  BY <1>1, CacheWritten
<1>3. \A t \in Sessions : op'[t] = IF t = s THEN p ELSE op[t]
  <2>1. CASE op' = [op EXCEPT ![s] = p]
    BY <1>1, <2>1, OpWritten
  <2> QED BY <2>1
<1>4. \A t \in Sessions : /\ mem'[t] = IF t = s THEN m ELSE mem[t]
                          /\ op'[t] = IF t = s THEN p ELSE op[t]
  BY <1>2, <1>3
<1> QED BY <1>2, <1>4, StrandQuiet

LEMMA ReconcileStrands ==
    ASSUME Inv, StrandInv, NEW s \in 1..tabs, reconcileSpentStatus(s)
    PROVE  StrandInv'
<1>1. PICK c, o : c = mem[s] /\ o = op[s]
  OBVIOUS
<1>2. OpOk(o) /\ Kept(c) /\ Aware(c) /\ Safe(c, o)
  BY <1>1, TabKnows
<1>3. PICK m : m = Reconciled(c)
  OBVIOUS
<1>4. Kept(m) /\ Aware(m) /\ Safe(m, o)
  BY <1>2, <1>3, ReconciledKept, ReconciledAware, SafeTold
<1>5. Save(s, m) /\ UNCHANGED chain /\ UNCHANGED op
  BY <1>1, <1>3 DEF reconcileSpentStatus
<1> QED BY <1>1, <1>2, <1>4, <1>5, TabStrands

LEMMA RetireStrands ==
    ASSUME Inv, StrandInv, Sides \subseteq {"YES"}, NEW s \in 1..tabs, retireReceipts(s)
    PROVE  StrandInv'
<1>1. PICK c, o : c = mem[s] /\ o = op[s]
  OBVIOUS
<1>2. BetsInv /\ OpOk(o) /\ Kept(c) /\ Aware(c) /\ Safe(c, o)
  BY <1>1, TabKnows DEF Inv
<1>3. PICK done : done = {r \in getOpenBetReceipts(c) :
                            Lost(r) \/ bets[BetOf(r)].status \in Terminal}
  OBVIOUS
<1>4. PICK keys : keys = {BetOf(r) : r \in done}
  OBVIOUS
<1>5. \A b \in keys : ~Owed(b)
  <2>1. ASSUME NEW r \in done PROVE ~Owed(BetOf(r))
    BY <1>2, <1>3, DoneIsNotOwed
  <2>2. ASSUME NEW b \in keys PROVE ~Owed(b)
    <3>1. PICK r \in done : b = BetOf(r)
      BY <1>4
    <3>2. PICK key : key = BetOf(r)
      OBVIOUS
    <3>3. ~Owed(key)
      BY <2>1, <3>2
    <3> QED BY <3>1, <3>2, <3>3
  <2> QED BY <2>2
<1>6. PICK m : m = markBetReceiptSpent(c, keys)
  OBVIOUS
<1>7. Kept(m) /\ Aware(m) /\ \A x : Told(c, x) => Told(m, x)
  BY <1>2, <1>5, <1>6, ReceiptsSpentKept, RetiredAware
<1>8. Safe(m, o)
  BY <1>2, <1>7, SafeTold
<1>9. Save(s, m) /\ UNCHANGED chain /\ UNCHANGED op
  BY <1>1, <1>3, <1>4, <1>6 DEF retireReceipts
<1> QED BY <1>1, <1>2, <1>7, <1>8, <1>9, TabStrands

LEMMA HydrateStrands ==
    ASSUME Inv, StrandInv, NEW s \in 1..tabs, hydrateCache(s)
    PROVE  StrandInv'
<1>1. PICK d \in readEncrypted : Save(s, Healed(Reconciled(d)))
  BY DEF hydrateCache
<1>2. PICK c : c = disk
  OBVIOUS
<1>3. Kept(c) /\ Aware(c) /\ d \in {c, {}}
  BY <1>2 DEF Inv, CacheInv, readEncrypted, StrandInv
<1>4. Kept(d) /\ Aware(d)
  BY <1>3, KeptEmpty, AwareEmpty
<1>5. PICK p : p = Reconciled(d)
  OBVIOUS
<1>6. Kept(p) /\ Aware(p)
  BY <1>4, <1>5, ReconciledKept, ReconciledAware
<1>7. PICK m : m = Healed(p)
  OBVIOUS
<1>8. Kept(m) /\ Aware(m)
  BY <1>6, <1>7, HealedKept, HealedAware
<1>9. PICK o : o = NoOp
  OBVIOUS
<1>10. OpOk(o) /\ Safe(m, o)
  BY <1>9, NoOpOk, SafeIdle DEF NoOp
<1>11. Save(s, m) /\ UNCHANGED chain /\ op' = [op EXCEPT ![s] = o]
  BY <1>1, <1>5, <1>7, <1>9 DEF hydrateCache
<1> QED BY <1>8, <1>10, <1>11, TabStrands

\* The cache of a tab without a flow in flight is wiped or replaced.
LEMMA ConnectStrands ==
    ASSUME Inv, StrandInv, "midFlow" \notin Faults, NEW s \in 1..tabs, WalletConnect(s)
    PROVE  StrandInv'
<1>1. PICK m, o : m = {} /\ o = op[s]
  OBVIOUS
<1>2. OpOk(o) /\ o.flow = "none"
  BY <1>1, TabKnows DEF WalletConnect, Idle
<1>3. Kept(m) /\ Aware(m) /\ Safe(m, o)
  BY <1>1, <1>2, KeptEmpty, AwareEmpty, SafeIdle
<1>4. Save(s, m) /\ UNCHANGED chain /\ UNCHANGED op
  BY <1>1 DEF WalletConnect, resetAllLocalState, Save
<1> QED BY <1>1, <1>2, <1>3, <1>4, TabStrands

LEMMA RecoverStrands ==
    ASSUME Inv, StrandInv, MergedOnce, "midFlow" \notin Faults, NEW s \in 1..tabs,
           NEW k \in IndexHeads, handleRecover(s, k)
    PROVE  StrandInv'
<1>1. ChainInv
  BY InvIs
<1>2. k \in 0..Len(log)
  BY <1>1, HeadsAre
<1>3. PICK m : m = recoverNotes(RecoveryEvents(k))
  OBVIOUS
<1>4. Kept(m) /\ Aware(m)
  BY <1>1, <1>2, <1>3, RestoredKept, RestoredAware
<1>5. PICK o : o = op[s]
  OBVIOUS
<1>6. OpOk(o) /\ o.flow = "none"
  BY <1>5, TabKnows DEF handleRecover, Idle
<1>7. Safe(m, o)
  BY <1>6, SafeIdle
<1>8. Save(s, m) /\ UNCHANGED chain /\ UNCHANGED op
  BY <1>3 DEF handleRecover
<1> QED BY <1>4, <1>5, <1>6, <1>7, <1>8, TabStrands

\* A flow ends, or goes on with what it has.
LEMMA FlowStrands ==
    ASSUME Inv, StrandInv, UNCHANGED <<chain, mem, disk>>, NEW s \in 1..tabs, NEW p, OpOk(p),
           \A m : Safe(m, op[s]) => Safe(m, p), op' = [op EXCEPT ![s] = p]
    PROVE  StrandInv'
<1>1. PICK m, o : m = mem[s] /\ o = op[s]
  OBVIOUS
<1>2. Kept(m) /\ Aware(m) /\ Safe(m, o)
  BY <1>1, TabKnows
<1>3. Safe(m, p)
  BY <1>1, <1>2
<1> QED BY <1>1, <1>2, <1>3, TabStrands

LEMMA EndsStrand ==
    ASSUME Inv, StrandInv, NEW s \in 1..tabs,
           depositStarts(s) \/ depositRejected(s) \/ waitForTransactionConfirmation(s)
    PROVE  StrandInv'
<1>1. UNCHANGED <<chain, mem, disk>>
  BY DEF depositStarts, depositRejected, waitForTransactionConfirmation, cache
<1>2. CASE depositStarts(s)
  <2>2. PICK p : op' = [op EXCEPT ![s] = p] /\ p.flow = "deposit"
    <3>1. PICK i : op' = [op EXCEPT ![s] = Flow("deposit", <<Cash(i, 0, 0)>>, NoBet,
                                                DepositAmount, "none", "none", {})]
      BY <1>2 DEF depositStarts
    <3>2. PICK p : p = Flow("deposit", <<Cash(i, 0, 0)>>, NoBet, DepositAmount, "none", "none", {})
      OBVIOUS
    <3>3. p.flow = "deposit"
      BY <3>2 DEF Flow
    <3> QED BY <3>1, <3>2, <3>3
  <2>3. \A m : Safe(m, p)
    BY <2>2, SafeIdle
  <2>4. PICK m, o : m = mem[s] /\ o = op[s]
    OBVIOUS
  <2>5. Kept(m) /\ Aware(m) /\ s \in Sessions /\ OpInv
    BY <2>4, TabKnows, InvIs
  <2>6. \A t \in Sessions : /\ mem'[t] = IF t = s THEN m ELSE mem[t]
                            /\ op'[t] = IF t = s THEN p ELSE op[t]
    BY <1>1, <2>2, <2>4, <2>5, OpWritten
  <2>7. ChainInv /\ ChainInv' /\ Later
    BY <1>1, InvIs, ChainStays
  <2>8. Onto /\ TipInv /\ TipInv' /\ NoStranding /\ UNCHANGED <<tip, bets>>
    BY <1>1, <2>7, SameOnto DEF chain, ChainInv, StrandInv
  <2>9. Fewer
    BY <2>8 DEF Onto
  <2>10. NoStranding'
    BY <2>7, <2>8, <2>9, StrandsStay
  <2>11. Aware(m)' /\ Safe(m, p)'
    <3>1. Aware(m)'
      BY <2>5, <2>8, <2>9, AwareOnto
    <3>2. Safe(m, p)'
      BY <2>2 DEF Safe
    <3> QED BY <3>1, <3>2
  <2>12. disk' \in {m, disk}
    BY <1>1
  <2>13. Onto /\ TipInv'
    BY <2>8
  <2> QED BY <2>6, <2>10, <2>11, <2>12, <2>13, Assembled
<1>3. CASE depositRejected(s)
  <2>1. PICK p : p = NoOp
    OBVIOUS
  <2>2. OpOk(p) /\ \A m : Safe(m, p)
    BY <2>1, NoOpOk, SafeIdle DEF NoOp
  <2>3. op' = [op EXCEPT ![s] = p]
    BY <1>3, <2>1 DEF depositRejected
  <2> QED BY <1>1, <2>2, <2>3, FlowStrands
<1>4. CASE waitForTransactionConfirmation(s)
  <2>1. PICK o : o = op[s]
    OBVIOUS
  <2>2. PICK p : p = AfterFailure(o)
    OBVIOUS
  <2>3. OpOk(p) /\ \A m : Safe(m, o) => Safe(m, p)
    BY <2>2, AfterFailureOk, FailedSafe
  <2>4. op' = [op EXCEPT ![s] = p]
    BY <1>4, <2>1, <2>2 DEF waitForTransactionConfirmation
  <2> QED BY <1>1, <2>1, <2>3, <2>4, FlowStrands
<1> QED BY <1>2, <1>3, <1>4

\* A deposit begins a lineage that no bet is owed to.
LEMMA DepositStrands ==
    ASSUME Inv, StrandInv, NEW s \in 1..tabs, doDeposit(s)
    PROVE  StrandInv'
<1>1. PICK m, o : m = mem[s] /\ o = op[s]
  OBVIOUS
<1>2. OpOk(o) /\ o.flow = "deposit" /\ ~o.sent /\ Deposits(o) /\ Kept(m) /\ Aware(m)
  BY <1>1, TabKnows DEF doDeposit
<1>3. IsFlow(o) /\ Depositing(o)
  BY <1>2 DEF OpOk
<1>4. ChainInv /\ OpInv /\ TipInv /\ NoStranding /\ s \in Sessions
  BY InvIs, TabIs DEF ChainInv, StrandInv
<1>5. ChainInv' /\ Later
  BY <1>2, <1>3, <1>4, Deposited1
<1>6. UNCHANGED <<mem, disk, bets, market>>
  BY <1>2 DEF doDeposit, cache, Deposits
<1>7. Onto /\ TipInv'
  BY <1>5, <1>6, SameOnto DEF ChainInv
<1>8. Fewer
  BY <1>7 DEF Onto
<1>9. \A i \in Indices : tip[i].live => tip'[i].live
  <2>1. PICK k : k = o.ins[1].i
    OBVIOUS
  <2>2. tip' = tip \/ \E a : tip' = [tip EXCEPT ![k] = [n |-> 0, bal |-> a, live |-> TRUE]]
    BY <1>2, <2>1 DEF Deposits
  <2>3. DOMAIN tip = Indices
    BY <1>4 DEF TipInv
  <2>4. CASE tip' = tip
    BY <2>4
  <2>5. CASE \E a : tip' = [tip EXCEPT ![k] = [n |-> 0, bal |-> a, live |-> TRUE]]
    <3>1. PICK a : tip' = [tip EXCEPT ![k] = [n |-> 0, bal |-> a, live |-> TRUE]]
      BY <2>5
    <3>2. PICK new : new = [n |-> 0, bal |-> a, live |-> TRUE]
      OBVIOUS
    <3>3. tip' = [tip EXCEPT ![k] = new] /\ new.live
      BY <3>1, <3>2
    <3> QED BY <2>3, <3>3
  <2> QED BY <2>2, <2>4, <2>5
<1>10. NoStranding'
  BY <1>4, <1>6, <1>8, <1>9, StrandsStay
<1>11. PICK p : p = [o EXCEPT !.sent = TRUE]
  OBVIOUS
<1>12. op' = [op EXCEPT ![s] = p]
  BY <1>1, <1>11 DEF doDeposit
<1>13. p.flow = "deposit"
  BY <1>2, <1>3, <1>11 DEF IsFlow
<1>14. Aware(m)' /\ Safe(m, p)'
  <2>1. Aware(m)'
    BY <1>2, <1>4, <1>8, AwareOnto
  <2>2. Safe(m, p)'
    BY <1>13 DEF Safe
  <2> QED BY <2>1, <2>2
<1>15. \A t \in Sessions : /\ mem'[t] = IF t = s THEN m ELSE mem[t]
                           /\ op'[t] = IF t = s THEN p ELSE op[t]
  BY <1>1, <1>4, <1>6, <1>12, OpWritten
<1>16. disk' \in {m, disk}
  BY <1>6
<1> QED BY <1>7, <1>10, <1>14, <1>15, <1>16, Assembled

\* The first note of a lineage has no bet behind it.
LEMMA DepositConfirmedStrands ==
    ASSUME Inv, StrandInv, NEW s \in 1..tabs, depositConfirmed(s)
    PROVE  StrandInv'
<1>1. PICK c, o : c = mem[s] /\ o = op[s]
  OBVIOUS
<1>2. OpOk(o) /\ o.flow = "deposit" /\ o.sent /\ Kept(c) /\ Aware(c)
  BY <1>1, TabKnows DEF depositConfirmed
<1>3. PICK i \in Indices : o.ins = <<Cash(i, 0, 0)>> /\ o.amt = DepositAmount /\ tip[i] # NoNote
  BY <1>2 DEF OpOk, Depositing
<1>4. PICK x : x = Output(o)
  OBVIOUS
<1>5. x = Cash(i, 0, DepositAmount)
  BY <1>2, <1>3, <1>4 DEF Output, NewBalance, Cash
<1>6. x.i = i /\ x.n = 0 /\ x.bal = DepositAmount /\ x \in CashNotes
  BY <1>5, WalletAssumption DEF Cash, CashNotes
<1>7. tip[i].n \in Nat /\ (tip[i].n = 0 /\ tip[i].live => tip[i].bal = DepositAmount)
  BY <1>3 DEF Inv, TipInv
<1>8. Open(x)
  BY <1>6, <1>7 DEF Open
<1>9. PICK m : m = addNote(c, x)
  OBVIOUS
<1>10. Kept(m)
  BY <1>2, <1>6, <1>8, <1>9, NoteAdded
<1>11. Told(m, x)
  <2>1. \A b \in DOMAIN bets : b[2] \in Nat
    BY DEF Inv, BetsInv
  <2> QED BY <1>6, <2>1 DEF Told
<1>12. \A y : Told(c, y) => Told(m, y)
  <2>1. c \subseteq m
    BY <1>9 DEF addNote
  <2> QED BY <2>1, MoreReceipts
<1>13. getFreeNotes(m) \subseteq getFreeNotes(c) \cup {x}
  BY <1>9 DEF addNote, getFreeNotes
<1>14. Aware(m)
  BY <1>2, <1>11, <1>12, <1>13, AwareMore
<1>15. PICK p : p = NoOp
  OBVIOUS
<1>16. OpOk(p) /\ Safe(m, p)
  BY <1>15, NoOpOk, SafeIdle DEF NoOp
<1>17. Save(s, m) /\ UNCHANGED chain /\ op' = [op EXCEPT ![s] = p]
  BY <1>1, <1>4, <1>9, <1>15 DEF depositConfirmed
<1> QED BY <1>10, <1>14, <1>16, <1>17, TabStrands

LEMMA ConfirmedStrands ==
    ASSUME Inv, StrandInv, NEW s \in 1..tabs, confirmed(s)
    PROVE  StrandInv'
<1>1. PICK c, o : c = mem[s] /\ o = op[s]
  OBVIOUS
<1>2. /\ OpOk(o) /\ o.flow # "none" /\ o.flow # "deposit" /\ o.sent
      /\ Kept(c) /\ Aware(c) /\ Safe(c, o)
  BY <1>1, TabKnows DEF confirmed, Idle
<1>3. IsFlow(o) /\ Landed(o)
  BY <1>2 DEF OpOk
<1>4. PICK m, x, p : m = Cached(c, o) /\ x = Output(o) /\ p = NextFlow(o)
  OBVIOUS
<1>5. Sides \subseteq AnySide /\ BetsInv /\ TipInv
  BY WalletAssumption DEF AnySide, Inv
<1>6. Kept(m)
  BY <1>2, <1>3, <1>4, <1>5, CachedKept
<1>7. o.flow \notin {"none", "deposit"}
  BY <1>2
<1>8. Aware(m) /\ (Drains(o) \/ Told(m, x))
  BY <1>2, <1>3, <1>4, <1>5, <1>7, CachedAware
<1>9. Safe(m, p)
  BY <1>2, <1>3, <1>4, <1>5, <1>7, <1>8, NextSafe
<1>10. OpOk(p)
  BY <1>3, <1>4, NextFlowOk
<1>11. Save(s, m) /\ UNCHANGED chain /\ op' = [op EXCEPT ![s] = p]
  BY <1>1, <1>4 DEF confirmed
<1> QED BY <1>6, <1>8, <1>9, <1>10, <1>11, TabStrands

\* The operator ends no lineage and makes no bet owe more.
LEMMA OperatorStrands ==
    ASSUME Inv, StrandInv, attests \/ attestsSale \/ resolves
    PROVE  StrandInv'
<1>1. UNCHANGED <<mem, disk, op>>
  BY DEF attests, attestsSale, resolves, cache, bounds
<1>2. ChainInv /\ CacheInv /\ OpInv /\ tabs \in Sessions /\ TipInv /\ NoStranding
  BY InvIs DEF ChainInv, StrandInv
<1>3. ChainInv'
  BY <1>2, OthersKeep
<1>4. Onto /\ tip' = tip /\ DOMAIN bets' = DOMAIN bets
  BY <1>2, OperatorOnto
<1>5. TipInv' /\ Fewer
  BY <1>3, <1>4 DEF ChainInv, Onto
<1>6. NoStranding'
  BY <1>2, <1>4, <1>5, StrandsStay
<1>7. PICK s \in Sessions : s = tabs
  BY <1>2
<1>8. PICK m, p : m = mem[s] /\ p = op[s]
  OBVIOUS
<1>9. Kept(m) /\ Aware(m) /\ OpOk(p) /\ Safe(m, p)
  BY <1>2, <1>7, <1>8 DEF CacheInv, OpInv, StrandInv
<1>10. Aware(m)' /\ Safe(m, p)'
  BY <1>2, <1>4, <1>5, <1>9, AwareOnto, SafeStays
<1>11. \A t \in Sessions : /\ mem'[t] = IF t = s THEN m ELSE mem[t]
                           /\ op'[t] = IF t = s THEN p ELSE op[t]
  BY <1>1, <1>8
<1>12. disk' \in {m, disk}
  BY <1>1
<1> QED BY <1>4, <1>5, <1>6, <1>10, <1>11, <1>12, Assembled

LEMMA StutterStrands ==
    ASSUME Inv, StrandInv, UNCHANGED vars
    PROVE  StrandInv'
<1>1. UNCHANGED <<chain, mem, disk, op>>
  BY DEF vars, cache, bounds
<1>2. CacheInv /\ OpInv /\ tabs \in Sessions
  BY InvIs
<1>3. PICK s \in Sessions : s = tabs
  BY <1>2
<1>4. PICK m, p : m = mem[s] /\ p = op[s]
  OBVIOUS
<1>5. Kept(m) /\ Aware(m) /\ OpOk(p) /\ Safe(m, p)
  BY <1>2, <1>4 DEF CacheInv, OpInv, StrandInv
<1>6. \A t \in Sessions : /\ mem'[t] = IF t = s THEN m ELSE mem[t]
                          /\ op'[t] = IF t = s THEN p ELSE op[t]
  BY <1>1, <1>4
<1>7. disk' \in {m, disk} /\ UNCHANGED chain
  BY <1>1
<1> QED BY <1>5, <1>6, <1>7, StrandQuiet

LEMMA NextStrands ==
    ASSUME Inv, StrandInv, Sides \subseteq {"YES"}, "midFlow" \notin Faults, MergedOnce,
           [Next]_vars
    PROVE  StrandInv'
<1>1. CASE \E s \in 1..tabs :
             \/ reconcileSpentStatus(s) \/ retireReceipts(s) \/ hydrateCache(s)
             \/ WalletConnect(s) \/ \E k \in IndexHeads : handleRecover(s, k)
  BY <1>1, ReconcileStrands, RetireStrands, HydrateStrands, ConnectStrands, RecoverStrands
<1>2. CASE \E s \in 1..tabs :
             \/ depositStarts(s) \/ doDeposit(s) \/ depositRejected(s) \/ depositConfirmed(s)
             \/ confirmed(s) \/ waitForTransactionConfirmation(s)
  BY <1>2, EndsStrand, DepositStrands, DepositConfirmedStrands, ConfirmedStrands
<1>3. CASE \E s \in 1..tabs :
             \/ betStarts(s) \/ withdrawStarts(s) \/ withdrawClearLineages(s) \/ relayMerged(s)
  BY <1>3, BetStrands, WithdrawStrands, ClearStrands, MergedStrands
<1>4. CASE \E s \in 1..tabs :
             \/ settlePosition(s) \/ closeLosses(s) \/ BetCancelRefund(s)
             \/ creditFailedReclaim(s) \/ finalizePartialFill(s) \/ finalizeClose(s)
  BY <1>4, ClaimsStrand
<1>5. CASE attests \/ attestsSale \/ resolves
  BY <1>5, OperatorStrands
<1>6. CASE UNCHANGED vars
  BY <1>6, StutterStrands
<1> QED BY <1>1, <1>2, <1>3, <1>4, <1>5, <1>6 DEF Next

LEMMA InitStrand ==
    ASSUME Init
    PROVE  StrandInv
<1>1. DOMAIN bets = {} /\ disk = {} /\ \A s \in Sessions : mem[s] = {} /\ op[s] = NoOp
  BY DEF Init
<1>2. NoStranding
  BY <1>1 DEF NoStranding
<1>3. Aware(disk)
  BY <1>1, AwareEmpty
<1>4. ASSUME NEW s \in Sessions PROVE Aware(mem[s]) /\ Safe(mem[s], op[s])
  <2>1. PICK m, o : m = mem[s] /\ o = op[s]
    OBVIOUS
  <2>2. m = {} /\ o = NoOp
    BY <1>1, <2>1
  <2>3. Aware(m) /\ Safe(m, o)
    BY <2>2, AwareEmpty, SafeIdle DEF NoOp
  <2> QED BY <2>1, <2>3
<1> QED BY <1>2, <1>3, <1>4 DEF StrandInv

LEMMA StrandKept ==
    ASSUME Sides \subseteq {"YES"}, "midFlow" \notin Faults
    PROVE  Spec /\ []MergedOnce => []StrandInv
<1>1. Inv /\ MergedOnce /\ StrandInv /\ [Next]_vars => StrandInv'
  BY NextStrands
<1>2. Init => StrandInv
  BY InitStrand
<1> QED BY <1>1, <1>2, InvKept, PTL DEF Spec

(* NoStranding: a bet that can still pay its owner has the open last note of its
   lineage to be paid into.  A cache that shows a cash note shows a receipt of
   every bet behind it that can pay, so selectNotesForAmount, effectiveWithdrawal
   and the Clear flow never spend the last of a lineage that is owed money, with
   any number of tabs, stale caches, wipes, Restores and lost confirmations; the
   cache must not be emptied or replaced in the middle of a flow.             *)
THEOREM NothingIsStranded ==
    ASSUME Sides \subseteq {"YES"}, "midFlow" \notin Faults
    PROVE  Spec /\ []MergedOnce => []NoStranding
<1>1. StrandInv => NoStranding
  BY DEF StrandInv
<1> QED BY <1>1, StrandKept, PTL
=============================================================================
