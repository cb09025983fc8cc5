---------------------------- MODULE OperatorProofs ----------------------------
(***************************************************************************)
(* Theorems about the operator's own accounts.  Of Funding: what is        *)
(* deployed and the bets' gains bound the capital outside the Vault, and   *)
(* no two top-ups fill one shortfall, for every number of bets, every      *)
(* amount of money and every set of faults.  Of Nonces: a call sends at    *)
(* most once, unless an accepted transaction was answered "already known", *)
(* and the relay's lock keeps numbers apart, for every number of requests, *)
(* of numbers taken ahead and of failures.                                 *)
(***************************************************************************)
EXTENDS Funding, Nonces, SequenceTheorems, FiniteSetTheorems, WellFoundedInduction, TLAPS

-----------------------------------------------------------------------------
(* Funding: the invariant.                                                 *)

\* What has come back and is not yet acknowledged
UnacknowledgedOf(step) == IF step.pc \in {"deployed", "ack"} THEN step.n ELSE 0
Unacknowledged == UnacknowledgedOf(script) + UnacknowledgedOf(redemption)

\* What was deployed, and the gains, bound what is outside and what came back
\* unacknowledged.
CapInv ==
    /\ dwUsdc + dwPusd + paid + Unacknowledged <= deployed + gains
    /\ deployed <= Cap

Within(n) == \E level \in Stakes \cup {Low, Target} : n <= level + extra

\* Only the first task of the chain is between its calls, and what it has asked for was
\* missing: with it the wallet stays within the level the task tops up to.
TurnInv ==
    \A t \in Tasks : jobs[t].pc # "read" => HasTurn(t) /\ Within(dwPusd + jobs[t].n)

Inv == TypeOK /\ CapInv /\ TurnInv /\ NeverDoubleFunded

-----------------------------------------------------------------------------
(* The chain of tasks.                                                     *)

\* The calls a task and the script go through.
LEMMA StepsAre ==
    ASSUME NEW n \in Nat, NEW k \in 1..Retries
    PROVE  /\ \A pc \in {"read", "fund", "wait", "wrap"} : Step(pc, n, k) \in Jobs
           /\ \A pc \in {"idle", "offramp", "balance", "sweep", "deployed", "ack"} :
                 Step(pc, n, k) \in ScriptSteps
           /\ \A pc : Step(pc, n, k).n = n /\ Step(pc, n, k).pc = pc
BY FundingAssumption DEF Jobs, ScriptSteps, Step

\* There is a first attempt.
LEMMA FirstTry == 1 \in 1..Retries
BY FundingAssumption

\* Taking a task off the chain leaves a chain of tasks.
LEMMA WithoutTyped ==
    ASSUME TypeOK, NEW t \in Tasks, HasTurn(t)
    PROVE  Without(t) \in Seq(Tasks)
<1>1. queue \in Seq(Tasks) /\ Len(queue) \in Nat /\ DOMAIN queue = 1..Len(queue)
  BY LenProperties DEF TypeOK
<1>2. 1 \in DOMAIN queue /\ queue[1] = t
  BY <1>1 DEF HasTurn
<1>3. PICK i \in DOMAIN queue : i = CHOOSE j \in DOMAIN queue : queue[j] = t
  BY <1>2
<1>4. i \in 1..Len(queue) /\ i - 1 \in Int /\ i + 1 \in Int
  BY <1>1, <1>3
<1>5. \A k \in 1..Len(queue) : queue[k] \in Tasks
  BY <1>1, ElementOfSeq
<1>6. SubSeq(queue, 1, i - 1) \in Seq(Tasks)
  <2>1. \A k \in 1..(i - 1) : queue[k] \in Tasks
    BY <1>1, <1>4, <1>5
  <2> QED BY <1>4, <2>1, SubSeqProperties
<1>7. SubSeq(queue, i + 1, Len(queue)) \in Seq(Tasks)
  <2>1. \A k \in (i + 1)..Len(queue) : queue[k] \in Tasks
    BY <1>1, <1>4, <1>5
  <2> QED BY <1>1, <1>4, <2>1, SubSeqProperties
<1> QED BY <1>3, <1>6, <1>7, ConcatProperties DEF Without

\* The first task stays first when one joins the chain.
LEMMA JoinsChain ==
    ASSUME TypeOK, NEW x \in Tasks
    PROVE  /\ Append(queue, x) \in Seq(Tasks) /\ Append(queue, x) # <<>>
           /\ \A t \in Tasks : HasTurn(t) => Head(Append(queue, x)) = t
<1>1. queue \in Seq(Tasks)
  BY DEF TypeOK
<1> QED BY <1>1, AppendProperties, HeadTailAppend DEF HasTurn

\* A task that ends has left the chain, and no task is between its calls.
LEMMA DoneEnds ==
    ASSUME TypeOK, TurnInv, NEW t \in Tasks, NEW ok \in BOOLEAN, HasTurn(t), Done(t, ok)
    PROVE  /\ bets' \in [Bets -> {"new", "asked", "funded", "unfunded", "spent", "closed"}]
           /\ queue' \in Seq(Tasks) /\ running' \in BOOLEAN /\ jobs' \in [Tasks -> Jobs]
           /\ \A u \in Tasks : jobs'[u].pc = "read"
           /\ UNCHANGED redemption
<1>1. Start \in Jobs /\ Start.pc = "read"
  BY FundingAssumption DEF Start, Step, Jobs
<1>2. jobs \in [Tasks -> Jobs] /\ jobs' = [jobs EXCEPT ![t] = Start]
  BY DEF TypeOK, Done
<1>3. jobs' \in [Tasks -> Jobs] /\ \A u \in Tasks : jobs'[u].pc = "read"
  <2>1. \A u \in Tasks : u # t => jobs[u].pc = "read"
    BY DEF TurnInv, HasTurn
  <2>2. jobs' \in [Tasks -> Jobs]
    BY <1>1, <1>2
  <2>3. \A u \in Tasks : jobs'[u] = IF u = t THEN Start ELSE jobs[u]
    BY <1>2
  <2> QED BY <1>1, <2>1, <2>2, <2>3
<1>4. Without(t) \in Seq(Tasks)
  BY WithoutTyped
<1>7. UNCHANGED redemption
  BY DEF Done
<1>5. CASE t = Buffer
  BY <1>3, <1>4, <1>5, <1>7 DEF Done, tickDone, TypeOK
<1>6. CASE t # Buffer
  <2>1. t \in Bets /\ Buffer \in Tasks
    BY <1>6 DEF Tasks
  <2>2. /\ bets' = [bets EXCEPT ![t] = IF ok THEN "funded" ELSE "unfunded"]
        /\ queue' = WithTick(Without(t)) /\ running' = (running \/ Ticks)
    BY <1>6 DEF Done, betAnswered
  <2>3. queue' \in Seq(Tasks)
    BY <1>4, <2>1, <2>2 DEF WithTick
  <2>4. bets' \in [Bets -> {"new", "asked", "funded", "unfunded", "spent", "closed"}]
    BY <2>1, <2>2 DEF TypeOK
  <2> QED BY <1>3, <1>7, <2>2, <2>3, <2>4
<1> QED BY <1>5, <1>6

\* A task that goes on to its next call is still the only one between its calls.
LEMMA GoesOn ==
    ASSUME TypeOK, TurnInv, NEW t \in Tasks, HasTurn(t), NEW step \in Jobs, Goto(t, step)
    PROVE  /\ UNCHANGED <<bets, queue, running, redemption>> /\ jobs' \in [Tasks -> Jobs]
           /\ jobs'[t] = step /\ \A u \in Tasks : u # t => jobs'[u].pc = "read"
<1>1. jobs \in [Tasks -> Jobs] /\ jobs' = [jobs EXCEPT ![t] = step]
  BY DEF TypeOK, Goto
<1>2. \A u \in Tasks : u # t => jobs[u].pc = "read"
  BY DEF TurnInv, HasTurn
<1> QED BY <1>1, <1>2 DEF Goto

-----------------------------------------------------------------------------
(* Money.                                                                  *)

\* The balances and the history of late batches are whole amounts.
LEMMA Amounts ==
    ASSUME TypeOK
    PROVE  /\ vaultUsdc \in Nat /\ dwUsdc \in Nat /\ dwPusd \in Nat /\ deployed \in Nat
           /\ paid \in Nat /\ extra \in Nat /\ gains \in Nat /\ Cap \in Nat
           /\ UnacknowledgedOf(script) \in Nat /\ UnacknowledgedOf(redemption) \in Nat
           /\ Unacknowledged \in Nat
           /\ \A level \in Stakes \cup {Low, Target} : level \in Nat
<1>1. UnacknowledgedOf(script) \in Nat /\ UnacknowledgedOf(redemption) \in Nat
  BY DEF TypeOK, ScriptSteps, UnacknowledgedOf
<1>2. PICK u \in Nat, v \in Nat : u = UnacknowledgedOf(script) /\ v = UnacknowledgedOf(redemption)
  BY <1>1
<1>3. Unacknowledged \in Nat
  BY <1>2 DEF Unacknowledged
<1>4. /\ {vaultUsdc, dwUsdc, dwPusd, deployed, paid, extra, gains} \subseteq Nat /\ Cap \in Nat
      /\ \A level \in Stakes \cup {Low, Target} : level \in Nat
  BY FundingAssumption DEF TypeOK
<1> QED BY <1>1, <1>3, <1>4

\* It is as much as long as neither the script nor the redemption goes on.
LEMMA UnacknowledgedSame ==
    ASSUME UNCHANGED <<script, redemption>>
    PROVE  UNCHANGED Unacknowledged
BY DEF Unacknowledged, UnacknowledgedOf

\* A batch moves money between the wallet's two balances, or out of it to the Vault.
LEMMA BatchMoves ==
    ASSUME TypeOK, NEW batch \in Batches, NEW kind, batch.kind = kind, NEW n, batch.n = n,
           Covered(batch), Mine(batch)
    PROVE  /\ kind \in {"wrap", "unwrap", "sweep", "return"} /\ n \in Nat
           /\ {vaultUsdc', dwUsdc', dwPusd'} \subseteq Nat /\ UNCHANGED <<deployed, paid, gains>>
           /\ kind = "wrap" => dwUsdc' + dwPusd' = dwUsdc + dwPusd /\ dwPusd' = dwPusd + n
           /\ kind = "unwrap" => dwUsdc' + dwPusd' = dwUsdc + dwPusd /\ dwPusd' <= dwPusd
           /\ kind = "sweep" => dwUsdc' + dwPusd' + n = dwUsdc + dwPusd /\ dwPusd' = dwPusd
           /\ kind = "return" => dwUsdc' + dwPusd' + n = dwUsdc + dwPusd /\ dwPusd' <= dwPusd
<1>0. vaultUsdc \in Nat /\ dwUsdc \in Nat /\ dwPusd \in Nat
  BY DEF TypeOK
<1>1. kind \in {"wrap", "unwrap", "sweep", "return"} /\ n \in Nat
  BY DEF Batches
<1>2. n <= IF kind \in {"unwrap", "return"} THEN dwPusd ELSE dwUsdc
  BY <1>1 DEF Covered
<1>7. UNCHANGED <<deployed, paid, gains>>
  BY DEF Mine
<1>3. CASE kind = "wrap"
  <2>1. dwUsdc' = dwUsdc - n /\ dwPusd' = dwPusd + n /\ vaultUsdc' = vaultUsdc
    BY <1>1, <1>3 DEF Mine
  <2>2. (dwUsdc - n) + (dwPusd + n) = dwUsdc + dwPusd /\ dwUsdc - n \in Nat
    BY <1>0, <1>1, <1>2, <1>3
  <2> QED BY <1>0, <1>1, <1>3, <1>7, <2>1, <2>2
<1>4. CASE kind = "unwrap"
  <2>1. dwUsdc' = dwUsdc + n /\ dwPusd' = dwPusd - n /\ vaultUsdc' = vaultUsdc
    BY <1>1, <1>4 DEF Mine
  <2>2. (dwUsdc + n) + (dwPusd - n) = dwUsdc + dwPusd /\ dwPusd - n \in Nat /\ dwPusd - n <= dwPusd
    BY <1>0, <1>1, <1>2, <1>4
  <2> QED BY <1>0, <1>1, <1>4, <1>7, <2>1, <2>2
<1>5. CASE kind = "sweep"
  <2>1. dwUsdc' = dwUsdc - n /\ dwPusd' = dwPusd /\ vaultUsdc' = vaultUsdc + n
    BY <1>1, <1>5 DEF Mine
  <2>2. (dwUsdc - n) + dwPusd + n = dwUsdc + dwPusd /\ dwUsdc - n \in Nat
    BY <1>0, <1>1, <1>2, <1>5
  <2> QED BY <1>0, <1>1, <1>5, <1>7, <2>1, <2>2
<1>6. CASE kind = "return"
  <2>1. dwUsdc' = dwUsdc /\ dwPusd' = dwPusd - n /\ vaultUsdc' = vaultUsdc + n
    BY <1>1, <1>6 DEF Mine
  <2>2. dwUsdc + (dwPusd - n) + n = dwUsdc + dwPusd /\ dwPusd - n \in Nat /\ dwPusd - n <= dwPusd
    BY <1>0, <1>1, <1>2, <1>6
  <2> QED BY <1>0, <1>1, <1>6, <1>7, <2>1, <2>2
<1> QED BY <1>1, <1>3, <1>4, <1>5, <1>6

\* The count of the faults stays within its bound.
LEMMA FaultCounted ==
    ASSUME TypeOK, NoFault \/ \E f \in Faults : Fault(f)
    PROVE  faults' \in 0..MaxFaults
BY FundingAssumption DEF TypeOK, NoFault, Fault

\* Less pUSD in the wallet is within the same level.
LEMMA WithinLess ==
    ASSUME TypeOK, NEW m \in Nat, NEW n \in Nat, m <= n, Within(n)
    PROVE  Within(m)
BY Amounts DEF Within

-----------------------------------------------------------------------------
(* The steps of the tasks.                                                 *)

\* A task that ends keeps the invariant if the money does.
LEMMA TaskEnds ==
    ASSUME Inv, NEW t \in Tasks, NEW ok \in BOOLEAN, HasTurn(t), Done(t, ok),
           UNCHANGED <<setup, tool>>, faults' \in 0..MaxFaults, late' \in Batches \cup {NoBatch},
           {vaultUsdc', dwUsdc', dwPusd', deployed', paid', extra', gains'} \subseteq Nat,
           CapInv', NeverDoubleFunded'
    PROVE  Inv'
<1>0. TypeOK /\ TurnInv
  BY DEF Inv
<1>1. /\ bets' \in [Bets -> {"new", "asked", "funded", "unfunded", "spent", "closed"}]
      /\ queue' \in Seq(Tasks) /\ running' \in BOOLEAN /\ jobs' \in [Tasks -> Jobs]
      /\ \A u \in Tasks : jobs'[u].pc = "read"
      /\ UNCHANGED redemption
  BY <1>0, DoneEnds
<1>2. TurnInv'
  BY <1>1 DEF TurnInv
<1>3. TypeOK'
  BY <1>0, <1>1 DEF TypeOK, setup, tool
<1> QED BY <1>2, <1>3 DEF Inv

\* So does a task that goes on, when the wallet with what is asked for stays in a level.
LEMMA TaskGoes ==
    ASSUME Inv, NEW t \in Tasks, NEW step \in Jobs, HasTurn(t), Goto(t, step),
           UNCHANGED <<setup, tool>>, faults' \in 0..MaxFaults, late' \in Batches \cup {NoBatch},
           {vaultUsdc', dwUsdc', deployed', paid'} \subseteq Nat,
           UNCHANGED <<dwPusd, extra, gains>>, CapInv', step.pc # "read" => Within(dwPusd + step.n)
    PROVE  Inv'
<1>0. TypeOK /\ TurnInv /\ NeverDoubleFunded
  BY DEF Inv
<1>1. /\ UNCHANGED <<bets, queue, running, redemption>> /\ jobs' \in [Tasks -> Jobs]
      /\ jobs'[t] = step /\ \A u \in Tasks : u # t => jobs'[u].pc = "read"
  BY <1>0, GoesOn
<1>2. TurnInv'
  <2>1. HasTurn(t)'
    BY <1>1 DEF HasTurn
  <2>2. step.pc # "read" => Within(dwPusd + jobs[t].n)'
    BY <1>1 DEF Within
  <2> SUFFICES ASSUME NEW u \in Tasks, jobs'[u].pc # "read"
               PROVE  HasTurn(u)' /\ Within(dwPusd + jobs[u].n)'
    BY DEF TurnInv
  <2> QED BY <1>1, <2>1, <2>2
<1>3. NeverDoubleFunded'
  BY <1>0 DEF NeverDoubleFunded
<1>4. TypeOK'
  BY <1>0, <1>1 DEF TypeOK, setup, tool
<1> QED BY <1>2, <1>3, <1>4 DEF Inv

\* The wallet's balance is read: nothing is missing, or what is missing tops it up to
\* the bet's stake or the buffer's target.
LEMMA ReadKeeps ==
    ASSUME Inv, NEW t \in Tasks, readBalance(t)
    PROVE  Inv'
<1>0. TypeOK /\ CapInv /\ NeverDoubleFunded
  BY DEF Inv
<1>1. HasTurn(t) /\ UNCHANGED <<setup, money, tool>>
  BY DEF readBalance
<1>2. /\ UNCHANGED <<vaultUsdc, dwUsdc, dwPusd, deployed, paid, late, extra, gains>>
      /\ {vaultUsdc', dwUsdc', dwPusd', deployed', paid', extra', gains'} \subseteq Nat
      /\ late' \in Batches \cup {NoBatch}
  BY <1>0, <1>1 DEF money, balances, TypeOK
<1>7. UNCHANGED Unacknowledged
  <2>1. UNCHANGED script
    BY <1>1 DEF tool
  <2>2. UNCHANGED redemption
    BY DEF readBalance, Done, Goto
  <2> QED BY <2>1, <2>2, UnacknowledgedSame
<1>3. CapInv' /\ NeverDoubleFunded'
  BY <1>0, <1>1, <1>2, <1>7 DEF CapInv, NeverDoubleFunded
<1>4. faults' \in 0..MaxFaults
  <2>1. NoFault \/ Fault("rpc")
    BY DEF readBalance
  <2> QED BY <1>0, <2>1, FaultCounted DEF Fault
<1>5. CASE Missing(t, dwPusd) > 0 /\ Goto(t, Step("fund", Missing(t, dwPusd), 1))
  <2>1. PICK level \in Stakes \cup {Low, Target} :
           /\ level \in Nat
           /\ Missing(t, dwPusd) = IF dwPusd >= level THEN 0 ELSE level - dwPusd
    <3>1. CASE t = Buffer /\ dwPusd < Low
      BY <1>0, <3>1, Amounts DEF Missing, Larger
    <3>2. CASE t = Buffer /\ ~(dwPusd < Low)
      BY <1>0, <1>5, <3>2, Amounts DEF Missing
    <3>3. CASE t # Buffer
      <4>1. stake[t] \in Stakes
        BY <1>0, <3>3 DEF Tasks, TypeOK
      <4> QED BY <1>0, <3>3, <4>1, Amounts DEF Missing
    <3> QED BY <3>1, <3>2, <3>3
  <2>2. PICK n \in Nat : n = Missing(t, dwPusd) /\ dwPusd + n = level
    BY <1>0, <1>5, <2>1, Amounts
  <2>3. PICK step \in Jobs : step = Step("fund", n, 1) /\ step.n = n
    BY FirstTry, StepsAre
  <2>4. Within(dwPusd + step.n)
    BY <1>0, <2>1, <2>2, <2>3, Amounts DEF Within
  <2> QED BY <1>1, <1>2, <1>3, <1>4, <1>5, <2>2, <2>3, <2>4, TaskGoes
<1>6. CASE Done(t, TRUE) \/ Done(t, FALSE)
  BY <1>1, <1>2, <1>3, <1>4, <1>6, TaskEnds
<1> QED BY <1>5, <1>6 DEF readBalance

\* The Vault pays what is missing, within the cap, or reverts.
LEMMA MinedKeeps ==
    ASSUME Inv, NEW t \in Tasks, HasTurn(t), jobs[t].pc # "read", FundingMined(t),
           UNCHANGED <<setup, tool>>
    PROVE  Inv'
<1>0. TypeOK /\ CapInv /\ TurnInv /\ NeverDoubleFunded
  BY DEF Inv
<1>1. UNCHANGED <<dwPusd, paid, late, extra, gains, script>>
  BY DEF FundingMined, FundWallet, money, balances, tool
<1>2. PICK n \in Nat : n = jobs[t].n
  <2>1. jobs[t] \in Jobs
    BY <1>0 DEF TypeOK
  <2> QED BY <2>1 DEF Jobs
<1>3. Within(dwPusd + n)
  BY <1>0, <1>1, <1>2 DEF TurnInv
<1>4. NeverDoubleFunded' /\ late' \in Batches \cup {NoBatch}
  BY <1>0, <1>1 DEF NeverDoubleFunded, TypeOK
<1>5. faults' \in 0..MaxFaults
  <2>1. NoFault \/ Fault("receipt")
    BY DEF FundingMined
  <2> QED BY <1>0, <2>1, FaultCounted DEF Fault
<1>6. UNCHANGED Unacknowledged
  <2>1. UNCHANGED redemption
    BY DEF FundingMined, Done, Goto
  <2> QED BY <1>1, <2>1, UnacknowledgedSame
<1>7. CASE Fundable(n) /\ FundWallet(n) /\ (Goto(t, Step("wrap", n, 1)) \/ Done(t, FALSE))
  <2>1. vaultUsdc - n \in Nat /\ dwUsdc + n \in Nat /\ deployed + n \in Nat
    BY <1>0, <1>7, Amounts DEF Fundable
  <2>2. vaultUsdc' = vaultUsdc - n /\ dwUsdc' = dwUsdc + n /\ deployed' = deployed + n
    BY <1>7 DEF FundWallet
  <2>3. {vaultUsdc', dwUsdc', dwPusd', deployed', paid', extra', gains'} \subseteq Nat
    BY <1>0, <1>1, <2>1, <2>2, Amounts
  <2>4. /\ (dwUsdc + n) + dwPusd + paid + Unacknowledged <= (deployed + n) + gains
        /\ deployed + n <= Cap
    BY <1>0, <1>7, Amounts DEF CapInv, Fundable
  <2>5. CapInv'
    BY <1>1, <1>6, <2>2, <2>4 DEF CapInv
  <2>6. CASE Goto(t, Step("wrap", n, 1))
    <3>1. PICK step \in Jobs : step = Step("wrap", n, 1) /\ step.n = n
      BY FirstTry, StepsAre
    <3>2. {vaultUsdc', dwUsdc', deployed', paid'} \subseteq Nat
      BY <2>3
    <3> QED BY <1>1, <1>3, <1>4, <1>5, <2>5, <2>6, <3>1, <3>2, TaskGoes
  <2>7. CASE Done(t, FALSE)
    BY <1>1, <1>4, <1>5, <2>3, <2>5, <2>7, TaskEnds
  <2> QED BY <1>7, <2>6, <2>7
<1>8. CASE Done(t, FALSE) /\ UNCHANGED money
  <2>1. UNCHANGED <<vaultUsdc, dwUsdc, dwPusd, deployed, paid, late, extra, gains>>
    BY <1>8 DEF money, balances
  <2>2. {vaultUsdc', dwUsdc', dwPusd', deployed', paid', extra', gains'} \subseteq Nat
    BY <1>0, <2>1 DEF TypeOK
  <2>3. CapInv'
    BY <1>0, <1>6, <2>1 DEF CapInv
  <2> QED BY <1>4, <1>5, <1>8, <2>2, <2>3, TaskEnds
<1>9. \/ Fundable(n) /\ FundWallet(n) /\ (Goto(t, Step("wrap", n, 1)) \/ Done(t, FALSE))
      \/ Done(t, FALSE) /\ UNCHANGED money
  BY <1>2 DEF FundingMined
<1> QED BY <1>7, <1>8, <1>9

\* The funding transaction is mined, or held up.
LEMMA FundKeeps ==
    ASSUME Inv, NEW t \in Tasks, fundPolymarketWallet(t)
    PROVE  Inv'
<1>0. TypeOK /\ CapInv /\ TurnInv
  BY DEF Inv
<1>1. HasTurn(t) /\ jobs[t].pc = "fund" /\ UNCHANGED <<setup, tool>>
  BY DEF fundPolymarketWallet
<1>2. CASE FundingMined(t)
  BY <1>1, <1>2, MinedKeeps
<1>3. CASE Fault("hang") /\ Goto(t, Step("wait", jobs[t].n, 1)) /\ UNCHANGED money
  <2>1. PICK n \in Nat : n = jobs[t].n
    <3>1. jobs[t] \in Jobs
      BY <1>0 DEF TypeOK
    <3> QED BY <3>1 DEF Jobs
  <2>2. PICK step \in Jobs : step = Step("wait", n, 1) /\ step.n = n
    BY FirstTry, StepsAre
  <2>3. Within(dwPusd + n)
    BY <1>0, <1>1, <2>1 DEF TurnInv
  <2>4. UNCHANGED <<vaultUsdc, dwUsdc, dwPusd, deployed, paid, late, extra, gains, script>>
    BY <1>1, <1>3 DEF money, balances, tool
  <2>5. UNCHANGED Unacknowledged
    <3>1. UNCHANGED redemption
      BY <1>3 DEF Goto
    <3> QED BY <2>4, <3>1, UnacknowledgedSame
  <2>6. CapInv' /\ late' \in Batches \cup {NoBatch}
    BY <1>0, <2>4, <2>5 DEF CapInv, TypeOK
  <2>7. {vaultUsdc', dwUsdc', deployed', paid'} \subseteq Nat
    BY <1>0, <2>4 DEF TypeOK
  <2>8. faults' \in 0..MaxFaults
    BY <1>0, <1>3, FaultCounted DEF Fault
  <2> QED BY <1>1, <1>3, <2>1, <2>2, <2>3, <2>4, <2>6, <2>7, <2>8, TaskGoes
<1> QED BY <1>2, <1>3 DEF fundPolymarketWallet

\* The transaction that was held up is mined.
LEMMA HeldUpKeeps ==
    ASSUME Inv, NEW t \in Tasks, heldUpMined(t)
    PROVE  Inv'
BY MinedKeeps DEF heldUpMined

-----------------------------------------------------------------------------
(* The wallet's batches.                                                   *)

\* What the executor is asked for is a batch.
LEMMA BatchIs ==
    ASSUME NEW kind \in {"wrap", "unwrap", "sweep", "return"}, NEW n \in Nat
    PROVE  /\ Batch(kind, n) \in Batches /\ Batch(kind, n).kind = kind /\ Batch(kind, n).n = n
BY DEF Batches, Batch

\* A batch that throws has moved nothing, and may be mined later.
LEMMA BatchThrown ==
    ASSUME TypeOK, NEW batch \in Batches, NEW k, BatchThrows(batch, k)
    PROVE  /\ UNCHANGED <<vaultUsdc, dwUsdc, dwPusd, deployed, paid, extra, gains>>
           /\ {vaultUsdc', dwUsdc', dwPusd', deployed', paid', extra', gains'} \subseteq Nat
           /\ late' \in Batches \cup {NoBatch} /\ faults' \in 0..MaxFaults
<1>1. /\ UNCHANGED <<vaultUsdc, dwUsdc, dwPusd, deployed, paid, extra, gains>>
      /\ late' \in Batches \cup {NoBatch}
  BY DEF BatchThrows, money, balances, TypeOK
<1>2. {vaultUsdc', dwUsdc', dwPusd', deployed', paid', extra', gains'} \subseteq Nat
  BY <1>1 DEF TypeOK
<1>3. NoFault \/ Fault("batch") \/ Fault("timeout")
  BY DEF BatchThrows
<1>4. faults' \in 0..MaxFaults
  BY <1>3, FaultCounted DEF Fault
<1> QED BY <1>1, <1>2, <1>4

\* The wrap is mined, waits for the wallet's other batch, or throws.
LEMMA WrapKeeps ==
    ASSUME Inv, NEW t \in Tasks, wrapUsdcToPusd(t)
    PROVE  Inv'
<1>0. TypeOK /\ CapInv /\ TurnInv /\ NeverDoubleFunded
  BY DEF Inv
<1>1. /\ HasTurn(t) /\ jobs[t].pc = "wrap" /\ UNCHANGED <<setup, tool>>
  BY DEF wrapUsdcToPusd
<1>2. PICK n \in Nat, k \in 1..Retries : n = jobs[t].n /\ k = jobs[t].attempt
  <2>1. jobs[t] \in Jobs
    BY <1>0 DEF TypeOK
  <2> QED BY <2>1 DEF Jobs
<1>3. Within(dwPusd + n)
  BY <1>0, <1>1, <1>2 DEF TurnInv
<1>4. PICK batch \in Batches : batch = Batch("wrap", n) /\ batch.kind = "wrap" /\ batch.n = n
  BY BatchIs
<1>5. UNCHANGED Unacknowledged
  <2>1. UNCHANGED script
    BY <1>1 DEF tool
  <2>2. UNCHANGED redemption
    BY DEF wrapUsdcToPusd, Done, Goto
  <2> QED BY <2>1, <2>2, UnacknowledgedSame
<1>6. CASE BatchMined(batch) /\ Done(t, TRUE)
  <2>1. Covered(batch) /\ Mine(batch) /\ UNCHANGED <<late, extra, faults>>
    BY <1>6 DEF BatchMined, NoFault
  <2>2. /\ {vaultUsdc', dwUsdc', dwPusd'} \subseteq Nat /\ UNCHANGED <<deployed, paid, gains>>
        /\ dwUsdc' + dwPusd' = dwUsdc + dwPusd /\ dwPusd' = dwPusd + n
    BY <1>0, <1>4, <2>1, BatchMoves
  <2>3. CapInv'
    <3>1. (dwUsdc' + dwPusd') + paid + Unacknowledged <= deployed + gains /\ deployed <= Cap
      BY <1>0, <2>2 DEF CapInv
    <3> QED BY <1>5, <2>2, <3>1 DEF CapInv
  <2>4. NeverDoubleFunded'
    BY <1>3, <2>1, <2>2 DEF NeverDoubleFunded, Within
  <2>5. {vaultUsdc', dwUsdc', dwPusd', deployed', paid', extra', gains'} \subseteq Nat
    BY <1>0, <2>1, <2>2 DEF TypeOK
  <2>6. late' \in Batches \cup {NoBatch} /\ faults' \in 0..MaxFaults
    BY <1>0, <2>1 DEF TypeOK
  <2> QED BY <1>1, <1>6, <2>3, <2>4, <2>5, <2>6, TaskEnds
<1>7. CASE k < Retries /\ Goto(t, Step("wrap", n, k + 1)) /\ NoFault /\ UNCHANGED money
  <2>1. k + 1 \in 1..Retries
    BY <1>7, FundingAssumption
  <2>2. PICK step \in Jobs : step = Step("wrap", n, k + 1) /\ step.n = n
    BY <2>1, StepsAre
  <2>3. UNCHANGED <<vaultUsdc, dwUsdc, dwPusd, deployed, paid, late, extra, gains, faults>>
    BY <1>7 DEF money, balances, NoFault
  <2>4. {vaultUsdc', dwUsdc', deployed', paid'} \subseteq Nat
    BY <1>0, <2>3 DEF TypeOK
  <2>5. late' \in Batches \cup {NoBatch} /\ faults' \in 0..MaxFaults
    BY <1>0, <2>3 DEF TypeOK
  <2>6. CapInv'
    BY <1>0, <1>5, <2>3 DEF CapInv
  <2> QED BY <1>1, <1>3, <1>7, <2>2, <2>3, <2>4, <2>5, <2>6, TaskGoes
<1>8. CASE BatchThrows(batch, k) /\ Done(t, FALSE)
  <2>1. /\ UNCHANGED <<vaultUsdc, dwUsdc, dwPusd, deployed, paid, extra, gains>>
        /\ {vaultUsdc', dwUsdc', dwPusd', deployed', paid', extra', gains'} \subseteq Nat
        /\ late' \in Batches \cup {NoBatch} /\ faults' \in 0..MaxFaults
    BY <1>0, <1>8, BatchThrown
  <2>2. CapInv' /\ NeverDoubleFunded'
    BY <1>0, <1>5, <2>1 DEF CapInv, NeverDoubleFunded
  <2> QED BY <1>1, <1>8, <2>1, <2>2, TaskEnds
<1> QED BY <1>2, <1>4, <1>6, <1>7, <1>8 DEF wrapUsdcToPusd, WalletBusy

\* What the tasks have asked for stays within their levels when no task runs and the
\* wallet's pUSD grows by no more than late batches, redemptions and SELLs bring.
LEMMA MoneyKeeps ==
    ASSUME Inv, UNCHANGED <<setup, queue, jobs, running>>,
           bets' \in [Bets -> {"new", "asked", "funded", "unfunded", "spent", "closed"}],
           {vaultUsdc', dwUsdc', dwPusd', deployed', paid', extra', gains'} \subseteq Nat,
           late' \in Batches \cup {NoBatch}, script' \in ScriptSteps,
           redemption' \in ScriptSteps, reclaims' \in 0..MaxReclaims, faults' \in 0..MaxFaults,
           NEW d \in Nat, extra' = extra + d, dwPusd' <= dwPusd + d, CapInv'
    PROVE  Inv'
<1>0. TypeOK /\ TurnInv /\ NeverDoubleFunded
  BY DEF Inv
<1>1. PICK p \in Nat, e \in Nat : p = dwPusd' /\ e = extra'
  OBVIOUS
<1>2. ASSUME NEW n \in Nat, Within(dwPusd + n) PROVE Within(dwPusd + n)'
  <2>1. PICK level \in Stakes \cup {Low, Target} : dwPusd + n <= level + extra
    BY <1>2 DEF Within
  <2>2. p + n <= level + e
    BY <1>0, <1>1, <2>1, Amounts
  <2>3. dwPusd' + n <= level + extra'
    BY <1>1, <2>2
  <2> QED BY <2>3 DEF Within
<1>3. TurnInv'
  <2> SUFFICES ASSUME NEW t \in Tasks, jobs[t].pc # "read"
               PROVE  HasTurn(t)' /\ Within(dwPusd + jobs[t].n)'
    BY DEF TurnInv
  <2>1. HasTurn(t) /\ Within(dwPusd + jobs[t].n)
    BY <1>0 DEF TurnInv
  <2>2. PICK n \in Nat : n = jobs[t].n
    <3>1. jobs[t] \in Jobs
      BY <1>0 DEF TypeOK
    <3> QED BY <3>1 DEF Jobs
  <2>3. \E level \in Stakes \cup {Low, Target} : dwPusd' + n <= level + extra'
    BY <1>2, <2>1, <2>2 DEF Within
  <2> QED BY <2>1, <2>2, <2>3 DEF HasTurn, Within
<1>4. NeverDoubleFunded'
  <2>1. PICK level \in Stakes \cup {Low, Target} : dwPusd <= level + extra
    BY <1>0 DEF NeverDoubleFunded
  <2>2. p <= level + e
    BY <1>0, <1>1, <2>1, Amounts
  <2> QED BY <1>1, <2>1, <2>2 DEF NeverDoubleFunded
<1>5. TypeOK'
  BY <1>0 DEF TypeOK, setup
<1> QED BY <1>3, <1>4, <1>5 DEF Inv

\* The batch that timed out is mined after all, or dropped.
LEMMA LateKeeps ==
    ASSUME Inv, lateBatch
    PROVE  Inv'
<1>0. TypeOK /\ CapInv
  BY DEF Inv
<1>1. /\ UNCHANGED <<setup, bets, queue, jobs, running, redemption, script, reclaims, faults>>
      /\ late \in Batches /\ late' = NoBatch
  BY <1>0 DEF lateBatch, service, tool, TypeOK
<1>2. /\ bets' \in [Bets -> {"new", "asked", "funded", "unfunded", "spent", "closed"}]
      /\ late' \in Batches \cup {NoBatch} /\ script' \in ScriptSteps
      /\ redemption' \in ScriptSteps /\ UNCHANGED Unacknowledged
      /\ reclaims' \in 0..MaxReclaims /\ faults' \in 0..MaxFaults
  BY <1>0, <1>1, UnacknowledgedSame DEF TypeOK
<1>3. CASE UNCHANGED <<vaultUsdc, dwUsdc, dwPusd, deployed, paid, extra, gains>>
  <2>1. /\ {vaultUsdc', dwUsdc', dwPusd', deployed', paid', extra', gains'} \subseteq Nat
        /\ extra' = extra + 0 /\ dwPusd' <= dwPusd + 0
    BY <1>0, <1>3, Amounts
  <2>2. CapInv'
    BY <1>0, <1>2, <1>3 DEF CapInv
  <2> QED BY <1>1, <1>2, <2>1, <2>2, MoneyKeeps
<1>4. CASE /\ Covered(late) /\ Mine(late)
           /\ extra' = IF late.kind = "wrap" THEN extra + late.n ELSE extra
  <2>1. PICK batch \in Batches : batch = late
    BY <1>1
  <2>2. PICK kind, n : kind = batch.kind /\ n = batch.n
    OBVIOUS
  <2>3. /\ kind \in {"wrap", "unwrap", "sweep", "return"} /\ n \in Nat
        /\ {vaultUsdc', dwUsdc', dwPusd'} \subseteq Nat /\ UNCHANGED <<deployed, paid, gains>>
        /\ kind = "wrap" => dwUsdc' + dwPusd' = dwUsdc + dwPusd /\ dwPusd' = dwPusd + n
        /\ kind = "unwrap" => dwUsdc' + dwPusd' = dwUsdc + dwPusd /\ dwPusd' <= dwPusd
        /\ kind = "sweep" => dwUsdc' + dwPusd' + n = dwUsdc + dwPusd /\ dwPusd' = dwPusd
        /\ kind = "return" => dwUsdc' + dwPusd' + n = dwUsdc + dwPusd /\ dwPusd' <= dwPusd
    BY <1>0, <1>4, <2>1, <2>2, BatchMoves
  <2>4. PICK d \in Nat : d = IF kind = "wrap" THEN n ELSE 0
    BY <2>3
  <2>5. PICK u \in Nat, p \in Nat : u = dwUsdc' /\ p = dwPusd'
    BY <2>3
  <2>6. u + p <= dwUsdc + dwPusd /\ p <= dwPusd + d
    BY <1>0, <2>3, <2>4, <2>5, Amounts
  <2>7. extra' = extra + d /\ dwPusd' <= dwPusd + d
    BY <1>0, <1>4, <2>1, <2>2, <2>4, <2>5, <2>6, Amounts
  <2>8. {vaultUsdc', dwUsdc', dwPusd', deployed', paid', extra', gains'} \subseteq Nat
    BY <1>0, <2>3, <2>7, Amounts
  <2>9. CapInv'
    <3>1. u + p + paid + Unacknowledged <= deployed + gains /\ deployed <= Cap
      BY <1>0, <2>6, Amounts DEF CapInv
    <3> QED BY <1>2, <2>3, <2>5, <3>1 DEF CapInv
  <2> QED BY <1>1, <1>2, <2>7, <2>8, <2>9, MoneyKeeps
<1> QED BY <1>3, <1>4 DEF lateBatch, balances

\* The order of a funded bet is filled with the wallet's pUSD, or dies.
LEMMA OrderEndsKeeps ==
    ASSUME Inv, NEW b \in Bets, orderEnds(b)
    PROVE  Inv'
<1>0. TypeOK /\ CapInv
  BY DEF Inv
<1>1. /\ UNCHANGED <<setup, queue, jobs, running, vaultUsdc, dwUsdc, deployed, late, extra,
                     gains, redemption, script, reclaims, faults>>
      /\ bets' \in [Bets -> {"new", "asked", "funded", "unfunded", "spent", "closed"}]
  BY <1>0 DEF orderEnds, tool, TypeOK
<1>2. /\ late' \in Batches \cup {NoBatch} /\ script' \in ScriptSteps
      /\ redemption' \in ScriptSteps /\ UNCHANGED Unacknowledged
      /\ reclaims' \in 0..MaxReclaims /\ faults' \in 0..MaxFaults
  BY <1>0, <1>1, UnacknowledgedSame DEF TypeOK
<1>3. PICK n \in Nat : n <= dwPusd /\ dwPusd' = dwPusd - n /\ paid' = paid + n
  <2>1. stake[b] \in Nat
    BY <1>0, FundingAssumption DEF TypeOK
  <2>2. CASE stake[b] <= dwPusd /\ dwPusd' = dwPusd - stake[b] /\ paid' = paid + stake[b]
    BY <2>1, <2>2
  <2>3. CASE UNCHANGED <<dwPusd, paid>>
    <3>1. 0 \in Nat /\ 0 <= dwPusd /\ dwPusd - 0 = dwPusd /\ paid + 0 = paid
      BY <1>0, Amounts
    <3> QED BY <2>3, <3>1
  <2> QED BY <2>2, <2>3 DEF orderEnds
<1>4. dwPusd - n \in Nat /\ paid + n \in Nat /\ dwPusd - n <= dwPusd + 0 /\ extra + 0 = extra
  BY <1>0, <1>3, Amounts
<1>5. /\ {vaultUsdc', dwUsdc', dwPusd', deployed', paid', extra', gains'} \subseteq Nat
      /\ extra' = extra + 0 /\ dwPusd' <= dwPusd + 0
  BY <1>0, <1>1, <1>3, <1>4, Amounts
<1>6. CapInv'
  <2>1. dwUsdc + (dwPusd - n) + (paid + n) + Unacknowledged <= deployed + gains /\ deployed <= Cap
    BY <1>0, <1>3, Amounts DEF CapInv
  <2> QED BY <1>1, <1>2, <1>3, <2>1 DEF CapInv
<1> QED BY <1>1, <1>2, <1>5, <1>6, MoneyKeeps

-----------------------------------------------------------------------------
(* What comes back from the positions.                                     *)

\* A position that pays brings pUSD, and what it pays beyond its price is a gain.
LEMMA PaysKeeps ==
    ASSUME Inv, NEW b \in Bets, NEW n \in Nat, PositionPays(b, n),
           redemption' \in ScriptSteps, UnacknowledgedOf(redemption)' <= UnacknowledgedOf(redemption),
           UnacknowledgedOf(redemption)' \in Nat
    PROVE  Inv'
<1>0. TypeOK /\ CapInv
  BY DEF Inv
<1>1. /\ UNCHANGED <<setup, queue, jobs, running, vaultUsdc, dwUsdc, deployed, late,
                     script, reclaims, faults>>
      /\ bets' \in [Bets -> {"new", "asked", "funded", "unfunded", "spent", "closed"}]
      /\ stake[b] <= paid /\ paid' = paid - stake[b] /\ dwPusd' = dwPusd + n
      /\ extra' = extra + n /\ gains' = gains + Profit(b, n)
  BY <1>0 DEF PositionPays, tool, TypeOK
<1>2. PICK c \in Nat : c = stake[b] /\ c <= paid
  BY <1>0, <1>1, FundingAssumption DEF TypeOK
<1>3. PICK g \in Nat : g = Profit(b, n) /\ g >= n - c
  BY <1>2 DEF Profit, Larger
<1>4. PICK u \in Nat, v \in Nat, w \in Nat :
         /\ u = UnacknowledgedOf(script) /\ v = UnacknowledgedOf(redemption)
         /\ w = UnacknowledgedOf(redemption)' /\ w <= v
  BY <1>0, Amounts
<1>5. Unacknowledged = u + v /\ Unacknowledged' = u + w
  BY <1>1, <1>4 DEF Unacknowledged, UnacknowledgedOf
<1>6. /\ dwUsdc + (dwPusd + n) + (paid - c) + (u + w) <= deployed + (gains + g)
      /\ deployed <= Cap
  BY <1>0, <1>2, <1>3, <1>4, <1>5, Amounts DEF CapInv
<1>7. CapInv'
  BY <1>1, <1>2, <1>3, <1>5, <1>6 DEF CapInv
<1>8. /\ {vaultUsdc', dwUsdc', dwPusd', deployed', paid', extra', gains'} \subseteq Nat
      /\ dwPusd' <= dwPusd + n
  BY <1>0, <1>1, <1>2, <1>3, Amounts
<1>9. /\ late' \in Batches \cup {NoBatch} /\ script' \in ScriptSteps
      /\ reclaims' \in 0..MaxReclaims /\ faults' \in 0..MaxFaults
  BY <1>0, <1>1 DEF TypeOK
<1> QED BY <1>1, <1>7, <1>8, <1>9, MoneyKeeps

\* A SELL pays into the wallet.
LEMMA SoldKeeps ==
    ASSUME Inv, NEW b \in Bets, positionSold(b)
    PROVE  Inv'
<1>1. PICK n \in Nat : PositionPays(b, n) /\ UNCHANGED redemption
  BY FundingAssumption DEF positionSold
<1>2. redemption \in ScriptSteps /\ UnacknowledgedOf(redemption) \in Nat
  BY Amounts DEF Inv, TypeOK
<1>3. UnacknowledgedOf(redemption)' = UnacknowledgedOf(redemption)
  BY <1>1 DEF UnacknowledgedOf
<1>4. UnacknowledgedOf(redemption)' <= UnacknowledgedOf(redemption)
  BY <1>2, <1>3
<1> QED BY <1>1, <1>2, <1>3, <1>4, PaysKeeps

\* A redemption pays into the wallet, or the shares were worth nothing.
LEMMA RedeemKeeps ==
    ASSUME Inv, NEW b \in Bets, redeemPositions(b)
    PROVE  Inv'
<1>1. PICK n \in Nat, step \in ScriptSteps :
         /\ PositionPays(b, n) /\ redemption' = step /\ step.pc \in {"idle", "offramp"}
  <2>1. \A n \in Nat : /\ Step("offramp", n, 1) \in ScriptSteps
                       /\ Step("offramp", n, 1).pc = "offramp"
    BY FirstTry, StepsAre
  <2>2. Ended \in ScriptSteps /\ Ended.pc = "idle"
    BY FirstTry, StepsAre DEF Ended
  <2>3. CASE \E n \in Proceeds : PositionPays(b, n) /\ redemption' = Step("offramp", n, 1)
    <3>1. PICK n \in Nat : PositionPays(b, n) /\ redemption' = Step("offramp", n, 1)
      BY <2>3, FundingAssumption
    <3> QED BY <2>1, <3>1
  <2>4. CASE PositionPays(b, 0) /\ UNCHANGED redemption
    <3>1. redemption' = Ended /\ 0 \in Nat
      BY <2>4 DEF redeemPositions
    <3> QED BY <2>2, <2>4, <3>1
  <2> QED BY <2>3, <2>4 DEF redeemPositions
<1>2. UnacknowledgedOf(redemption)' = 0
  BY <1>1 DEF UnacknowledgedOf
<1>3. UnacknowledgedOf(redemption) \in Nat
  BY Amounts DEF Inv
<1>4. /\ redemption' \in ScriptSteps /\ UnacknowledgedOf(redemption)' \in Nat
      /\ UnacknowledgedOf(redemption)' <= UnacknowledgedOf(redemption)
  BY <1>1, <1>2, <1>3
<1> QED BY <1>1, <1>4, PaysKeeps

\* A step of the redemption that moves money, or acknowledges it.
LEMMA RedemptionMoves ==
    ASSUME Inv, UNCHANGED <<setup, bets, queue, jobs, running, tool, extra>>,
           {vaultUsdc', dwUsdc', dwPusd', deployed', paid', gains'} \subseteq Nat,
           late' \in Batches \cup {NoBatch}, redemption' \in ScriptSteps,
           faults' \in 0..MaxFaults, dwPusd' <= dwPusd, CapInv'
    PROVE  Inv'
<1>0. TypeOK
  BY DEF Inv
<1>1. /\ extra' = extra + 0 /\ dwPusd' <= dwPusd + 0
      /\ {vaultUsdc', dwUsdc', dwPusd', deployed', paid', extra', gains'} \subseteq Nat
  BY <1>0, Amounts
<1>2. /\ bets' \in [Bets -> {"new", "asked", "funded", "unfunded", "spent", "closed"}]
      /\ script' \in ScriptSteps /\ reclaims' \in 0..MaxReclaims
  BY <1>0 DEF tool, TypeOK
<1> QED BY <1>1, <1>2, MoneyKeeps

\* The redemption goes on without moving money, and has no more to acknowledge than
\* before.
LEMMA RedemptionGoes ==
    ASSUME Inv, UNCHANGED <<setup, bets, queue, jobs, running, tool>>,
           UNCHANGED <<vaultUsdc, dwUsdc, dwPusd, deployed, paid, extra, gains>>,
           late' \in Batches \cup {NoBatch}, redemption' \in ScriptSteps,
           faults' \in 0..MaxFaults, NEW w \in Nat, w = UnacknowledgedOf(redemption)',
           w <= UnacknowledgedOf(redemption)
    PROVE  Inv'
<1>0. TypeOK /\ CapInv
  BY DEF Inv
<1>1. PICK u \in Nat, v \in Nat :
         u = UnacknowledgedOf(script) /\ v = UnacknowledgedOf(redemption)
  BY <1>0, Amounts
<1>2. Unacknowledged = u + v /\ Unacknowledged' = u + w
  BY <1>1 DEF Unacknowledged, UnacknowledgedOf, tool
<1>3. dwUsdc + dwPusd + paid + (u + w) <= deployed + gains /\ deployed <= Cap
  BY <1>0, <1>1, <1>2, Amounts DEF CapInv
<1>4. CapInv'
  BY <1>2, <1>3 DEF CapInv
<1>5. {vaultUsdc', dwUsdc', dwPusd', deployed', paid', gains'} \subseteq Nat /\ dwPusd' <= dwPusd
  BY <1>0, Amounts
<1> QED BY <1>4, <1>5, RedemptionMoves

\* The redeemed pUSD is sent to the Vault, where more or less of it is counted.
LEMMA OfframpKeeps ==
    ASSUME Inv, offrampPusdToVault
    PROVE  Inv'
<1>0. TypeOK /\ CapInv
  BY DEF Inv
<1>1. /\ redemption.pc = "offramp" /\ UNCHANGED <<setup, tool>>
      /\ UNCHANGED <<bets, queue, jobs, running>>
  BY DEF offrampPusdToVault, Redemption
<1>2. PICK n \in Nat, k \in 1..Retries : n = redemption.n /\ k = redemption.attempt
  <2>1. redemption \in ScriptSteps
    BY <1>0 DEF TypeOK
  <2> QED BY <2>1 DEF ScriptSteps
<1>3. PICK batch \in Batches : batch = Batch("return", n) /\ batch.kind = "return" /\ batch.n = n
  BY BatchIs
<1>4. /\ Ended \in ScriptSteps /\ Ended.pc = "idle"
      /\ UnacknowledgedOf(redemption) = 0 /\ 0 \in Nat
  BY <1>1, FirstTry, StepsAre DEF Ended, UnacknowledgedOf
<1>5. CASE /\ Covered(batch) /\ dwPusd' = dwPusd - n /\ vaultUsdc' = vaultUsdc + n
           /\ \E m \in 0..(n + Others) :
                 redemption' = Step("deployed", m, 1) /\ gains' = gains + Larger(m - n, 0)
           /\ UNCHANGED <<dwUsdc, paid, deployed, late, extra>> /\ NoFault
  <2>1. PICK m \in 0..(n + Others) :
           redemption' = Step("deployed", m, 1) /\ gains' = gains + Larger(m - n, 0)
    BY <1>5
  <2>2. m \in Nat
    BY <2>1, FundingAssumption
  <2>3. PICK g \in Nat : g = Larger(m - n, 0) /\ g >= m - n
    BY <1>2, <2>2 DEF Larger
  <2>4. PICK step \in ScriptSteps : step = Step("deployed", m, 1) /\ step.pc = "deployed" /\ step.n = m
    BY <2>2, FirstTry, StepsAre
  <2>5. n <= dwPusd
    BY <1>3, <1>5 DEF Covered
  <2>6. PICK u \in Nat : u = UnacknowledgedOf(script)
    BY <1>0, Amounts
  <2>7. Unacknowledged = u + 0 /\ Unacknowledged' = u + m
    BY <1>1, <1>4, <2>1, <2>4, <2>6 DEF Unacknowledged, UnacknowledgedOf, tool
  <2>8. /\ dwUsdc + (dwPusd - n) + paid + (u + m) <= deployed + (gains + g) /\ deployed <= Cap
    BY <1>0, <2>2, <2>3, <2>5, <2>6, <2>7, Amounts DEF CapInv
  <2>9. CapInv'
    BY <1>5, <2>1, <2>3, <2>7, <2>8 DEF CapInv
  <2>10. /\ {vaultUsdc', dwUsdc', dwPusd', deployed', paid', gains'} \subseteq Nat
         /\ dwPusd' <= dwPusd
    BY <1>0, <1>5, <2>1, <2>3, <2>5, Amounts
  <2>11. late' \in Batches \cup {NoBatch} /\ faults' \in 0..MaxFaults /\ UNCHANGED extra
    BY <1>0, <1>5 DEF TypeOK, NoFault
  <2> QED BY <1>1, <2>1, <2>4, <2>9, <2>10, <2>11, RedemptionMoves
<1>6. CASE /\ k < Retries /\ redemption' = Step("offramp", n, k + 1)
           /\ NoFault /\ UNCHANGED money
  <2>1. k + 1 \in 1..Retries
    BY <1>6, FundingAssumption
  <2>2. redemption' \in ScriptSteps /\ redemption'.pc = "offramp"
    BY <1>6, <2>1, StepsAre
  <2>3. UNCHANGED <<vaultUsdc, dwUsdc, dwPusd, deployed, paid, late, extra, gains, faults>>
    BY <1>6 DEF money, balances, NoFault
  <2>4. late' \in Batches \cup {NoBatch} /\ faults' \in 0..MaxFaults
    BY <1>0, <2>3 DEF TypeOK
  <2>5. 0 = UnacknowledgedOf(redemption)' /\ 0 <= UnacknowledgedOf(redemption)
    BY <1>4, <2>2 DEF UnacknowledgedOf
  <2> QED BY <1>1, <1>4, <2>2, <2>3, <2>4, <2>5, RedemptionGoes
<1>7. CASE BatchThrows(batch, k) /\ redemption' = Ended
  <2>1. /\ UNCHANGED <<vaultUsdc, dwUsdc, dwPusd, deployed, paid, extra, gains>>
        /\ late' \in Batches \cup {NoBatch} /\ faults' \in 0..MaxFaults
    BY <1>0, <1>7, BatchThrown
  <2>2. 0 = UnacknowledgedOf(redemption)' /\ 0 <= UnacknowledgedOf(redemption)
    BY <1>4, <1>7 DEF UnacknowledgedOf
  <2>3. redemption' \in ScriptSteps
    BY <1>4, <1>7
  <2> QED BY <1>1, <1>4, <2>1, <2>2, <2>3, RedemptionGoes
<1> QED BY <1>2, <1>3, <1>5, <1>6, <1>7 DEF offrampPusdToVault, WalletBusy, Redemption

\* What is deployed is read; no more than that is acknowledged.
LEMMA RedemptionDeployedKeeps ==
    ASSUME Inv, redemptionDeployed
    PROVE  Inv'
<1>0. TypeOK
  BY DEF Inv
<1>1. /\ UNCHANGED <<setup, bets, queue, jobs, running, tool, faults>>
      /\ UNCHANGED <<vaultUsdc, dwUsdc, dwPusd, deployed, paid, late, extra, gains>>
      /\ redemption.pc = "deployed" /\ redemption' = Step("ack", Acknowledged(redemption.n), 1)
  BY DEF redemptionDeployed, Redemption, money, balances
<1>2. PICK n \in Nat : n = redemption.n /\ n = UnacknowledgedOf(redemption)
  BY <1>0, <1>1 DEF TypeOK, ScriptSteps, UnacknowledgedOf
<1>3. PICK m \in Nat : m = Acknowledged(n) /\ m <= n
  BY <1>0, Amounts DEF Acknowledged, Smaller
<1>4. PICK step \in ScriptSteps : step = Step("ack", m, 1) /\ step.pc = "ack" /\ step.n = m
  BY FirstTry, StepsAre
<1>5. redemption' \in ScriptSteps /\ m = UnacknowledgedOf(redemption)'
  BY <1>1, <1>2, <1>3, <1>4 DEF UnacknowledgedOf
<1>6. late' \in Batches \cup {NoBatch} /\ faults' \in 0..MaxFaults
  BY <1>0, <1>1 DEF TypeOK
<1> QED BY <1>1, <1>2, <1>3, <1>5, <1>6, RedemptionGoes

\* The redemption acknowledges, or the Vault reverts.
LEMMA RedemptionAckKeeps ==
    ASSUME Inv, redemptionAck
    PROVE  Inv'
<1>0. TypeOK /\ CapInv
  BY DEF Inv
<1>1. /\ UNCHANGED <<setup, bets, queue, jobs, running, tool, faults>>
      /\ UNCHANGED <<vaultUsdc, dwUsdc, dwPusd, paid, late, extra, gains>>
      /\ redemption.pc = "ack" /\ redemption' = Ended
      /\ deployed' = IF redemption.n <= deployed THEN deployed - redemption.n ELSE deployed
  BY DEF redemptionAck, Redemption, Acknowledge, balances
<1>2. PICK n \in Nat : n = redemption.n /\ n = UnacknowledgedOf(redemption)
  BY <1>0, <1>1 DEF TypeOK, ScriptSteps, UnacknowledgedOf
<1>3. PICK u \in Nat : u = UnacknowledgedOf(script)
  BY <1>0, Amounts
<1>4. Ended \in ScriptSteps /\ Ended.pc = "idle"
  BY FirstTry, StepsAre DEF Ended
<1>5. Unacknowledged = u + n /\ Unacknowledged' = u + 0
  BY <1>1, <1>2, <1>3, <1>4 DEF Unacknowledged, UnacknowledgedOf, tool
<1>6. PICK d \in Nat : d = deployed' /\ d <= deployed /\ d >= deployed - n
  BY <1>0, <1>1, <1>2, Amounts
<1>7. dwUsdc + dwPusd + paid + (u + 0) <= d + gains /\ d <= Cap
  BY <1>0, <1>2, <1>3, <1>5, <1>6, Amounts DEF CapInv
<1>8. CapInv'
  BY <1>1, <1>5, <1>6, <1>7 DEF CapInv
<1>9. /\ {vaultUsdc', dwUsdc', dwPusd', deployed', paid', gains'} \subseteq Nat
      /\ dwPusd' <= dwPusd
  BY <1>0, <1>1, <1>6, Amounts
<1>10. /\ late' \in Batches \cup {NoBatch} /\ faults' \in 0..MaxFaults
       /\ redemption' \in ScriptSteps /\ UNCHANGED extra
  BY <1>0, <1>1, <1>4 DEF TypeOK
<1> QED BY <1>1, <1>8, <1>9, <1>10, RedemptionMoves

-----------------------------------------------------------------------------
(* The reclaim script.                                                     *)

\* A step of the script that moves money, or acknowledges it.
LEMMA ScriptMoves ==
    ASSUME Inv, UNCHANGED <<setup, service, extra>>,
           {vaultUsdc', dwUsdc', dwPusd', deployed', paid', gains'} \subseteq Nat,
           late' \in Batches \cup {NoBatch}, script' \in ScriptSteps,
           reclaims' \in 0..MaxReclaims, faults' \in 0..MaxFaults, dwPusd' <= dwPusd, CapInv'
    PROVE  Inv'
<1>0. TypeOK
  BY DEF Inv
<1>1. UNCHANGED <<bets, queue, jobs, running, redemption>>
  BY DEF service
<1>2. /\ extra' = extra + 0 /\ dwPusd' <= dwPusd + 0
      /\ {vaultUsdc', dwUsdc', dwPusd', deployed', paid', extra', gains'} \subseteq Nat
  BY <1>0, Amounts
<1>3. /\ bets' \in [Bets -> {"new", "asked", "funded", "unfunded", "spent", "closed"}]
      /\ redemption' \in ScriptSteps
  BY <1>0, <1>1 DEF TypeOK
<1> QED BY <1>1, <1>2, <1>3, MoneyKeeps

\* A step of the script that moves no money, and after which it has no more to acknowledge
\* than before.
LEMMA ScriptStays ==
    ASSUME Inv, UNCHANGED <<setup, service, vaultUsdc, dwUsdc, dwPusd, deployed, paid, extra, gains>>,
           late' \in Batches \cup {NoBatch}, script' \in ScriptSteps,
           reclaims' \in 0..MaxReclaims, faults' \in 0..MaxFaults,
           NEW w \in Nat, w = UnacknowledgedOf(script)', w <= UnacknowledgedOf(script)
    PROVE  Inv'
<1>0. TypeOK /\ CapInv
  BY DEF Inv
<1>1. PICK u \in Nat, v \in Nat :
         u = UnacknowledgedOf(script) /\ v = UnacknowledgedOf(redemption)
  BY <1>0, Amounts
<1>2. Unacknowledged = u + v /\ Unacknowledged' = w + v
  BY <1>1 DEF Unacknowledged, UnacknowledgedOf, service
<1>3. dwUsdc + dwPusd + paid + (w + v) <= deployed + gains /\ deployed <= Cap
  BY <1>0, <1>1, <1>2, Amounts DEF CapInv
<1>4. CapInv'
  BY <1>2, <1>3 DEF CapInv
<1>5. {vaultUsdc', dwUsdc', dwPusd', deployed', paid', gains'} \subseteq Nat /\ dwPusd' <= dwPusd
  BY <1>0, Amounts
<1> QED BY <1>4, <1>5, ScriptMoves

\* The script starts: it reads the pUSD, or goes straight to the USDC.
LEMMA ReclaimStartsKeeps ==
    ASSUME Inv, reclaimStarts
    PROVE  Inv'
<1>0. TypeOK
  BY DEF Inv
<1>1. /\ UNCHANGED <<setup, service, vaultUsdc, dwUsdc, dwPusd, deployed, paid, late, extra,
                     gains, faults>>
      /\ script.pc = "idle" /\ reclaims' = reclaims + 1 /\ reclaims < MaxReclaims
  BY DEF reclaimStarts, money, balances
<1>2. script' \in ScriptSteps /\ script'.pc \in {"balance", "offramp"}
  <2>1. dwPusd \in Nat /\ 0 \in Nat
    BY <1>0, Amounts
  <2> QED BY <2>1, FirstTry, StepsAre DEF reclaimStarts
<1>3. reclaims' \in 0..MaxReclaims /\ faults' \in 0..MaxFaults /\ late' \in Batches \cup {NoBatch}
  BY <1>0, <1>1, FundingAssumption DEF TypeOK
<1>4. 0 \in Nat /\ 0 = UnacknowledgedOf(script)' /\ 0 <= UnacknowledgedOf(script)
  BY <1>1, <1>2 DEF UnacknowledgedOf
<1> QED BY <1>1, <1>2, <1>3, <1>4, ScriptStays

\* The script reads the idle USDC, and takes some or all of it.
LEMMA ReclaimBalanceKeeps ==
    ASSUME Inv, reclaimBalance
    PROVE  Inv'
<1>0. TypeOK
  BY DEF Inv
<1>1. /\ UNCHANGED <<setup, service, vaultUsdc, dwUsdc, dwPusd, deployed, paid, late, extra,
                     gains, faults, reclaims>>
      /\ script.pc = "balance"
  BY DEF reclaimBalance, money, balances, Script
<1>2. script' \in ScriptSteps /\ script'.pc \in {"idle", "sweep"}
  <2>1. dwUsdc \in Nat /\ 0 \in Nat /\ 1..dwUsdc \subseteq Nat
    BY <1>0, Amounts
  <2> QED BY <2>1, FirstTry, StepsAre DEF reclaimBalance, Script, Ended
<1>3. reclaims' \in 0..MaxReclaims /\ faults' \in 0..MaxFaults /\ late' \in Batches \cup {NoBatch}
  BY <1>0, <1>1 DEF TypeOK
<1>4. 0 \in Nat /\ 0 = UnacknowledgedOf(script)' /\ 0 <= UnacknowledgedOf(script)
  BY <1>1, <1>2 DEF UnacknowledgedOf
<1> QED BY <1>1, <1>2, <1>3, <1>4, ScriptStays

\* The unwrap batch turns pUSD back into USDC.
LEMMA ReclaimOfframpKeeps ==
    ASSUME Inv, reclaimOfframp
    PROVE  Inv'
<1>0. TypeOK /\ CapInv
  BY DEF Inv
<1>1. UNCHANGED <<setup, service, reclaims>> /\ script.pc = "offramp"
  BY DEF reclaimOfframp, Script
<1>2. PICK n \in Nat, k \in 1..Retries : n = script.n /\ k = script.attempt
  <2>1. script \in ScriptSteps
    BY <1>0 DEF TypeOK
  <2> QED BY <2>1 DEF ScriptSteps
<1>3. PICK batch \in Batches : batch = Batch("unwrap", n) /\ batch.kind = "unwrap" /\ batch.n = n
  BY BatchIs
<1>4. /\ Step("balance", 0, 1) \in ScriptSteps /\ Step("balance", 0, 1).pc = "balance"
      /\ Ended \in ScriptSteps /\ Ended.pc = "idle"
      /\ UnacknowledgedOf(script) = 0 /\ 0 \in Nat
  BY <1>1, FirstTry, StepsAre DEF Ended, UnacknowledgedOf
<1>5. reclaims' \in 0..MaxReclaims
  BY <1>0, <1>1 DEF TypeOK
<1>6. CASE BatchMined(batch) /\ script' = Step("balance", 0, 1)
  <2>1. Covered(batch) /\ Mine(batch) /\ UNCHANGED <<late, extra, faults>>
    BY <1>6 DEF BatchMined, NoFault
  <2>2. /\ {vaultUsdc', dwUsdc', dwPusd'} \subseteq Nat /\ UNCHANGED <<deployed, paid, gains>>
        /\ dwUsdc' + dwPusd' = dwUsdc + dwPusd /\ dwPusd' <= dwPusd
    BY <1>0, <1>3, <2>1, BatchMoves
  <2>3. UnacknowledgedOf(script)' = 0
    BY <1>4, <1>6 DEF UnacknowledgedOf
  <2>4. UNCHANGED Unacknowledged
    BY <1>1, <1>4, <2>3 DEF Unacknowledged, UnacknowledgedOf, service
  <2>5. CapInv'
    <3>1. (dwUsdc' + dwPusd') + paid + Unacknowledged <= deployed + gains /\ deployed <= Cap
      BY <1>0, <2>2, Amounts DEF CapInv
    <3> QED BY <2>2, <2>4, <3>1 DEF CapInv
  <2>6. /\ {vaultUsdc', dwUsdc', dwPusd', deployed', paid', gains'} \subseteq Nat
        /\ late' \in Batches \cup {NoBatch} /\ faults' \in 0..MaxFaults
    BY <1>0, <2>1, <2>2 DEF TypeOK
  <2> QED BY <1>1, <1>4, <1>5, <1>6, <2>1, <2>2, <2>5, <2>6, ScriptMoves
<1>7. CASE /\ k < Retries /\ script' = Step("offramp", n, k + 1)
           /\ NoFault /\ UNCHANGED money
  <2>1. k + 1 \in 1..Retries
    BY <1>7, FundingAssumption
  <2>2. script' \in ScriptSteps /\ script'.pc = "offramp"
    BY <1>7, <2>1, StepsAre
  <2>3. UNCHANGED <<vaultUsdc, dwUsdc, dwPusd, deployed, paid, late, extra, gains, faults>>
    BY <1>7 DEF money, balances, NoFault
  <2>4. late' \in Batches \cup {NoBatch} /\ faults' \in 0..MaxFaults
    BY <1>0, <2>3 DEF TypeOK
  <2>5. 0 = UnacknowledgedOf(script)' /\ 0 <= UnacknowledgedOf(script)
    BY <1>4, <2>2 DEF UnacknowledgedOf
  <2> QED BY <1>1, <1>4, <1>5, <2>2, <2>3, <2>4, <2>5, ScriptStays
<1>8. CASE BatchThrows(batch, k) /\ script' = Ended
  <2>1. /\ UNCHANGED <<vaultUsdc, dwUsdc, dwPusd, deployed, paid, extra, gains>>
        /\ late' \in Batches \cup {NoBatch} /\ faults' \in 0..MaxFaults
    BY <1>0, <1>8, BatchThrown
  <2>2. 0 = UnacknowledgedOf(script)' /\ 0 <= UnacknowledgedOf(script) /\ script' \in ScriptSteps
    BY <1>4, <1>8 DEF UnacknowledgedOf
  <2> QED BY <1>1, <1>4, <1>5, <2>1, <2>2, ScriptStays
<1> QED BY <1>2, <1>3, <1>6, <1>7, <1>8 DEF reclaimOfframp, WalletBusy, Script

\* The sweep sends USDC back to the Vault, which has yet to hear of it.
LEMMA ReclaimSweepKeeps ==
    ASSUME Inv, reclaimSweep
    PROVE  Inv'
<1>0. TypeOK /\ CapInv
  BY DEF Inv
<1>1. UNCHANGED <<setup, service, reclaims>> /\ script.pc = "sweep"
  BY DEF reclaimSweep, Script
<1>2. PICK n \in Nat, k \in 1..Retries : n = script.n /\ k = script.attempt
  <2>1. script \in ScriptSteps
    BY <1>0 DEF TypeOK
  <2> QED BY <2>1 DEF ScriptSteps
<1>3. PICK batch \in Batches : batch = Batch("sweep", n) /\ batch.kind = "sweep" /\ batch.n = n
  BY BatchIs
<1>4. /\ Step("deployed", n, 1) \in ScriptSteps /\ Step("deployed", n, 1).pc = "deployed"
      /\ Step("deployed", n, 1).n = n
      /\ Ended \in ScriptSteps /\ Ended.pc = "idle"
      /\ UnacknowledgedOf(script) = 0 /\ 0 \in Nat
  BY <1>1, FirstTry, StepsAre DEF Ended, UnacknowledgedOf
<1>5. reclaims' \in 0..MaxReclaims
  BY <1>0, <1>1 DEF TypeOK
<1>6. CASE BatchMined(batch) /\ script' = Step("deployed", n, 1)
  <2>1. Covered(batch) /\ Mine(batch) /\ UNCHANGED <<late, extra, faults>>
    BY <1>6 DEF BatchMined, NoFault
  <2>2. /\ {vaultUsdc', dwUsdc', dwPusd'} \subseteq Nat /\ UNCHANGED <<deployed, paid, gains>>
        /\ dwUsdc' + dwPusd' + n = dwUsdc + dwPusd /\ dwPusd' = dwPusd
    BY <1>0, <1>3, <2>1, BatchMoves
  <2>3. PICK u \in Nat, p \in Nat : u = dwUsdc' /\ p = dwPusd' /\ u + p + n = dwUsdc + dwPusd
    BY <2>2
  <2>4. PICK v \in Nat : v = UnacknowledgedOf(redemption)
    BY <1>0, Amounts
  <2>5. Unacknowledged = 0 + v /\ Unacknowledged' = n + v
    BY <1>1, <1>4, <1>6, <2>4 DEF Unacknowledged, UnacknowledgedOf, service
  <2>6. CapInv'
    <3>1. u + p + paid + (n + v) <= deployed + gains /\ deployed <= Cap
      BY <1>0, <2>3, <2>4, <2>5, Amounts DEF CapInv
    <3> QED BY <2>2, <2>3, <2>5, <3>1 DEF CapInv
  <2>7. /\ {vaultUsdc', dwUsdc', dwPusd', deployed', paid', gains'} \subseteq Nat
        /\ late' \in Batches \cup {NoBatch} /\ faults' \in 0..MaxFaults
    BY <1>0, <2>1, <2>2 DEF TypeOK
  <2>8. dwPusd' <= dwPusd
    BY <1>0, <2>2, Amounts
  <2> QED BY <1>1, <1>4, <1>5, <1>6, <2>1, <2>6, <2>7, <2>8, ScriptMoves
<1>7. CASE /\ k < Retries /\ script' = Step("sweep", n, k + 1)
           /\ NoFault /\ UNCHANGED money
  <2>1. k + 1 \in 1..Retries
    BY <1>7, FundingAssumption
  <2>2. script' \in ScriptSteps /\ script'.pc = "sweep"
    BY <1>7, <2>1, StepsAre
  <2>3. UNCHANGED <<vaultUsdc, dwUsdc, dwPusd, deployed, paid, late, extra, gains, faults>>
    BY <1>7 DEF money, balances, NoFault
  <2>4. late' \in Batches \cup {NoBatch} /\ faults' \in 0..MaxFaults
    BY <1>0, <2>3 DEF TypeOK
  <2>5. 0 = UnacknowledgedOf(script)' /\ 0 <= UnacknowledgedOf(script)
    BY <1>4, <2>2 DEF UnacknowledgedOf
  <2> QED BY <1>1, <1>4, <1>5, <2>2, <2>3, <2>4, <2>5, ScriptStays
<1>8. CASE BatchThrows(batch, k) /\ script' = Ended
  <2>1. /\ UNCHANGED <<vaultUsdc, dwUsdc, dwPusd, deployed, paid, extra, gains>>
        /\ late' \in Batches \cup {NoBatch} /\ faults' \in 0..MaxFaults
    BY <1>0, <1>8, BatchThrown
  <2>2. 0 = UnacknowledgedOf(script)' /\ 0 <= UnacknowledgedOf(script) /\ script' \in ScriptSteps
    BY <1>4, <1>8 DEF UnacknowledgedOf
  <2> QED BY <1>1, <1>4, <1>5, <2>1, <2>2, ScriptStays
<1> QED BY <1>2, <1>3, <1>6, <1>7, <1>8 DEF reclaimSweep, WalletBusy, Script

\* What is deployed is read; no more than that is acknowledged.
LEMMA ReclaimDeployedKeeps ==
    ASSUME Inv, reclaimDeployed
    PROVE  Inv'
<1>0. TypeOK
  BY DEF Inv
<1>1. /\ UNCHANGED <<setup, service, vaultUsdc, dwUsdc, dwPusd, deployed, paid, late, extra,
                     gains, faults, reclaims>>
      /\ script.pc = "deployed" /\ script' = Step("ack", Acknowledged(script.n), 1)
  BY DEF reclaimDeployed, Script, money, balances
<1>2. PICK n \in Nat : n = script.n /\ n = UnacknowledgedOf(script)
  BY <1>0, <1>1 DEF TypeOK, ScriptSteps, UnacknowledgedOf
<1>3. PICK m \in Nat : m = Acknowledged(n) /\ m <= n
  BY <1>0, Amounts DEF Acknowledged, Smaller
<1>4. PICK step \in ScriptSteps : step = Step("ack", m, 1) /\ step.pc = "ack" /\ step.n = m
  BY FirstTry, StepsAre
<1>5. script' \in ScriptSteps /\ m = UnacknowledgedOf(script)'
  BY <1>1, <1>2, <1>3, <1>4 DEF UnacknowledgedOf
<1>6. /\ late' \in Batches \cup {NoBatch} /\ faults' \in 0..MaxFaults
      /\ reclaims' \in 0..MaxReclaims
  BY <1>0, <1>1 DEF TypeOK
<1> QED BY <1>1, <1>2, <1>3, <1>5, <1>6, ScriptStays

\* The acknowledgement takes off what came back, or the Vault reverts.
LEMMA ReclaimAckKeeps ==
    ASSUME Inv, reclaimAck
    PROVE  Inv'
<1>0. TypeOK /\ CapInv
  BY DEF Inv
<1>1. /\ UNCHANGED <<setup, service, vaultUsdc, dwUsdc, dwPusd, paid, late, extra, gains,
                     faults, reclaims>>
      /\ script.pc = "ack" /\ script' = Ended
      /\ deployed' = IF script.n <= deployed THEN deployed - script.n ELSE deployed
  BY DEF reclaimAck, Script, Acknowledge, balances
<1>2. PICK n \in Nat : n = script.n /\ n = UnacknowledgedOf(script)
  BY <1>0, <1>1 DEF TypeOK, ScriptSteps, UnacknowledgedOf
<1>3. PICK v \in Nat : v = UnacknowledgedOf(redemption)
  BY <1>0, Amounts
<1>4. Ended \in ScriptSteps /\ Ended.pc = "idle"
  BY FirstTry, StepsAre DEF Ended
<1>5. Unacknowledged = n + v /\ Unacknowledged' = 0 + v
  BY <1>1, <1>2, <1>3, <1>4 DEF Unacknowledged, UnacknowledgedOf, service
<1>6. PICK d \in Nat : d = deployed' /\ d <= deployed /\ d >= deployed - n
  BY <1>0, <1>1, <1>2, Amounts
<1>7. dwUsdc + dwPusd + paid + (0 + v) <= d + gains /\ d <= Cap
  BY <1>0, <1>2, <1>3, <1>5, <1>6, Amounts DEF CapInv
<1>8. CapInv'
  BY <1>1, <1>5, <1>6, <1>7 DEF CapInv
<1>9. /\ {vaultUsdc', dwUsdc', dwPusd', deployed', paid', gains'} \subseteq Nat
      /\ dwPusd' <= dwPusd
  BY <1>0, <1>1, <1>6, Amounts
<1>10. /\ late' \in Batches \cup {NoBatch} /\ faults' \in 0..MaxFaults
       /\ reclaims' \in 0..MaxReclaims /\ script' \in ScriptSteps /\ UNCHANGED extra
  BY <1>0, <1>1, <1>4 DEF TypeOK
<1> QED BY <1>1, <1>8, <1>9, <1>10, ScriptMoves

\* The script dies; what it had not acknowledged stays counted as out.
LEMMA ReclaimDiesKeeps ==
    ASSUME Inv, reclaimDies
    PROVE  Inv'
<1>0. TypeOK
  BY DEF Inv
<1>1. /\ UNCHANGED <<setup, service, vaultUsdc, dwUsdc, dwPusd, deployed, paid, late, extra,
                     gains, reclaims>>
      /\ Fault("crash") /\ script' = Ended
  BY DEF reclaimDies, money, balances, Script
<1>2. script' \in ScriptSteps /\ script'.pc = "idle"
  BY <1>1, FirstTry, StepsAre DEF Ended
<1>3. faults' \in 0..MaxFaults
  BY <1>0, <1>1, FaultCounted DEF Fault
<1>4. reclaims' \in 0..MaxReclaims /\ late' \in Batches \cup {NoBatch}
  BY <1>0, <1>1 DEF TypeOK
<1>5. 0 \in Nat /\ 0 = UnacknowledgedOf(script)' /\ 0 <= UnacknowledgedOf(script)
  BY <1>0, <1>2, Amounts DEF UnacknowledgedOf
<1> QED BY <1>1, <1>2, <1>3, <1>4, <1>5, ScriptStays

-----------------------------------------------------------------------------
(* Joining the chain, and restarts.                                        *)

\* A task that joins the chain waits for the ones before it.
LEMMA JoinKeeps ==
    ASSUME Inv, NEW x \in Tasks, queue' = Append(queue, x),
           UNCHANGED <<setup, jobs, redemption, money, tool, faults>>, running' \in BOOLEAN,
           bets' \in [Bets -> {"new", "asked", "funded", "unfunded", "spent", "closed"}]
    PROVE  Inv'
<1>0. TypeOK /\ CapInv /\ TurnInv /\ NeverDoubleFunded
  BY DEF Inv
<1>1. queue' \in Seq(Tasks) /\ queue' # <<>> /\ \A t \in Tasks : HasTurn(t) => Head(queue') = t
  BY <1>0, JoinsChain
<1>2. /\ UNCHANGED <<vaultUsdc, dwUsdc, dwPusd, deployed, paid, late, extra, gains, script, reclaims>>
      /\ UNCHANGED Unacknowledged
  BY UnacknowledgedSame DEF money, balances, tool
<1>3. TurnInv'
  BY <1>0, <1>1, <1>2 DEF TurnInv, HasTurn, Within
<1>4. CapInv' /\ NeverDoubleFunded'
  BY <1>0, <1>2 DEF CapInv, NeverDoubleFunded
<1>5. TypeOK'
  BY <1>0, <1>1, <1>2 DEF TypeOK, setup
<1> QED BY <1>3, <1>4, <1>5 DEF Inv

\* A bet asks for its amount.
LEMMA EnsureKeeps ==
    ASSUME Inv, NEW b \in Bets, ensureDepositWalletFunded(b)
    PROVE  Inv'
<1>1. TypeOK
  BY DEF Inv
<1>2. b \in Tasks /\ queue' = Append(queue, b)
  BY DEF ensureDepositWalletFunded, Tasks
<1>3. bets' \in [Bets -> {"new", "asked", "funded", "unfunded", "spent", "closed"}]
  BY <1>1 DEF ensureDepositWalletFunded, TypeOK
<1>4. UNCHANGED <<setup, jobs, running, redemption, money, tool, faults>> /\ running' \in BOOLEAN
  BY <1>1 DEF ensureDepositWalletFunded, TypeOK
<1> QED BY <1>2, <1>3, <1>4, JoinKeeps

\* The buffer manager's timer fires.
LEMMA PollKeeps ==
    ASSUME Inv, pollTick
    PROVE  Inv'
<1>1. TypeOK
  BY DEF Inv
<1>2. Buffer \in Tasks /\ queue' = Append(queue, Buffer) /\ running' \in BOOLEAN
  BY DEF pollTick, Tasks, WithTick
<1>3. /\ UNCHANGED <<setup, bets, jobs, redemption, money, tool, faults>>
      /\ bets' \in [Bets -> {"new", "asked", "funded", "unfunded", "spent", "closed"}]
  BY <1>1 DEF pollTick, TypeOK
<1> QED BY <1>2, <1>3, JoinKeeps

\* A restart forgets what each task was about to do.
LEMMA RestartKeeps ==
    ASSUME Inv, Restart
    PROVE  Inv'
<1>0. TypeOK /\ CapInv /\ NeverDoubleFunded
  BY DEF Inv
<1>1. /\ UNCHANGED <<setup, money, tool>> /\ Fault("restart")
      /\ bets' = [b \in Bets |-> IF bets[b] = "asked" THEN "new" ELSE bets[b]]
      /\ running' = (Low > 0) /\ queue' = IF Low > 0 THEN <<Buffer>> ELSE <<>>
      /\ jobs' = [t \in Tasks |-> Start] /\ redemption' = Ended
  BY DEF Restart
<1>2. UNCHANGED <<vaultUsdc, dwUsdc, dwPusd, deployed, paid, late, extra, gains, script, reclaims>>
  BY <1>1 DEF money, balances, tool
<1>3. jobs' \in [Tasks -> Jobs] /\ \A t \in Tasks : jobs'[t].pc = "read"
  BY <1>1, FirstTry, StepsAre DEF Start
<1>4. TurnInv'
  BY <1>3 DEF TurnInv
<1>5. CapInv' /\ NeverDoubleFunded'
  <2>1. PICK u \in Nat, v \in Nat :
           u = UnacknowledgedOf(script) /\ v = UnacknowledgedOf(redemption)
    BY <1>0, Amounts
  <2>2. Ended.pc = "idle"
    BY FirstTry, StepsAre DEF Ended
  <2>3. Unacknowledged = u + v /\ Unacknowledged' = u + 0
    BY <1>1, <1>2, <2>1, <2>2 DEF Unacknowledged, UnacknowledgedOf
  <2>4. dwUsdc + dwPusd + paid + (u + 0) <= deployed + gains /\ deployed <= Cap
    BY <1>0, <2>1, <2>3, Amounts DEF CapInv
  <2>5. CapInv'
    BY <1>2, <2>3, <2>4 DEF CapInv
  <2>6. NeverDoubleFunded'
    BY <1>0, <1>2 DEF NeverDoubleFunded
  <2> QED BY <2>5, <2>6
<1>6. faults' \in 0..MaxFaults
  BY <1>0, <1>1, FaultCounted DEF Fault
<1>7. queue' \in Seq(Tasks)
  <2>1. <<Buffer>> \in Seq(Tasks) /\ <<>> \in Seq(Tasks)
    BY DEF Tasks
  <2> QED BY <1>1, <2>1
<1>8. bets' \in [Bets -> {"new", "asked", "funded", "unfunded", "spent", "closed"}]
  BY <1>0, <1>1 DEF TypeOK
<1>9. redemption' \in ScriptSteps
  BY <1>1, FirstTry, StepsAre DEF Ended
<1>10. TypeOK'
  BY <1>0, <1>1, <1>2, <1>3, <1>6, <1>7, <1>8, <1>9 DEF TypeOK, setup
<1> QED BY <1>4, <1>5, <1>10 DEF Inv

-----------------------------------------------------------------------------
(* The theorems.                                                           *)

\* At the start everything is in the Vault and the buffer's first tick is on the chain.
LEMMA InitInv == Init => Inv
<1> SUFFICES ASSUME Init PROVE Inv
  OBVIOUS
<1>1. /\ executor \in {"relayer", "eoa", "none"} /\ stake \in [Bets -> Stakes]
      /\ bets = [b \in Bets |-> "new"] /\ running \in BOOLEAN
      /\ queue \in {<<Buffer>>, <<>>}
      /\ jobs = [t \in Tasks |-> Start]
      /\ vaultUsdc = Liquidity /\ dwUsdc = 0 /\ dwPusd = 0 /\ deployed = 0
      /\ paid = 0 /\ late = NoBatch /\ extra = 0 /\ gains = 0
      /\ script = Ended /\ redemption = Ended /\ reclaims = 0 /\ faults = 0
  BY DEF Init
<1>2. /\ Start \in Jobs /\ Start.pc = "read"
      /\ Ended \in ScriptSteps /\ Ended.pc = "idle"
  BY FirstTry, StepsAre DEF Start, Ended
<1>3. TypeOK
  <2>1. queue \in Seq(Tasks)
    <3>1. <<Buffer>> \in Seq(Tasks) /\ <<>> \in Seq(Tasks)
      BY DEF Tasks
    <3> QED BY <1>1, <3>1
  <2>2. {vaultUsdc, dwUsdc, dwPusd, deployed, paid, extra, gains} \subseteq Nat
    BY <1>1, FundingAssumption
  <2>3. reclaims \in 0..MaxReclaims /\ faults \in 0..MaxFaults
    BY <1>1, FundingAssumption
  <2> QED BY <1>1, <1>2, <2>1, <2>2, <2>3 DEF TypeOK
<1>4. CapInv
  <2>1. 0 + 0 + 0 + 0 <= 0 + 0 /\ 0 <= Cap
    BY FundingAssumption
  <2>2. Unacknowledged = 0 + 0
    BY <1>1, <1>2 DEF Unacknowledged, UnacknowledgedOf
  <2> QED BY <1>1, <2>1, <2>2 DEF CapInv
<1>5. TurnInv
  BY <1>1, <1>2 DEF TurnInv
<1>6. NeverDoubleFunded
  <2>1. Low \in Stakes \cup {Low, Target} /\ 0 <= Low + 0
    BY FundingAssumption
  <2> QED BY <1>1, <2>1 DEF NeverDoubleFunded
<1> QED BY <1>3, <1>4, <1>5, <1>6 DEF Inv

\* Every step of the service, of the script and of the wallet keeps the invariant.
LEMMA NextInv == Inv /\ [Next]_vars => Inv'
<1> SUFFICES ASSUME Inv, [Next]_vars PROVE Inv'
  OBVIOUS
<1>1. ASSUME NEW b \in Bets, ensureDepositWalletFunded(b) PROVE Inv'
  BY <1>1, EnsureKeeps
<1>2. ASSUME NEW b \in Bets, orderEnds(b) PROVE Inv'
  BY <1>2, OrderEndsKeeps
<1>3. ASSUME NEW t \in Tasks, readBalance(t) PROVE Inv'
  BY <1>3, ReadKeeps
<1>4. ASSUME NEW t \in Tasks, fundPolymarketWallet(t) PROVE Inv'
  BY <1>4, FundKeeps
<1>5. ASSUME NEW t \in Tasks, wrapUsdcToPusd(t) PROVE Inv'
  BY <1>5, WrapKeeps
<1>16. ASSUME NEW b \in Bets, positionSold(b) PROVE Inv'
  BY <1>16, SoldKeeps
<1>17. ASSUME NEW b \in Bets, redeemPositions(b) PROVE Inv'
  BY <1>17, RedeemKeeps
<1>18. ASSUME NEW t \in Tasks, heldUpMined(t) PROVE Inv'
  BY <1>18, HeldUpKeeps
<1>19. CASE offrampPusdToVault
  BY <1>19, OfframpKeeps
<1>20. CASE redemptionDeployed
  BY <1>20, RedemptionDeployedKeeps
<1>21. CASE redemptionAck
  BY <1>21, RedemptionAckKeeps
<1>22. CASE reclaimDeployed
  BY <1>22, ReclaimDeployedKeeps
<1>6. CASE pollTick
  BY <1>6, PollKeeps
<1>7. CASE lateBatch
  BY <1>7, LateKeeps
<1>8. CASE Restart
  BY <1>8, RestartKeeps
<1>9. CASE reclaimStarts
  BY <1>9, ReclaimStartsKeeps
<1>10. CASE reclaimOfframp
  BY <1>10, ReclaimOfframpKeeps
<1>11. CASE reclaimBalance
  BY <1>11, ReclaimBalanceKeeps
<1>12. CASE reclaimSweep
  BY <1>12, ReclaimSweepKeeps
<1>13. CASE reclaimAck
  BY <1>13, ReclaimAckKeeps
<1>14. CASE reclaimDies
  BY <1>14, ReclaimDiesKeeps
<1>15. CASE UNCHANGED vars
  <2>1. UNCHANGED <<executor, stake, bets, queue, jobs, running, vaultUsdc, dwUsdc, dwPusd,
                    deployed, paid, late, extra, gains, script, redemption, reclaims, faults>>
    BY <1>15 DEF vars, setup, service, money, balances, tool
  <2> QED BY <2>1 DEF Inv, TypeOK, CapInv, TurnInv, NeverDoubleFunded, Unacknowledged,
                      UnacknowledgedOf, HasTurn, Within
<1> QED BY <1>1, <1>2, <1>3, <1>4, <1>5, <1>6, <1>7, <1>8, <1>9, <1>10, <1>11, <1>12, <1>13,
           <1>14, <1>15, <1>16, <1>17, <1>18, <1>19, <1>20, <1>21, <1>22
        DEF Next

\* The variables keep their types: no balance goes below zero, since the Vault pays only
\* what it has and a batch that is not covered reverts.
THEOREM TypeCorrect == Spec => []TypeOK
<1>1. Inv => TypeOK
  BY DEF Inv
<1> QED BY InitInv, NextInv, <1>1, PTL DEF Spec

\* What is deployed, which the cap bounds, and the bets' gains bound what is out of the
\* Vault: through failed wraps, late batches, redemptions that count other money and a
\* reclaim that runs beside the service or dies half-way.
THEOREM CapHolds == Spec => []CapBoundsOutside
<1>1. Inv => CapBoundsOutside
  <2> SUFFICES ASSUME Inv PROVE CapBoundsOutside
    OBVIOUS
  <2>1. TypeOK /\ CapInv
    BY DEF Inv
  <2> QED BY <2>1, Amounts DEF CapInv, CapBoundsOutside
<1> QED BY InitInv, NextInv, <1>1, PTL DEF Spec

\* The chain never tops the wallet up twice for the same need: its pUSD stays within a
\* stake or the buffer's target, but for what batches mined after they timed out,
\* redemptions and SELLs have brought.
THEOREM FundedOnce == Spec => []NeverDoubleFunded
<1>1. Inv => NeverDoubleFunded
  BY DEF Inv
<1> QED BY InitInv, NextInv, <1>1, PTL DEF Spec

-----------------------------------------------------------------------------
(* Nonces: the invariant.                                                  *)

WorkState == {Idle} \cup Asking \cup Sending

\* A call that is not over has sent nothing yet, unless what it sent was "known".
SentInv ==
    \A w \in Workers :
        /\ sent[w] <= 1 \/ w \in known
        /\ work[w] # Idle =>
              sent[w] = 0 \/ (w \in known /\ sent[w] = 1 /\ work[w].attempt = 2)

\* The relay up to its first failed call: the worker that seeds is the one inside the
\* lock and the manager has no number then; without a number nothing was ever sent; and
\* with one, whatever is sent or accepted lies below it, each number once.
LockInv ==
    manager = "relay" /\ ~failed =>
        /\ \A w \in Workers : At(w, "seed") <=> lock = w
        /\ lock # None => nonce = None
        /\ nonce = None => accepted = {} /\ \A w \in Workers : ~At(w, "send")
        /\ nonce # None => nonce >= 0 /\ \A n \in accepted : n < nonce
        /\ \A w \in Workers : At(w, "send") =>
              0 <= work[w].n /\ work[w].n < nonce /\ work[w].n \notin accepted
        /\ \A v, w \in Workers : v # w /\ At(v, "send") /\ At(w, "send") => work[v].n # work[w].n

NoncesInv == NoncesTypeOK /\ SentInv /\ LockInv

-----------------------------------------------------------------------------
(* The node's count.                                                       *)

\* A set of naturals has a least element.
LEMMA Least ==
    ASSUME NEW T \in SUBSET Nat, T # {}
    PROVE  \E n \in T : \A m \in T : n <= m
<1> DEFINE R == {ss \in Nat \X Nat : ss[1] < ss[2]}
<1>1. IsWellFoundedOn(R, Nat)
  BY NatLessThanWellFounded DEF OpToRel
<1>2. PICK n \in T : \A m \in T : ~(<<m, n>> \in R)
  BY <1>1, WFMin
<1>3. ASSUME NEW m \in T PROVE n <= m
  <2>1. ~(m < n)
    BY <1>2
  <2> QED BY <2>1
<1> QED BY <1>3

\* The nonces that are left when the first is mined are finitely many naturals.
LEMMA LoweredFinite ==
    ASSUME NEW A \in SUBSET Nat, IsFiniteSet(A)
    PROVE  {n - 1 : n \in A \ {0}} \in SUBSET Nat /\ IsFiniteSet({n - 1 : n \in A \ {0}})
<1> DEFINE T == {n - 1 : n \in A \ {0}}
           f == [m \in T |-> m + 1]
<1>1. \A m \in T : m \in Nat /\ m + 1 \in A
  <2> SUFFICES ASSUME NEW n \in A, n # 0 PROVE n - 1 \in Nat /\ (n - 1) + 1 \in A
    OBVIOUS
  <2>1. n \in Nat /\ (n - 1) + 1 = n
    OBVIOUS
  <2> QED BY <2>1
<1> HIDE DEF T
<1>2. f \in [T -> A]
  BY <1>1
<1>3. ASSUME NEW m \in T, NEW k \in T, f[m] = f[k] PROVE m = k
  <2>1. m \in Nat /\ k \in Nat /\ m + 1 = k + 1
    BY <1>1, <1>3
  <2> QED BY <2>1
<1>4. f \in Injection(T, A)
  BY <1>2, <1>3 DEF Injection, IsInjective
<1>5. IsFiniteSet(T)
  BY <1>4, FS_Injection
<1> QED BY <1>1, <1>5 DEF T

\* The pending transaction count is the first nonce without a transaction: there is one
\* within the number of transactions, since so many cannot fill more places than that.
LEMMA PendingCountIs ==
    ASSUME NoncesTypeOK
    PROVE  PendingCount \in Nat /\ PendingCount \notin accepted
<1> DEFINE c == Cardinality(accepted)
<1>1. accepted \subseteq Nat /\ IsFiniteSet(accepted) /\ c \in Nat
  BY FS_CardinalityType DEF NoncesTypeOK
<1>2. ~(0..c \subseteq accepted)
  <2>1. IsFiniteSet(0..c) /\ Cardinality(0..c) = c + 1
    BY <1>1, FS_Interval
  <2> SUFFICES ASSUME 0..c \in SUBSET accepted PROVE FALSE
    OBVIOUS
  <2>2. Cardinality(0..c) <= c
    BY <1>1, FS_Subset
  <2> QED BY <1>1, <2>1, <2>2
<1>3. PICK n \in (0..c) \ accepted : \A m \in (0..c) \ accepted : n <= m
  <2>1. (0..c) \ accepted \in SUBSET Nat /\ (0..c) \ accepted # {}
    BY <1>1, <1>2
  <2> QED BY <2>1, Least
<1>4. 0..(n - 1) \subseteq accepted
  <2> SUFFICES ASSUME NEW m \in 0..(n - 1), m \notin accepted PROVE FALSE
    OBVIOUS
  <2>1. m \in (0..c) \ accepted /\ ~(n <= m)
    BY <1>1
  <2> QED BY <1>3, <2>1
<1> DEFINE Gap(k) == k \notin accepted /\ 0..(k - 1) \subseteq accepted
<1>5. n \in 0..c /\ Gap(n)
  BY <1>3, <1>4
<1>6. PendingCount = CHOOSE k \in 0..c : Gap(k)
  BY DEF PendingCount
<1> HIDE DEF Gap
<1>7. PendingCount \in 0..c /\ Gap(PendingCount)
  BY <1>5, <1>6
<1> QED BY <1>1, <1>7 DEF Gap

-----------------------------------------------------------------------------
(* Workers.                                                                *)

\* A worker is what its pc says.
LEMMA WorkIs ==
    ASSUME NoncesTypeOK, NEW w \in Workers
    PROVE  /\ work[w] \in WorkState
           /\ At(w, "idle") <=> work[w] = Idle
           /\ At(w, "preflight") => work[w].attempt = 1
           /\ At(w, "ask") \/ At(w, "seed") =>
                 /\ work[w] = Asks(work[w].pc, work[w].attempt) /\ work[w].attempt \in {1, 2}
           /\ At(w, "send") =>
                 work[w] \in Sending /\ work[w].n \in Int /\ work[w].attempt \in {1, 2}
BY DEF NoncesTypeOK, WorkState, At, Idle, Asks, Asking, Sending

\* A worker that goes on leaves the others where they are.
LEMMA WorkMoves ==
    ASSUME NoncesTypeOK, NEW w \in Workers, NEW x \in WorkState, Moves(w, x)
    PROVE  /\ work' \in [Workers -> WorkState] /\ work'[w] = x
           /\ \A v \in Workers : v # w => work'[v] = work[v]
BY DEF NoncesTypeOK, WorkState, Moves

\* What a request does between two steps is one of these.
LEMMA States ==
    /\ Idle \in WorkState /\ Idle.pc = "idle"
    /\ Asks("preflight", 1) \in WorkState /\ Asks("preflight", 1).pc = "preflight"
    /\ \A pc \in {"ask", "seed"}, k \in {1, 2} :
          /\ Asks(pc, k) \in WorkState /\ Asks(pc, k).pc = pc /\ Asks(pc, k) # Idle
          /\ Asks(pc, k).attempt = k
    /\ \A n \in Int, k \in {1, 2} :
          /\ Sends(n, k) \in WorkState /\ Sends(n, k).pc = "send" /\ Sends(n, k).n = n
          /\ Sends(n, k) # Idle /\ Sends(n, k).attempt = k
BY DEF WorkState, Idle, Asking, Sending, Asks, Sends

\* The counts of the failures stay in their bounds.
LEMMA FailureCounted ==
    ASSUME NoncesTypeOK, \/ Succeeds
                   \/ \E f \in {"seed", "estimate", "retry", "lost", "known", "restart"} : Fails(f)
    PROVE  failures' \in 0..MaxFailures
BY NoncesAssumption DEF NoncesTypeOK, Succeeds, Fails

\* The number handed back stays a number.
LEMMA DecrementIs ==
    ASSUME NoncesTypeOK
    PROVE  decrement \in Int \cup {None}
BY NoncesAssumption DEF NoncesTypeOK, decrement

-----------------------------------------------------------------------------
(* Every step keeps the invariant.                                         *)

\* A step of one worker that sends nothing, begins a new call, sends and ends, or sends
\* and tries again what was "known".
LEMMA SentKeeps ==
    ASSUME NoncesTypeOK, SentInv, NEW w \in Workers, NEW x \in WorkState, Moves(w, x),
           \/ /\ UNCHANGED <<sent, known>>
              /\ (x = Idle \/ (work[w] # Idle /\ x.attempt \in {work[w].attempt, 2}))
           \/ (sent' = [sent EXCEPT ![w] = 0] /\ known' = known \ {w})
           \/ /\ sent' = [sent EXCEPT ![w] = @ + 1] /\ work[w] # Idle
              /\ known' \in {known, known \cup {w}}
              /\ \/ x = Idle
                 \/ (x.attempt = 2 /\ work[w].attempt = 1 /\ w \in known')
    PROVE  SentInv' /\ sent' \in [Workers -> 0..2] /\ known' \subseteq Workers
<1>1. /\ work'[w] = x /\ \A v \in Workers : v # w => work'[v] = work[v]
  BY WorkMoves
<1>2. sent \in [Workers -> 0..2] /\ known \subseteq Workers
  BY DEF NoncesTypeOK
<1>3. CASE /\ UNCHANGED <<sent, known>>
           /\ (x = Idle \/ (work[w] # Idle /\ x.attempt \in {work[w].attempt, 2}))
  BY <1>1, <1>2, <1>3 DEF SentInv
<1>4. CASE sent' = [sent EXCEPT ![w] = 0] /\ known' = known \ {w}
  BY <1>1, <1>2, <1>4 DEF SentInv
<1>5. CASE /\ sent' = [sent EXCEPT ![w] = @ + 1] /\ work[w] # Idle
           /\ known' \in {known, known \cup {w}}
           /\ \/ x = Idle
              \/ (x.attempt = 2 /\ work[w].attempt = 1 /\ w \in known')
  BY <1>1, <1>2, <1>5 DEF SentInv
<1> QED BY <1>3, <1>4, <1>5

\* A worker that is neither in the lock nor gets a number.
LEMMA LockSame ==
    ASSUME NoncesTypeOK, LockInv, NEW w \in Workers, NEW x \in WorkState, Moves(w, x),
           ~At(w, "seed"), x.pc \notin {"seed", "send"},
           UNCHANGED <<manager, nonce, lock, accepted, failed>>
    PROVE  LockInv'
<1>1. work'[w] = x /\ \A v \in Workers : v # w => work'[v] = work[v]
  BY WorkMoves
<1>2. /\ \A v \in Workers : At(v, "send")' => At(v, "send") /\ work'[v] = work[v]
      /\ \A v \in Workers : At(v, "seed")' <=> At(v, "seed")
  BY <1>1 DEF At
<1> QED BY <1>2 DEF LockInv

\* A request begins: at the relay it may read the bet's record first.
LEMMA RequestKeeps ==
    ASSUME NoncesInv, NEW w \in Workers, relayRequest(w) \/ relaySettlement(w)
    PROVE  NoncesInv'
<1>0. NoncesTypeOK /\ SentInv /\ LockInv
  BY DEF NoncesInv
<1>1. PICK x \in WorkState : Moves(w, x) /\ x.pc \in {"preflight", "ask"}
  BY States DEF relayRequest, relaySettlement, relayCall
<1>2. /\ UNCHANGED <<manager, nonce, lock, accepted, failures, failed>>
      /\ sent' = [sent EXCEPT ![w] = 0] /\ known' = known \ {w} /\ ~At(w, "seed")
  BY DEF relayRequest, relaySettlement, At
<1>3. SentInv' /\ sent' \in [Workers -> 0..2] /\ known' \subseteq Workers
  BY <1>0, <1>1, <1>2, SentKeeps
<1>4. LockInv'
  BY <1>0, <1>1, <1>2, LockSame
<1>5. NoncesTypeOK'
  BY <1>0, <1>1, <1>2, <1>3, WorkMoves DEF NoncesTypeOK, WorkState
<1> QED BY <1>3, <1>4, <1>5 DEF NoncesInv

\* The record answers the request, or lets it pass.
LEMMA CheckKeeps ==
    ASSUME NoncesInv, NEW w \in Workers, checkBetFilled(w)
    PROVE  NoncesInv'
<1>0. NoncesTypeOK /\ SentInv /\ LockInv
  BY DEF NoncesInv
<1>1. UNCHANGED <<manager, nonce, lock, accepted, failures, sent, known, failed>>
  BY DEF checkBetFilled
<1>2. ~At(w, "seed") /\ work[w] # Idle /\ work[w].attempt = 1
  BY <1>0, WorkIs, States DEF checkBetFilled, At
<1>3. PICK x \in WorkState : /\ Moves(w, x) /\ x.pc \in {"idle", "ask"}
                             /\ x = Idle \/ x.attempt = 1
  BY States DEF checkBetFilled, relayCall
<1>4. SentInv' /\ sent' \in [Workers -> 0..2] /\ known' \subseteq Workers
  BY <1>0, <1>1, <1>2, <1>3, SentKeeps
<1>5. LockInv'
  BY <1>0, <1>1, <1>2, <1>3, LockSame
<1>6. NoncesTypeOK'
  <2>1. work' \in [Workers -> WorkState]
    BY <1>0, <1>3, WorkMoves
  <2> QED BY <1>0, <1>1, <1>4, <2>1 DEF NoncesTypeOK, WorkState
<1> QED BY <1>4, <1>5, <1>6 DEF NoncesInv

\* A number is taken, or the worker goes to ask the node for one and, at the relay,
\* enters the lock.
LEMMA TakeNumberKeeps ==
    ASSUME NoncesInv, NEW w \in Workers, takeNumber(w)
    PROVE  NoncesInv'
<1>0. NoncesTypeOK /\ SentInv /\ LockInv
  BY DEF NoncesInv
<1>1. /\ UNCHANGED <<manager, accepted, failures, sent, known, failed>>
      /\ At(w, "ask") /\ work[w] = Asks("ask", work[w].attempt)
      /\ work[w].attempt \in {1, 2} /\ work[w] # Idle
      /\ manager = "relay" => lock = None
  BY <1>0, WorkIs, States DEF takeNumber, At
<1>2. CASE nonce # None /\ Moves(w, Sends(nonce, work[w].attempt)) /\ nonce' = nonce + 1
           /\ UNCHANGED lock
  <2>1. nonce \in Int /\ None \notin Int
    BY <1>0, <1>2, NoncesAssumption DEF NoncesTypeOK
  <2>2. PICK x \in WorkState : /\ Moves(w, x) /\ x.pc = "send" /\ x.n = nonce
                               /\ x # Idle /\ x.attempt = work[w].attempt
    BY <1>1, <1>2, <2>1, States
  <2>3. /\ work' \in [Workers -> WorkState] /\ work'[w] = x
        /\ \A v \in Workers : v # w => work'[v] = work[v]
    BY <1>0, <2>2, WorkMoves
  <2>4. SentInv' /\ sent' \in [Workers -> 0..2] /\ known' \subseteq Workers
    BY <1>0, <1>1, <2>2, SentKeeps
  <2>5. LockInv'
    <3> SUFFICES ASSUME manager = "relay", ~failed PROVE LockInv'
      BY <1>1 DEF LockInv
    <3>1. /\ \A v \in Workers : At(v, "seed") <=> lock = v
          /\ nonce >= 0 /\ \A n \in accepted : n < nonce
          /\ \A v \in Workers : At(v, "send") =>
                0 <= work[v].n /\ work[v].n < nonce /\ work[v].n \notin accepted
          /\ \A u, v \in Workers : u # v /\ At(u, "send") /\ At(v, "send")
                => work[u].n # work[v].n
      BY <1>0, <1>2 DEF LockInv
    <3>2. accepted \subseteq Nat /\ \A v \in Workers : At(v, "send") => work[v].n \in Int
      BY <1>0, WorkIs DEF NoncesTypeOK
    <3>3. lock = None /\ nonce' = nonce + 1 /\ nonce' # None /\ None \notin Workers
      BY <1>1, <1>2, <2>1, NoncesAssumption
    <3>4. \A v \in Workers : At(v, "send")' =>
             (v = w /\ work'[v].n = nonce) \/ (v # w /\ At(v, "send") /\ work'[v] = work[v])
      BY <2>2, <2>3 DEF At
    <3>5. \A v \in Workers : ~At(v, "seed")'
      BY <2>2, <2>3, <3>1, <3>3 DEF At
    <3>6. \A n \in accepted : n < nonce'
      <4> SUFFICES ASSUME NEW n \in accepted PROVE n < nonce + 1
        BY <3>3
      <4>1. n < nonce /\ n \in Nat
        BY <3>1, <3>2
      <4> QED BY <2>1, <4>1
    <3>7. ASSUME NEW v \in Workers, At(v, "send")'
          PROVE  0 <= work'[v].n /\ work'[v].n < nonce' /\ work'[v].n \notin accepted
      <4>1. CASE v = w /\ work'[v].n = nonce
        BY <2>1, <3>1, <3>3, <4>1
      <4>2. CASE v # w /\ At(v, "send") /\ work'[v] = work[v]
        BY <2>1, <3>1, <3>2, <3>3, <4>2
      <4> QED BY <3>4, <3>7, <4>1, <4>2
    <3>8. ASSUME NEW u \in Workers, NEW v \in Workers, u # v, At(u, "send")', At(v, "send")'
          PROVE  work'[u].n # work'[v].n
      <4>1. CASE u # w /\ v # w
        BY <3>1, <3>4, <3>8, <4>1
      <4>2. CASE u = w \/ v = w
        BY <2>1, <3>1, <3>2, <3>4, <3>8, <4>2
      <4> QED BY <4>1, <4>2
    <3> QED BY <1>1, <1>2, <2>1, <3>1, <3>3, <3>5, <3>6, <3>7, <3>8 DEF LockInv
  <2>6. NoncesTypeOK'
    <3>1. nonce' \in Int
      BY <1>2, <2>1
    <3> QED BY <1>0, <1>1, <1>2, <2>3, <2>4, <3>1 DEF NoncesTypeOK, WorkState
  <2> QED BY <2>4, <2>5, <2>6 DEF NoncesInv
<1>3. CASE /\ nonce = None /\ Moves(w, [work[w] EXCEPT !.pc = "seed"]) /\ UNCHANGED nonce
           /\ lock' = IF manager = "relay" THEN w ELSE lock
  <2>1. PICK x \in WorkState : Moves(w, x) /\ x.pc = "seed" /\ x.attempt = work[w].attempt
    <3>1. [work[w] EXCEPT !.pc = "seed"] = Asks("seed", work[w].attempt)
      BY <1>1 DEF Asks
    <3> QED BY <1>1, <1>3, <3>1, States
  <2>2. /\ work' \in [Workers -> WorkState] /\ work'[w] = x
        /\ \A v \in Workers : v # w => work'[v] = work[v]
    BY <1>0, <2>1, WorkMoves
  <2>3. SentInv' /\ sent' \in [Workers -> 0..2] /\ known' \subseteq Workers
    BY <1>0, <1>1, <2>1, SentKeeps
  <2>4. LockInv'
    <3> SUFFICES ASSUME manager = "relay", ~failed PROVE LockInv'
      BY <1>1 DEF LockInv
    <3>1. /\ lock = None /\ lock' = w /\ None \notin Workers
          /\ \A v \in Workers : At(v, "seed") <=> lock = v
          /\ accepted = {} /\ \A v \in Workers : ~At(v, "send")
      BY <1>0, <1>1, <1>3, NoncesAssumption DEF LockInv
    <3>2. \A v \in Workers : ~At(v, "send")' /\ (At(v, "seed")' <=> v = w)
      BY <2>1, <2>2, <3>1 DEF At
    <3> QED BY <1>1, <1>3, <3>1, <3>2 DEF LockInv
  <2>5. NoncesTypeOK'
    BY <1>0, <1>1, <1>3, <2>2, <2>3 DEF NoncesTypeOK, WorkState
  <2> QED BY <2>3, <2>4, <2>5 DEF NoncesInv
<1> QED BY <1>2, <1>3 DEF takeNumber

\* The node's count seeds the manager: at the relay's first call that count is zero, and
\* the worker leaves the lock with it.
LEMMA SeedKeeps ==
    ASSUME NoncesInv, NEW w \in Workers, seedNumber(w)
    PROVE  NoncesInv'
<1>0. NoncesTypeOK /\ SentInv /\ LockInv
  BY DEF NoncesInv
<1>1. /\ UNCHANGED <<manager, accepted, failures, sent, known, failed>>
      /\ At(w, "seed") /\ work[w].attempt \in {1, 2} /\ work[w] # Idle
      /\ lock' = IF lock = w THEN None ELSE lock
  BY <1>0, WorkIs, States DEF seedNumber, At, Succeeds
<1>2. PICK n \in Nat : /\ n = PendingCount /\ n \notin accepted
                       /\ Moves(w, Sends(n, work[w].attempt)) /\ nonce' = n + 1
  BY <1>0, PendingCountIs DEF seedNumber
<1>3. PICK x \in WorkState : /\ Moves(w, x) /\ x.pc = "send" /\ x.n = n
                             /\ x.attempt = work[w].attempt
  BY <1>1, <1>2, States
<1>4. /\ work' \in [Workers -> WorkState] /\ work'[w] = x
      /\ \A v \in Workers : v # w => work'[v] = work[v]
  BY <1>0, <1>3, WorkMoves
<1>5. SentInv' /\ sent' \in [Workers -> 0..2] /\ known' \subseteq Workers
  BY <1>0, <1>1, <1>3, SentKeeps
<1>6. nonce' \in Int /\ nonce' # None /\ None \notin Workers
  BY <1>2, NoncesAssumption
<1>7. LockInv'
  <2> SUFFICES ASSUME manager = "relay", ~failed PROVE LockInv'
    BY <1>1 DEF LockInv
  <2>1. /\ lock = w /\ nonce = None /\ accepted = {}
        /\ \A v \in Workers : ~At(v, "send") /\ (At(v, "seed") <=> v = w)
    BY <1>0, <1>1, <1>6 DEF LockInv
  <2>2. \A v \in Workers : ~At(v, "seed")' /\ (At(v, "send")' => v = w)
    BY <1>3, <1>4, <2>1 DEF At
  <2>3. work'[w].n = n /\ 0 <= n /\ n < nonce' /\ nonce' >= 0 /\ lock' = None
    BY <1>1, <1>2, <1>3, <1>4, <2>1
  <2> QED BY <1>1, <1>6, <2>1, <2>2, <2>3 DEF LockInv
<1>8. NoncesTypeOK'
  BY <1>0, <1>1, <1>4, <1>5, <1>6 DEF NoncesTypeOK, WorkState
<1> QED BY <1>5, <1>7, <1>8 DEF NoncesInv

\* An attempt that fails and ends its call, or is made once more: the relay's numbers are
\* no longer handed out in order.
LEMMA FailureKeeps ==
    ASSUME NoncesInv, NEW w \in Workers, failed' = TRUE,
           NEW x \in WorkState, Moves(w, x), work[w] # Idle,
           nonce' \in Int \cup {None}, lock' \in Workers \cup {None},
           accepted' \subseteq Nat, IsFiniteSet(accepted)',
           failures' \in 0..MaxFailures, UNCHANGED manager,
           \/ (UNCHANGED <<sent, known>> /\ (x = Idle \/ x.attempt = 2))
           \/ /\ sent' = [sent EXCEPT ![w] = @ + 1]
              /\ known' \in {known, known \cup {w}}
              /\ (x = Idle \/ (x.attempt = 2 /\ work[w].attempt = 1 /\ w \in known'))
    PROVE  NoncesInv'
<1>0. NoncesTypeOK /\ SentInv
  BY DEF NoncesInv
<1>1. SentInv' /\ sent' \in [Workers -> 0..2] /\ known' \subseteq Workers
  <2>1. CASE UNCHANGED <<sent, known>> /\ (x = Idle \/ x.attempt = 2)
    BY <1>0, <2>1, SentKeeps
  <2>2. CASE /\ sent' = [sent EXCEPT ![w] = @ + 1]
             /\ known' \in {known, known \cup {w}}
             /\ (x = Idle \/ (x.attempt = 2 /\ work[w].attempt = 1 /\ w \in known'))
    BY <1>0, <2>2, SentKeeps
  <2> QED BY <2>1, <2>2
<1>2. work' \in [Workers -> WorkState]
  BY <1>0, WorkMoves
<1>3. LockInv'
  BY DEF LockInv
<1>4. NoncesTypeOK'
  BY <1>0, <1>1, <1>2 DEF NoncesTypeOK, WorkState
<1> QED BY <1>1, <1>3, <1>4 DEF NoncesInv

\* An error hands a number back, or has the call made once more without one.
LEMMA ErrorIs ==
    ASSUME NoncesTypeOK, NEW w \in Workers, At(w, "send"), OtherError(w) \/ NonceError(w)
    PROVE  /\ failed' = TRUE /\ nonce' \in Int \cup {None} /\ work[w] # Idle
           /\ \E x \in WorkState :
                 Moves(w, x) /\ (x = Idle \/ (NonceError(w) /\ x.attempt = 2 /\ work[w].attempt = 1))
<1>1. work[w] # Idle /\ work[w].attempt \in {1, 2}
  BY WorkIs DEF At, Idle
<1>2. CASE OtherError(w)
  <2>1. failed' = TRUE /\ Moves(w, Idle) /\ nonce' \in {decrement, nonce}
    BY <1>2 DEF OtherError, Throws
  <2> QED BY <1>1, <2>1, States, DecrementIs DEF NoncesTypeOK
<1>3. CASE NonceError(w)
  <2>1. failed' = TRUE /\ nonce' \in {None, nonce}
    BY <1>3 DEF NonceError
  <2>2. CASE work[w].attempt = 1
    <3>1. Moves(w, Asks("ask", 2))
      BY <1>3, <2>2 DEF NonceError
    <3> QED BY <1>1, <1>3, <2>1, <2>2, <3>1, States DEF NoncesTypeOK
  <2>3. CASE work[w].attempt = 2
    <3>1. Moves(w, Idle)
      BY <1>3, <2>3 DEF NonceError
    <3> QED BY <1>1, <2>1, <3>1, States DEF NoncesTypeOK
  <2> QED BY <1>1, <2>2, <2>3
<1> QED BY <1>2, <1>3

\* A count that cannot be read ends the call, and leaves the lock.
LEMMA SeedThrowsKeeps ==
    ASSUME NoncesInv, NEW w \in Workers, seedThrows(w)
    PROVE  NoncesInv'
<1>1. NoncesTypeOK
  BY DEF NoncesInv
<1>2. /\ UNCHANGED <<manager, nonce, accepted, sent, known>> /\ Fails("seed")
      /\ Moves(w, Idle) /\ failed' = TRUE /\ lock' \in {lock, None} /\ Idle \in WorkState
  BY States DEF seedThrows, Throws
<1>3. work[w] # Idle
  BY <1>1, WorkIs DEF seedThrows, At, Idle
<1>4. failures' \in 0..MaxFailures
  BY <1>1, <1>2, FailureCounted
<1> QED BY <1>1, <1>2, <1>3, <1>4, FailureKeeps DEF NoncesTypeOK

\* An attempt that fails before the broadcast gives its number back, the second does not.
LEMMA EstimateKeeps ==
    ASSUME NoncesInv, NEW w \in Workers, estimateReverts(w)
    PROVE  NoncesInv'
<1>1. NoncesTypeOK
  BY DEF NoncesInv
<1>2. /\ UNCHANGED <<manager, lock, accepted, sent, known>> /\ OtherError(w)
      /\ At(w, "send") /\ (Fails("estimate") \/ Fails("retry"))
      /\ Moves(w, Idle) /\ Idle \in WorkState
  BY States DEF estimateReverts, OtherError, Throws
<1>3. failed' = TRUE /\ nonce' \in Int \cup {None} /\ work[w] # Idle
  BY <1>1, <1>2, ErrorIs
<1>4. failures' \in 0..MaxFailures
  BY <1>1, <1>2, FailureCounted
<1> QED BY <1>1, <1>2, <1>3, <1>4, FailureKeeps DEF NoncesTypeOK

\* The node accepts a number that is free; the answer comes, is lost, or says that the
\* transaction is known.
LEMMA BroadcastKeeps ==
    ASSUME NoncesInv, NEW w \in Workers, broadcast(w)
    PROVE  NoncesInv'
<1>0. NoncesTypeOK /\ SentInv /\ LockInv
  BY DEF NoncesInv
<1>1. /\ UNCHANGED <<manager, lock>> /\ accepted' = accepted \cup {work[w].n}
      /\ sent' = [sent EXCEPT ![w] = @ + 1]
      /\ At(w, "send") /\ Free(work[w].n)
  BY DEF broadcast
<1>2. work[w] # Idle /\ work[w].n \in Nat /\ Idle \in WorkState /\ Idle.pc = "idle"
  BY <1>0, <1>1, WorkIs, States DEF At, Free
<1>3. accepted' \subseteq Nat /\ IsFiniteSet(accepted')
  BY <1>0, <1>1, <1>2, FS_AddElement DEF NoncesTypeOK
<1>4. CASE Succeeds /\ Moves(w, Idle) /\ UNCHANGED <<nonce, known, failed>>
  <2>1. SentInv' /\ sent' \in [Workers -> 0..2] /\ known' \subseteq Workers
    BY <1>0, <1>1, <1>2, <1>4, SentKeeps
  <2>2. /\ work' \in [Workers -> WorkState] /\ work'[w] = Idle
        /\ \A v \in Workers : v # w => work'[v] = work[v]
    BY <1>0, <1>2, <1>4, WorkMoves
  <2>3. LockInv'
    <3>1. \A v \in Workers : /\ At(v, "send")' => v # w /\ At(v, "send") /\ work'[v] = work[v]
                             /\ At(v, "seed")' <=> At(v, "seed")
      BY <1>1, <1>2, <2>2 DEF At
    <3> SUFFICES ASSUME manager = "relay", ~failed PROVE LockInv'
      BY <1>1, <1>4 DEF LockInv
    <3>2. nonce # None /\ lock = None /\ work[w].n < nonce /\ nonce >= 0
      BY <1>0, <1>1 DEF LockInv
    <3>3. \A n \in accepted' : n < nonce
      BY <1>0, <1>1, <3>2 DEF LockInv
    <3>4. \A v \in Workers : At(v, "send")' =>
             0 <= work[v].n /\ work[v].n < nonce /\ work[v].n \notin accepted'
      BY <1>0, <1>1, <3>1 DEF LockInv
    <3>5. \A u, v \in Workers : u # v /\ At(u, "send")' /\ At(v, "send")'
             => work'[u].n # work'[v].n
      BY <1>0, <3>1 DEF LockInv
    <3>6. \A v \in Workers : At(v, "seed")' <=> lock = v
      BY <1>0, <3>1 DEF LockInv
    <3> QED BY <1>1, <1>4, <3>1, <3>2, <3>3, <3>4, <3>5, <3>6 DEF LockInv
  <2>4. NoncesTypeOK'
    BY <1>0, <1>1, <1>3, <1>4, <2>1, <2>2 DEF NoncesTypeOK, WorkState, Succeeds
  <2> QED BY <2>1, <2>3, <2>4 DEF NoncesInv
<1>5. CASE Fails("lost") /\ OtherError(w) /\ UNCHANGED known
  <2>1. failures' \in 0..MaxFailures
    BY <1>0, <1>5, FailureCounted
  <2>2. failed' = TRUE /\ nonce' \in Int \cup {None} /\ Moves(w, Idle)
    BY <1>0, <1>1, <1>5, ErrorIs DEF OtherError, Throws
  <2>3. lock' \in Workers \cup {None}
    BY <1>0, <1>1 DEF NoncesTypeOK
  <2> QED BY <1>0, <1>1, <1>2, <1>3, <1>5, <2>1, <2>2, <2>3, FailureKeeps
        DEF NoncesInv
<1>6. CASE Fails("known") /\ NonceError(w) /\ known' = known \cup {w}
  <2>1. failures' \in 0..MaxFailures
    BY <1>0, <1>6, FailureCounted
  <2>2. failed' = TRUE /\ nonce' \in Int \cup {None}
    BY <1>0, <1>1, <1>6, ErrorIs
  <2>3. PICK x \in WorkState : Moves(w, x) /\ (x = Idle \/ (x.attempt = 2 /\ work[w].attempt = 1))
    BY <1>0, <1>1, <1>6, ErrorIs
  <2>4. lock' \in Workers \cup {None} /\ w \in known'
    BY <1>0, <1>1, <1>6 DEF NoncesTypeOK
  <2> QED BY <1>0, <1>1, <1>2, <1>3, <1>6, <2>1, <2>2, <2>3, <2>4, FailureKeeps
        DEF NoncesInv
<1> QED BY <1>4, <1>5, <1>6 DEF broadcast

\* A number below the account's is refused, which the relay's first calls never see: the
\* manager forgets it and the call asks again, once.
LEMMA UsedKeeps ==
    ASSUME NoncesInv, NEW w \in Workers, usedRefused(w)
    PROVE  NoncesInv'
<1>0. NoncesTypeOK
  BY DEF NoncesInv
<1>1. /\ UNCHANGED <<manager, lock, accepted, failures, sent, known>>
      /\ At(w, "send") /\ NonceError(w)
  BY DEF usedRefused
<1>2. failed' = TRUE /\ nonce' \in Int \cup {None} /\ work[w] # Idle
  BY <1>0, <1>1, ErrorIs
<1>3. PICK x \in WorkState : Moves(w, x) /\ (x = Idle \/ x.attempt = 2)
  BY <1>0, <1>1, ErrorIs
<1>4. /\ failures' \in 0..MaxFailures /\ lock' \in Workers \cup {None}
      /\ accepted' \subseteq Nat /\ IsFiniteSet(accepted)'
  BY <1>0, <1>1 DEF NoncesTypeOK
<1> QED BY <1>1, <1>2, <1>3, <1>4, FailureKeeps

\* A number of a pending transaction, which the relay's first calls never see either: the
\* call ends, or asks again, or replaces that transaction.
LEMMA TakenKeeps ==
    ASSUME NoncesInv, NEW w \in Workers, takenRefused(w)
    PROVE  NoncesInv'
<1>0. NoncesTypeOK /\ SentInv /\ LockInv
  BY DEF NoncesInv
<1>1. /\ UNCHANGED <<manager, lock, accepted, failures, known>>
      /\ At(w, "send") /\ work[w].n \in accepted
  BY DEF takenRefused
<1>2. work[w] # Idle
  BY <1>0, <1>1, WorkIs, States DEF At
<1>3. /\ failures' \in 0..MaxFailures /\ lock' \in Workers \cup {None}
      /\ accepted' \subseteq Nat /\ IsFiniteSet(accepted)'
  BY <1>0, <1>1 DEF NoncesTypeOK
<1>4. CASE UNCHANGED sent /\ (OtherError(w) \/ NonceError(w))
  <2>1. failed' = TRUE /\ nonce' \in Int \cup {None}
    BY <1>0, <1>1, <1>4, ErrorIs
  <2>2. PICK x \in WorkState : Moves(w, x) /\ (x = Idle \/ x.attempt = 2)
    BY <1>0, <1>1, <1>4, ErrorIs
  <2> QED BY <1>1, <1>2, <1>3, <1>4, <2>1, <2>2, FailureKeeps
<1>5. CASE /\ Moves(w, Idle) /\ sent' = [sent EXCEPT ![w] = @ + 1]
           /\ UNCHANGED <<nonce, failed>>
  <2>1. ~(manager = "relay" /\ ~failed)
    BY <1>0, <1>1 DEF LockInv
  <2>2. Idle \in WorkState
    BY States
  <2>3. SentInv' /\ sent' \in [Workers -> 0..2] /\ known' \subseteq Workers
    BY <1>0, <1>1, <1>2, <1>5, <2>2, SentKeeps
  <2>4. work' \in [Workers -> WorkState]
    BY <1>0, <1>5, <2>2, WorkMoves
  <2>5. LockInv'
    BY <1>1, <1>5, <2>1 DEF LockInv
  <2>6. NoncesTypeOK'
    BY <1>0, <1>1, <1>3, <1>5, <2>3, <2>4 DEF NoncesTypeOK, WorkState
  <2> QED BY <2>3, <2>5, <2>6 DEF NoncesInv
<1> QED BY <1>4, <1>5 DEF takenRefused

\* The next transaction is mined, and every number is one nearer.
LEMMA MineKeeps ==
    ASSUME NoncesInv, Mines
    PROVE  NoncesInv'
<1>0. NoncesTypeOK /\ SentInv /\ LockInv
  BY DEF NoncesInv
<1>1. /\ UNCHANGED <<manager, lock, failures, sent, known, failed>> /\ 0 \in accepted
      /\ accepted' = {n - 1 : n \in accepted \ {0}}
      /\ nonce' = IF nonce = None THEN None ELSE nonce - 1
      /\ work' = [w \in Workers |->
                    IF At(w, "send") THEN [work[w] EXCEPT !.n = Nearer(@)] ELSE work[w]]
  BY DEF Mines
<1>2. accepted \subseteq Nat /\ IsFiniteSet(accepted) /\ work \in [Workers -> WorkState]
  BY <1>0 DEF NoncesTypeOK, WorkState
<1>3. accepted' \subseteq Nat /\ IsFiniteSet(accepted')
  BY <1>1, <1>2, LoweredFinite
<1>4. ASSUME NEW w \in Workers
      PROVE  /\ work'[w] \in WorkState
             /\ At(w, "send") => work'[w].n = Nearer(work[w].n) /\ At(w, "send")'
             /\ ~At(w, "send") => work'[w] = work[w]
             /\ work'[w] # Idle <=> work[w] # Idle
             /\ work[w] # Idle => work'[w].attempt = work[w].attempt
             /\ \A pc \in {"seed", "send"} : At(w, pc)' <=> At(w, pc)
  <2>1. CASE ~At(w, "send")
    BY <1>1, <1>2, <2>1 DEF At
  <2>2. CASE At(w, "send")
    <3>1. work[w] \in Sending /\ work[w].n \in Int
      BY <1>0, <2>2, WorkIs
    <3>2. Nearer(work[w].n) \in Int
      BY <3>1 DEF Nearer
    <3>3. PICK x \in Sending : x = [work[w] EXCEPT !.n = Nearer(work[w].n)]
      BY <3>1, <3>2 DEF Sending
    <3>4. /\ work'[w] = x /\ x.n = Nearer(work[w].n) /\ x.pc = "send"
          /\ x.attempt = work[w].attempt
      BY <1>1, <2>2, <3>1, <3>3 DEF Sending
    <3> QED BY <2>2, <3>3, <3>4 DEF WorkState, At, Idle
  <2> QED BY <2>1, <2>2
<1>5. SentInv'
  BY <1>0, <1>1, <1>4 DEF SentInv
<1>6. LockInv'
  <2> SUFFICES ASSUME manager = "relay", ~failed PROVE LockInv'
    BY <1>1 DEF LockInv
  <2>1. nonce # None /\ nonce \in Int /\ nonce > 0 /\ lock = None
    BY <1>0, <1>1, NoncesAssumption DEF LockInv, NoncesTypeOK
  <2>2. nonce' = nonce - 1 /\ nonce' >= 0 /\ nonce' # None /\ nonce' \in Int
    BY <1>1, <2>1, NoncesAssumption
  <2>3. \A n \in accepted' : n < nonce'
    <3> SUFFICES ASSUME NEW n \in accepted, n # 0 PROVE n - 1 < nonce'
      BY <1>1
    <3>1. n < nonce /\ n \in Nat
      BY <1>0, <1>2, <2>1 DEF LockInv
    <3> QED BY <2>1, <2>2, <3>1
  <2>4. ASSUME NEW w \in Workers, At(w, "send")'
        PROVE  /\ At(w, "send") /\ work[w].n \in Int /\ work'[w].n = work[w].n - 1
               /\ 0 <= work'[w].n /\ work'[w].n < nonce' /\ work'[w].n \notin accepted'
    <3>1. At(w, "send") /\ work'[w].n = Nearer(work[w].n)
      BY <1>4, <2>4
    <3>2. /\ work[w].n \in Int /\ 0 <= work[w].n /\ work[w].n < nonce
          /\ work[w].n \notin accepted
      BY <1>0, <3>1, WorkIs DEF LockInv
    <3>3. work'[w].n = work[w].n - 1 /\ work[w].n # 0
      BY <1>1, <3>1, <3>2 DEF Nearer
    <3>4. work[w].n - 1 \notin accepted'
      <4> SUFFICES ASSUME NEW n \in accepted, n - 1 = work[w].n - 1 PROVE FALSE
        BY <1>1
      <4>1. n \in Nat
        BY <1>2
      <4>2. n = work[w].n
        BY <3>2, <4>1
      <4> QED BY <3>2, <4>2
    <3> QED BY <2>1, <2>2, <3>1, <3>2, <3>3, <3>4
  <2>5. \A v, w \in Workers : v # w /\ At(v, "send")' /\ At(w, "send")'
           => work'[v].n # work'[w].n
    <3> SUFFICES ASSUME NEW v \in Workers, NEW w \in Workers, v # w,
                        At(v, "send")', At(w, "send")', work'[v].n = work'[w].n
                 PROVE  FALSE
      OBVIOUS
    <3>1. /\ At(v, "send") /\ work[v].n \in Int /\ work'[v].n = work[v].n - 1
          /\ At(w, "send") /\ work[w].n \in Int /\ work'[w].n = work[w].n - 1
      BY <2>4
    <3>2. work[v].n # work[w].n
      BY <1>0, <3>1 DEF LockInv
    <3>3. PICK a \in Int, b \in Int : a = work[v].n /\ b = work[w].n /\ a - 1 = b - 1
      BY <3>1
    <3> QED BY <3>2, <3>3
  <2>6. \A w \in Workers : At(w, "seed")' <=> lock = w
    BY <1>0, <1>4 DEF LockInv
  <2> QED BY <1>1, <2>1, <2>2, <2>3, <2>4, <2>5, <2>6 DEF LockInv
<1>7. NoncesTypeOK'
  <2>1. work' \in [Workers -> WorkState]
    BY <1>1, <1>4
  <2>2. nonce' \in Int \cup {None}
    BY <1>0, <1>1 DEF NoncesTypeOK
  <2> QED BY <1>0, <1>1, <1>3, <2>1, <2>2 DEF NoncesTypeOK, WorkState
<1> QED BY <1>5, <1>6, <1>7 DEF NoncesInv

\* A restart forgets the number and the callers, not what they had sent.
LEMMA RestartsKeep ==
    ASSUME NoncesInv, Restarts
    PROVE  NoncesInv'
<1>0. NoncesTypeOK /\ SentInv
  BY DEF NoncesInv
<1>1. /\ UNCHANGED <<manager, accepted, sent, known>> /\ Fails("restart") /\ nonce' = None
      /\ lock' = None /\ work' = [w \in Workers |-> Idle] /\ failed' = TRUE
  BY DEF Restarts
<1>2. failures' \in 0..MaxFailures
  BY <1>0, <1>1, FailureCounted
<1>3. SentInv'
  BY <1>0, <1>1 DEF SentInv
<1>4. LockInv'
  BY <1>1 DEF LockInv
<1>5. NoncesTypeOK'
  BY <1>0, <1>1, <1>2 DEF NoncesTypeOK
<1> QED BY <1>3, <1>4, <1>5 DEF NoncesInv

-----------------------------------------------------------------------------
(* The theorems.                                                           *)

\* No number is held and nothing was sent at the start.
LEMMA NoncesInitInv == NoncesInit => NoncesInv
<1> SUFFICES ASSUME NoncesInit PROVE NoncesInv
  OBVIOUS
<1>1. NoncesTypeOK
  <2>1. IsFiniteSet({}) /\ 0 \in 0..MaxFailures
    BY NoncesAssumption, FS_EmptySet
  <2>2. /\ manager \in {"relay", "signing"} /\ nonce = None /\ lock = None
        /\ work = [w \in Workers |-> Idle] /\ accepted = {} /\ failures = 0
        /\ sent = [w \in Workers |-> 0] /\ known = {} /\ failed = FALSE
    BY DEF NoncesInit
  <2>3. sent \in [Workers -> 0..2]
    BY <2>2
  <2> QED BY <2>1, <2>2, <2>3 DEF NoncesTypeOK
<1>2. SentInv
  BY DEF NoncesInit, SentInv
<1>3. LockInv
  BY NoncesAssumption DEF NoncesInit, LockInv, At, Idle
<1> QED BY <1>1, <1>2, <1>3 DEF NoncesInv

\* Every step of the managers, of the node and of the process keeps the invariant.
LEMMA NoncesNextInv == NoncesInv /\ [NoncesNext]_nonceVars => NoncesInv'
<1> SUFFICES ASSUME NoncesInv, [NoncesNext]_nonceVars PROVE NoncesInv'
  OBVIOUS
<1>1. ASSUME NEW w \in Workers, relayRequest(w) \/ relaySettlement(w) PROVE NoncesInv'
  BY <1>1, RequestKeeps
<1>2. ASSUME NEW w \in Workers, checkBetFilled(w) PROVE NoncesInv'
  BY <1>2, CheckKeeps
<1>3. ASSUME NEW w \in Workers, takeNumber(w) PROVE NoncesInv'
  BY <1>3, TakeNumberKeeps
<1>4. ASSUME NEW w \in Workers, seedNumber(w) PROVE NoncesInv'
  BY <1>4, SeedKeeps
<1>5. ASSUME NEW w \in Workers, seedThrows(w) PROVE NoncesInv'
  BY <1>5, SeedThrowsKeeps
<1>6. ASSUME NEW w \in Workers, estimateReverts(w) PROVE NoncesInv'
  BY <1>6, EstimateKeeps
<1>7. ASSUME NEW w \in Workers, broadcast(w) PROVE NoncesInv'
  BY <1>7, BroadcastKeeps
<1>8. ASSUME NEW w \in Workers, usedRefused(w) PROVE NoncesInv'
  BY <1>8, UsedKeeps
<1>12. ASSUME NEW w \in Workers, takenRefused(w) PROVE NoncesInv'
  BY <1>12, TakenKeeps
<1>9. CASE Mines
  BY <1>9, MineKeeps
<1>10. CASE Restarts
  BY <1>10, RestartsKeep
<1>11. CASE UNCHANGED nonceVars
  BY <1>11 DEF nonceVars, NoncesInv, NoncesTypeOK, SentInv, LockInv, At
<1> QED BY <1>1, <1>2, <1>3, <1>4, <1>5, <1>6, <1>7, <1>8, <1>9, <1>10, <1>11, <1>12
       DEF NoncesNext

\* The variables keep their types; the nonces a manager counts in are whole numbers,
\* below the account's own after a number is handed back too often.
THEOREM NoncesTypeCorrect == NoncesSpec => []NoncesTypeOK
<1>1. NoncesInv => NoncesTypeOK
  BY DEF NoncesInv
<1> QED BY NoncesInitInv, NoncesNextInv, <1>1, PTL DEF NoncesSpec

\* A call of send puts at most one transaction on chain, in the relay and in the signing
\* layer, whatever numbers are refused, answers lost and managers reset, unless an accepted
\* transaction of that call was answered "already known".
THEOREM CallsSendOnce == NoncesSpec => []SentOnce
<1>1. NoncesInv => SentOnce
  BY DEF NoncesInv, SentInv, SentOnce
<1> QED BY NoncesInitInv, NoncesNextInv, <1>1, PTL DEF NoncesSpec

\* Until a call fails, the relay's lock gives no two requests the same number, however
\* many come at once before the manager is seeded.
THEOREM LockSeparates == NoncesSpec => []NumbersDiffer
<1>1. NoncesInv => NumbersDiffer
  BY DEF NoncesInv, LockInv, NumbersDiffer
<1> QED BY NoncesInitInv, NoncesNextInv, <1>1, PTL DEF NoncesSpec
=============================================================================
