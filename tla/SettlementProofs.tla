--------------------------- MODULE SettlementProofs ---------------------------
(***************************************************************************)
(* Theorems about the settlement of a market and the return of its         *)
(* collateral, for every number of markets, tasks, failures, restarts and  *)
(* moves of the users and under every set of faults.                       *)
(***************************************************************************)
EXTENDS Settlement, FiniteSetTheorems, TLAPS

TaskState == {Idle} \cup ReadingTask \cup WorkingTask

-----------------------------------------------------------------------------
(* What each task has learnt so far about the market it works on.          *)

Ended(m) == Settleable(m) \/ m \in swallowed

\* A tick works through markets it saw finalized; one that is to be registered is
\* void, and one that is to be redeemed was resolved, or its error was logged.
TaskSettles(task) ==
    /\ task.pc = "next" => \A m \in task.todo : ctf[m] # "open"
    /\ (task.pc \in WorkPC /\ task.poll) =>
          /\ ctf[task.m] # "open" /\ \A m \in task.todo : ctf[m] # "open"
          /\ task.pc = "register" => ctf[task.m] = "void" \/ task.m \in swallowed
          /\ task.pc \in RedeemPC \cup {"usdcBefore"} => task.m \in resolvedAt \cup swallowed

SettleInv ==
    /\ SkippedIsSettled
    /\ \A t \in Tasks : TaskSettles(tasks[t])

-----------------------------------------------------------------------------
(* What each redemption holds of the money it measures.                    *)

\* The growth of a balance since a task read it is within what came to it and has
\* not been moved on.
TaskMeasures(task) ==
    /\ task.pc \in {"redeem", "pusdAfter"} => pusd - task.pusd <= minted + paidIn - offramped
    /\ task.pc = "offramp" => task.amount <= minted + paidIn - offramped
    /\ task.pc \in {"pusdBefore", "redeem", "pusdAfter", "offramp", "usdcAfter"} =>
          usdc - task.usdc <= offramped + received - acked
    /\ task.pc \in {"deployed", "ack"} => task.amount <= offramped + received - acked

Alone == \A t, u \in Tasks : tasks[t].pc \in RedeemPC /\ tasks[u].pc \in RedeemPC => t = u

MoneyInv ==
    ~overlapped =>
        /\ offramped <= minted + paidIn
        /\ acked <= offramped + received
        /\ Alone
        /\ \A t \in Tasks : TaskMeasures(tasks[t])

Inv == TypeOK /\ SettleInv /\ MoneyInv

\* What a finalized market has reached is never taken back.
Progress ==
    /\ \A m \in Markets : ctf[m] # "open" => ctf'[m] = ctf[m]
    /\ resolvedAt \subseteq resolvedAt' /\ conditionIdOf \subseteq conditionIdOf'
    /\ swallowed \subseteq swallowed'

-----------------------------------------------------------------------------
(* Tasks.                                                                  *)

\* A task that works on a market has the record of one (Working).
LEMMA WorkingIs ==
    ASSUME TypeOK, NEW t \in Tasks, tasks[t].pc \in WorkPC
    PROVE  tasks[t] \in WorkingTask
BY DEF TypeOK, Idle, ReadingTask, WorkPC

\* A tick between its passes has the record of one (Reading).
LEMMA ReadingIs ==
    ASSUME TypeOK, NEW t \in Tasks, tasks[t].pc \in {"resolvedAt", "denominators", "next"}
    PROVE  tasks[t] \in ReadingTask
BY DEF TypeOK, Idle, WorkingTask, WorkPC

\* A task that moves on leaves the others where they are.
LEMMA GotoType ==
    ASSUME TypeOK, NEW t \in Tasks, NEW x \in TaskState, Goto(t, x)
    PROVE  /\ tasks' \in [Tasks -> TaskState] /\ tasks'[t] = x
           /\ \A o \in Tasks : o # t => tasks'[o] = tasks[o]
BY DEF TypeOK, TaskState, Goto

\* The records a task moves on to.
LEMMA ReadingType ==
    ASSUME NEW pc \in {"resolvedAt", "denominators", "next"}, NEW ms \in SUBSET Markets
    PROVE  Reading(pc, ms) \in TaskState
BY DEF Reading, ReadingTask, TaskState

\* A task that has taken a market works on it with all its fields.
LEMMA WorkingType ==
    ASSUME NEW m \in Markets, NEW ms \in SUBSET Markets, NEW poll \in BOOLEAN
    PROVE  Working(m, ms, poll) \in WorkingTask
BY DEF Working, WorkingTask, WorkPC

\* Going on to another call changes nothing else of a task at work.
LEMMA StepType ==
    ASSUME NEW x \in WorkingTask, NEW pc \in WorkPC
    PROVE  /\ [x EXCEPT !.pc = pc] \in WorkingTask
           /\ [x EXCEPT !.pc = pc].pc = pc
           /\ [x EXCEPT !.pc = pc].m = x.m /\ [x EXCEPT !.pc = pc].todo = x.todo
           /\ [x EXCEPT !.pc = pc].poll = x.poll /\ [x EXCEPT !.pc = pc].usdc = x.usdc
           /\ [x EXCEPT !.pc = pc].pusd = x.pusd /\ [x EXCEPT !.pc = pc].amount = x.amount
BY DEF WorkingTask

-----------------------------------------------------------------------------
(* Keeping SettleInv.                                                      *)

\* What a task knows of its markets stays true while the world moves on.
LEMMA SettlesStable ==
    ASSUME NEW x \in TaskState, TaskSettles(x), Progress
    PROVE  TaskSettles(x)'
<1>1. CASE x = Idle
  BY <1>1 DEF Idle, TaskSettles, WorkPC
<1>2. CASE x \in ReadingTask
  BY <1>2 DEF ReadingTask, TaskSettles, WorkPC, Progress
<1>3. CASE x \in WorkingTask
  BY <1>3 DEF WorkingTask, TaskSettles, WorkPC, RedeemPC, Progress
<1> QED BY <1>1, <1>2, <1>3 DEF TaskState

\* A market that has ended stays so.
LEMMA EndedStable ==
    ASSUME NEW m \in Markets, Ended(m), Progress
    PROVE  Ended(m)'
BY DEF Ended, Settleable, Progress

\* A step that moves one task on keeps SettleInv when the task knows what it should
\* and the markets that are not looked at again have ended.
LEMMA SettleKept ==
    ASSUME TypeOK, SettleInv, Progress,
           NEW t \in Tasks, NEW x \in TaskState, Goto(t, x), TaskSettles(x)',
           \A m \in resolvedMarkets' : m \in resolvedMarkets \/ Ended(m)'
    PROVE  SettleInv'
<1>1. \A m \in resolvedMarkets' : Ended(m)'
  <2> SUFFICES ASSUME NEW m \in resolvedMarkets' PROVE Ended(m)'
    OBVIOUS
  <2>1. CASE m \in resolvedMarkets
    BY <2>1, EndedStable DEF TypeOK, SettleInv, SkippedIsSettled, Ended
  <2> QED BY <2>1
<1>2. ASSUME NEW o \in Tasks PROVE TaskSettles(tasks[o])'
  <2>1. CASE o = t
    <3>1. tasks'[o] = x
      BY <2>1, GotoType
    <3> QED BY <3>1 DEF TaskSettles
  <2>2. CASE o # t
    <3>1. tasks'[o] = tasks[o]
      BY <2>2, GotoType
    <3>2. tasks[o] \in TaskState /\ TaskSettles(tasks[o])
      BY DEF TypeOK, TaskState, SettleInv
    <3>3. \A z \in TaskState : TaskSettles(z) => TaskSettles(z)'
      BY SettlesStable
    <3> QED BY <3>1, <3>2, <3>3 DEF TaskSettles
  <2> QED BY <2>1, <2>2
<1> QED BY <1>1, <1>2 DEF SettleInv, SkippedIsSettled, Ended

\* So does a step that moves no task.
LEMMA SettleIdle ==
    ASSUME TypeOK, SettleInv, Progress, UNCHANGED tasks,
           \A m \in resolvedMarkets' : m \in resolvedMarkets \/ Ended(m)'
    PROVE  SettleInv'
<1>1. \A m \in resolvedMarkets' : Ended(m)'
  <2> SUFFICES ASSUME NEW m \in resolvedMarkets' PROVE Ended(m)'
    OBVIOUS
  <2>1. CASE m \in resolvedMarkets
    BY <2>1, EndedStable DEF TypeOK, SettleInv, SkippedIsSettled, Ended
  <2> QED BY <2>1
<1>2. ASSUME NEW o \in Tasks PROVE TaskSettles(tasks[o])'
  <2>1. tasks[o] \in TaskState /\ TaskSettles(tasks[o])
    BY DEF TypeOK, TaskState, SettleInv
  <2> QED BY <2>1, SettlesStable DEF TaskSettles
<1> QED BY <1>1, <1>2 DEF SettleInv, SkippedIsSettled, Ended

-----------------------------------------------------------------------------
(* Keeping MoneyInv.                                                       *)

\* The measured inequalities that belong to no task
Balanced == offramped <= minted + paidIn /\ acked <= offramped + received

MoneySame == UNCHANGED <<overlapped, pusd, usdc, minted, paidIn, offramped, received, acked>>

\* A task that does not redeem disturbs no measurement.
LEMMA MoneyOutside ==
    ASSUME TypeOK, MoneyInv, MoneySame,
           NEW t \in Tasks, NEW x \in TaskState, Goto(t, x), x.pc \notin RedeemPC
    PROVE  MoneyInv'
<1> SUFFICES ASSUME ~overlapped
             PROVE  /\ Balanced' /\ Alone' /\ (\A o \in Tasks : TaskMeasures(tasks[o]))'
  BY DEF MoneyInv, MoneySame, Balanced
<1>1. Balanced' /\ Alone
  BY DEF MoneyInv, MoneySame, Balanced
<1>2. Alone'
  BY <1>1, GotoType DEF Alone
<1>3. ASSUME NEW o \in Tasks PROVE TaskMeasures(tasks[o])'
  <2>1. CASE o = t
    <3>1. tasks'[o].pc \notin RedeemPC
      BY <2>1, GotoType
    <3> QED BY <3>1 DEF TaskMeasures, RedeemPC
  <2>2. CASE o # t
    <3>1. tasks'[o] = tasks[o] /\ TaskMeasures(tasks[o])
      BY <2>2, GotoType DEF MoneyInv
    <3> QED BY <3>1 DEF TaskMeasures, MoneySame
  <2> QED BY <2>1, <2>2
<1> QED BY <1>1, <1>2, <1>3

\* A task that redeems alone has only its own measurement to keep.
LEMMA MoneyAlone ==
    ASSUME TypeOK, MoneyInv, UNCHANGED overlapped,
           NEW t \in Tasks, NEW x \in TaskState, Goto(t, x), tasks[t].pc \in RedeemPC,
           ~overlapped => Balanced' /\ TaskMeasures(x)'
    PROVE  MoneyInv'
<1> SUFFICES ASSUME ~overlapped
             PROVE  /\ Balanced' /\ Alone' /\ (\A o \in Tasks : TaskMeasures(tasks[o]))'
  BY DEF MoneyInv, Balanced
<1>1. Alone
  BY DEF MoneyInv
<1>2. Alone'
  BY <1>1, GotoType DEF Alone
<1>3. ASSUME NEW o \in Tasks PROVE TaskMeasures(tasks[o])'
  <2>1. CASE o = t
    <3>1. tasks'[o] = x
      BY <2>1, GotoType
    <3> QED BY <3>1 DEF TaskMeasures
  <2>2. CASE o # t
    <3>1. tasks'[o].pc \notin RedeemPC
      BY <1>1, <2>2, GotoType DEF Alone
    <3> QED BY <3>1 DEF TaskMeasures, RedeemPC
  <2> QED BY <2>1, <2>2
<1> QED BY <1>2, <1>3

\* A step of the environment keeps every measurement when what comes to a balance
\* is counted.
LEMMA MoneyIdle ==
    ASSUME TypeOK, MoneyInv, UNCHANGED <<tasks, overlapped, offramped, acked>>,
           {pusd', usdc', minted', paidIn', received'} \subseteq Nat,
           paidIn <= paidIn', received <= received',
           pusd' - pusd <= (minted' + paidIn') - (minted + paidIn),
           minted + paidIn <= minted' + paidIn',
           usdc' - usdc <= received' - received
    PROVE  MoneyInv'
<1> SUFFICES ASSUME ~overlapped
             PROVE  /\ Balanced' /\ Alone' /\ (\A o \in Tasks : TaskMeasures(tasks[o]))'
  BY DEF MoneyInv, Balanced
<1>0. /\ {pusd, usdc, minted, offramped, acked, received, paidIn} \subseteq Nat
      /\ offramped' = offramped /\ acked' = acked /\ tasks' = tasks /\ overlapped' = overlapped
  BY DEF TypeOK
<1>1. Balanced' /\ Alone'
  <2>1. Balanced /\ Alone
    BY DEF MoneyInv, Balanced
  <2>2. Balanced'
    BY <1>0, <2>1 DEF Balanced
  <2> QED BY <1>0, <2>1, <2>2 DEF Alone
<1>2. ASSUME NEW o \in Tasks PROVE TaskMeasures(tasks[o])'
  <2>1. TaskMeasures(tasks[o]) /\ tasks'[o] = tasks[o]
    BY DEF MoneyInv
  <2>2. CASE tasks[o].pc \in RedeemPC
    <3>1. tasks[o] \in WorkingTask
      BY <2>2, WorkingIs DEF WorkPC, RedeemPC
    <3>2. tasks[o].pusd \in Nat /\ tasks[o].usdc \in Nat /\ tasks[o].amount \in Nat
      BY <3>1 DEF WorkingTask
    <3> QED BY <1>0, <2>1, <3>2 DEF TaskMeasures
  <2>3. CASE tasks[o].pc \notin RedeemPC
    BY <2>1, <2>3 DEF TaskMeasures, RedeemPC
  <2> QED BY <2>2, <2>3
<1> QED BY <1>1, <1>2

-----------------------------------------------------------------------------
(* The end of a turn.                                                      *)

\* A task leaves the pipeline for the rest of its tick, or for good.
Leaves(t) == \E x \in TaskState : Goto(t, x) /\ x.pc \notin WorkPC /\ TaskSettles(x)'

MemoryOK ==
    resolvedMarkets \subseteq Markets /\ waiting \subseteq Markets /\ seedFresh \in BOOLEAN

\* The market of a finished turn is not looked at again.
LEMMA SettledKeeps ==
    ASSUME TypeOK, SettleInv, Progress, NEW t \in Tasks, tasks[t].pc \in WorkPC,
           NEW m \in Markets, tasks[t].m = m, Settled(t), tasks[t].poll => Ended(m)'
    PROVE  SettleInv' /\ Leaves(t) /\ tasks' \in [Tasks -> TaskState] /\ MemoryOK'
<1>1. tasks[t] \in WorkingTask /\ TaskSettles(tasks[t])
  BY WorkingIs DEF SettleInv
<1>2. tasks[t].m \in Markets /\ tasks[t].todo \in SUBSET Markets /\ tasks[t].poll \in BOOLEAN
  BY <1>1 DEF WorkingTask
<1>3. CASE tasks[t].poll
  <2>1. PICK x \in TaskState : x = Reading("next", tasks[t].todo)
    BY <1>2, ReadingType
  <2>2. x.pc = "next" /\ x.todo = tasks[t].todo
    BY <2>1 DEF Reading
  <2>3. TaskSettles(x)'
    BY <1>1, <1>2, <1>3, <2>2 DEF TaskSettles, Progress, WorkPC
  <2>4. Goto(t, x)
    BY <1>3, <2>1 DEF Settled
  <2>5. resolvedMarkets' = resolvedMarkets \cup {m} /\ MemoryOK'
    <3>1. MemoryOK
      BY DEF TypeOK, MemoryOK
    <3>2. /\ resolvedMarkets' = resolvedMarkets \cup {tasks[t].m}
          /\ waiting' = waiting \ {tasks[t].m} /\ seedFresh' = seedFresh
      BY <1>3 DEF Settled
    <3> QED BY <1>2, <3>1, <3>2 DEF MemoryOK
  <2>6. SettleInv'
    BY <1>3, <2>3, <2>4, <2>5, SettleKept
  <2>7. x.pc \notin WorkPC
    BY <2>2 DEF WorkPC
  <2> QED BY <2>3, <2>4, <2>5, <2>6, <2>7, GotoType DEF Leaves
<1>4. CASE ~tasks[t].poll
  <2>1. PICK x \in TaskState : x = Idle
    BY DEF TaskState
  <2>2. x.pc = "idle"
    BY <2>1 DEF Idle
  <2>3. TaskSettles(x)'
    BY <2>2 DEF TaskSettles, WorkPC
  <2>4. Goto(t, x) /\ UNCHANGED resolvedMarkets /\ MemoryOK'
    BY <1>4, <2>1 DEF Settled, TypeOK, MemoryOK
  <2>5. SettleInv'
    BY <2>3, <2>4, SettleKept
  <2> QED BY <2>2, <2>3, <2>4, <2>5, GotoType DEF Leaves, WorkPC
<1> QED BY <1>2, <1>3, <1>4

\* A turn that failed only backs off.
LEMMA FailedKeeps ==
    ASSUME TypeOK, SettleInv, Progress, NEW t \in Tasks, tasks[t].pc \in WorkPC, Failed(t)
    PROVE  SettleInv' /\ Leaves(t) /\ tasks' \in [Tasks -> TaskState] /\ MemoryOK'
<1>1. tasks[t] \in WorkingTask /\ TaskSettles(tasks[t])
  BY WorkingIs DEF SettleInv
<1>2. tasks[t].m \in Markets /\ tasks[t].todo \in SUBSET Markets /\ tasks[t].poll \in BOOLEAN
  BY <1>1 DEF WorkingTask
<1>3. resolvedMarkets' = resolvedMarkets /\ MemoryOK'
  BY <1>2 DEF Failed, TypeOK, MemoryOK
<1>4. CASE tasks[t].poll
  <2>1. PICK x \in TaskState : x = Reading("next", tasks[t].todo)
    BY <1>2, ReadingType
  <2>2. x.pc = "next" /\ x.todo = tasks[t].todo
    BY <2>1 DEF Reading
  <2>3. TaskSettles(x)'
    BY <1>1, <1>2, <1>4, <2>2 DEF TaskSettles, Progress, WorkPC
  <2>4. Goto(t, x)
    BY <1>4, <2>1 DEF Failed
  <2>5. SettleInv'
    BY <1>3, <2>3, <2>4, SettleKept
  <2> QED BY <1>3, <2>2, <2>3, <2>4, <2>5, GotoType DEF Leaves, WorkPC
<1>5. CASE ~tasks[t].poll
  <2>1. PICK x \in TaskState : x = Idle
    BY DEF TaskState
  <2>2. x.pc = "idle"
    BY <2>1 DEF Idle
  <2>3. TaskSettles(x)'
    BY <2>2 DEF TaskSettles, WorkPC
  <2>4. Goto(t, x)
    BY <1>5, <2>1 DEF Failed
  <2>5. SettleInv'
    BY <1>3, <2>3, <2>4, SettleKept
  <2> QED BY <1>3, <2>2, <2>3, <2>4, <2>5, GotoType DEF Leaves, WorkPC
<1> QED BY <1>2, <1>4, <1>5

\* A task moves on, but not into a redemption or within one.
Moves(t) == \E x \in TaskState : Goto(t, x) /\ x.pc \notin RedeemPC /\ TaskSettles(x)'

\* Leaving the work on a market is such a move.
LEMMA LeavesMoves ==
    ASSUME NEW t, Leaves(t)
    PROVE  Moves(t)
BY DEF Leaves, Moves, WorkPC, RedeemPC

\* A turn that ends or goes on outside the redemption keeps both invariants.
LEMMA MovesKeep ==
    ASSUME TypeOK, SettleInv, MoneyInv, Progress, MoneySame, NEW t \in Tasks, Moves(t),
           \A m \in resolvedMarkets' : m \in resolvedMarkets \/ Ended(m)'
    PROVE  SettleInv' /\ MoneyInv' /\ tasks' \in [Tasks -> TaskState]
<1>1. PICK x \in TaskState : Goto(t, x) /\ x.pc \notin RedeemPC /\ TaskSettles(x)'
  BY DEF Moves
<1>2. SettleInv'
  BY <1>1, SettleKept
<1>3. MoneyInv'
  BY <1>1, MoneyOutside
<1> QED BY <1>1, <1>2, <1>3, GotoType

\* So does one that Settled or Failed ends.
LEMMA LeftKeeps ==
    ASSUME TypeOK, MoneyInv, MoneySame, NEW t \in Tasks, Leaves(t)
    PROVE  MoneyInv'
<1>1. PICK x \in TaskState : Goto(t, x) /\ x.pc \notin WorkPC
  BY DEF Leaves
<1>2. x.pc \notin RedeemPC
  BY <1>1 DEF WorkPC, RedeemPC
<1> QED BY <1>1, <1>2, MoneyOutside

\* What a task in the redemption knows of its market.
LEMMA RedeemingEnded ==
    ASSUME TypeOK, SettleInv, NEW t \in Tasks, tasks[t].pc \in RedeemPC \cup {"usdcBefore"},
           tasks[t].poll
    PROVE  Ended(tasks[t].m)
BY DEF SettleInv, TaskSettles, WorkPC, RedeemPC, Ended, Settleable

-----------------------------------------------------------------------------
(* The tick.                                                               *)

\* Backing off the markets without a raw id leaves the pass or ends the tick.
LEMMA ReadsOn ==
    ASSUME NEW t \in Tasks, NEW known \in SUBSET Markets,
           Goto(t, IF known = {} THEN Idle ELSE Reading("denominators", known))
    PROVE  Moves(t)
<1>1. CASE known = {}
  <2>1. Idle \in TaskState /\ Idle.pc = "idle"
    BY DEF Idle, TaskState
  <2>2. PICK x \in TaskState : x = Idle
    BY <2>1
  <2>3. x.pc = "idle" /\ Goto(t, x)
    BY <1>1, <2>1, <2>2
  <2>4. TaskSettles(x)' /\ x.pc \notin RedeemPC
    BY <2>3 DEF TaskSettles, WorkPC, RedeemPC
  <2> QED BY <2>3, <2>4 DEF Moves
<1>2. CASE known # {}
  <2>1. PICK x \in TaskState : x = Reading("denominators", known)
    BY ReadingType
  <2>2. x.pc = "denominators" /\ Goto(t, x)
    BY <1>2, <2>1 DEF Reading
  <2>3. TaskSettles(x)' /\ x.pc \notin RedeemPC
    BY <2>2 DEF TaskSettles, WorkPC, RedeemPC
  <2> QED BY <2>2, <2>3 DEF Moves
<1> QED BY <1>1, <1>2

\* A tick begins its turn with the reads of what the chain has settled.
LEMMA TickKeeps ==
    ASSUME Inv, NEW t \in Tasks, tick(t)
    PROVE  Inv'
<1>0. TypeOK /\ SettleInv /\ MoneyInv
  BY DEF Inv
<1>1. Progress /\ MoneySame /\ UNCHANGED resolvedMarkets
  BY DEF tick, Progress, MoneySame, vaultVars, money, world, history
<1>2. Moves(t) /\ waiting' \subseteq Markets
  <2>1. CASE CheckRaw(t, Eligible)
    <3>1. {m \in Eligible : Checkable(m)} \in SUBSET Markets
      BY DEF Eligible
    <3>2. Goto(t, IF {m \in Eligible : Checkable(m)} = {} THEN Idle
                  ELSE Reading("denominators", {m \in Eligible : Checkable(m)}))
      BY <2>1 DEF CheckRaw
    <3>3. waiting' \subseteq Markets
      BY <1>0, <2>1 DEF CheckRaw, Eligible, TypeOK
    <3> QED BY <3>1, <3>2, <3>3, ReadsOn
  <2>2. CASE Goto(t, Reading("resolvedAt", Eligible)) /\ UNCHANGED waiting
    <3>1. PICK x \in TaskState : x = Reading("resolvedAt", Eligible)
      BY ReadingType DEF Eligible
    <3>2. x.pc = "resolvedAt" /\ Goto(t, x)
      BY <2>2, <3>1 DEF Reading
    <3>3. TaskSettles(x)' /\ x.pc \notin RedeemPC
      BY <3>2 DEF TaskSettles, WorkPC, RedeemPC
    <3>4. waiting' \subseteq Markets
      BY <1>0, <2>2 DEF TypeOK
    <3> QED BY <3>2, <3>3, <3>4 DEF Moves
  <2> QED BY <2>1, <2>2 DEF tick
<1>3. SettleInv' /\ MoneyInv' /\ tasks' \in [Tasks -> TaskState]
  BY <1>0, <1>1, <1>2, MovesKeep
<1>4. TypeOK'
  BY <1>0, <1>2, <1>3
     DEF tick, TypeOK, TaskState, vaultVars, money, world, bounds, history
<1> QED BY <1>3, <1>4 DEF Inv

\* The answer of resolvedAt takes the settled markets out of the turn.
LEMMA TickResolvedAtKeeps ==
    ASSUME Inv, NEW t \in Tasks, tickResolvedAt(t)
    PROVE  Inv'
<1>0. TypeOK /\ SettleInv /\ MoneyInv
  BY DEF Inv
<1>1. Progress /\ MoneySame
  BY DEF tickResolvedAt, Progress, MoneySame, vaultVars, money, world, history
<1>2. tasks[t].todo \in SUBSET Markets
  BY <1>0, ReadingIs DEF tickResolvedAt, At, ReadingTask
<1>3. PICK nulls \in SUBSET tasks[t].todo :
        LET done == (tasks[t].todo \cap resolvedAt) \ nulls
            ms   == tasks[t].todo \ done
        IN /\ batchUint(nulls)
           /\ resolvedMarkets' = resolvedMarkets \cup done
           /\ waiting' = (waiting \ done) \cup {m \in ms : ~Checkable(m)}
           /\ LET known == {m \in ms : Checkable(m)}
              IN Goto(t, IF known = {} THEN Idle ELSE Reading("denominators", known))
  BY DEF tickResolvedAt
<1> DEFINE done == (tasks[t].todo \cap resolvedAt) \ nulls
           known == {m \in tasks[t].todo \ done : Checkable(m)}
<1>4. Moves(t)
  <2>1. known \in SUBSET Markets
    BY <1>2
  <2>2. Goto(t, IF known = {} THEN Idle ELSE Reading("denominators", known))
    BY <1>3
  <2> HIDE DEF known
  <2> QED BY <2>1, <2>2, ReadsOn
<1>5. resolvedMarkets' \subseteq Markets /\ waiting' \subseteq Markets
  BY <1>0, <1>2, <1>3 DEF TypeOK
<1>6. \A m \in resolvedMarkets' : m \in resolvedMarkets \/ Ended(m)'
  <2>1. resolvedMarkets' = resolvedMarkets \cup done /\ resolvedAt' = resolvedAt
    BY <1>3 DEF tickResolvedAt, vaultVars
  <2> QED BY <2>1 DEF Ended, Settleable
<1>7. SettleInv' /\ MoneyInv' /\ tasks' \in [Tasks -> TaskState]
  BY <1>0, <1>1, <1>4, <1>6, MovesKeep
<1>8. failures' \in 0..MaxFailures
  BY <1>0, <1>3, SettlementAssumption DEF batchUint, Succeeds, Fails, TypeOK
<1>9. TypeOK'
  BY <1>0, <1>5, <1>7, <1>8
     DEF tickResolvedAt, TypeOK, TaskState, vaultVars, money, world, history
<1> QED BY <1>7, <1>9 DEF Inv

\* The count of failures stays within its bound.
LEMMA FailuresType ==
    ASSUME TypeOK, Succeeds \/ \E f \in Faults : Fails(f)
    PROVE  failures' \in 0..MaxFailures
<1>1. failures \in 0..MaxFailures /\ MaxFailures \in Nat
  BY SettlementAssumption DEF TypeOK
<1> QED BY <1>1 DEF Succeeds, Fails

\* The answer of payoutDenominator picks the first market to work on.
LEMMA TickDenominatorsKeeps ==
    ASSUME Inv, NEW t \in Tasks, tickDenominators(t)
    PROVE  Inv'
<1>0. TypeOK /\ SettleInv /\ MoneyInv
  BY DEF Inv
<1>1. Progress /\ MoneySame /\ UNCHANGED <<resolvedMarkets, ctf>>
  BY DEF tickDenominators, Progress, MoneySame, vaultVars, money, world, history
<1>2. tasks[t].todo \in SUBSET Markets
  BY <1>0, ReadingIs DEF tickDenominators, At, ReadingTask
<1>3. PICK nulls \in SUBSET tasks[t].todo :
        LET final == {m \in tasks[t].todo \ nulls : ctf[m] # "open"}
        IN /\ batchUint(nulls)
           /\ waiting' = waiting \cup (tasks[t].todo \ final)
           /\ Goto(t, Reading("next", final))
  BY DEF tickDenominators
<1> DEFINE final == {m \in tasks[t].todo \ nulls : ctf[m] # "open"}
<1>4. Moves(t)
  <2>1. final \in SUBSET Markets /\ \A m \in final : ctf'[m] # "open"
    BY <1>1, <1>2
  <2>2. Goto(t, Reading("next", final))
    BY <1>3
  <2> HIDE DEF final
  <2>3. PICK x \in TaskState : x = Reading("next", final)
    BY <2>1, ReadingType
  <2>4. x.pc = "next" /\ x.todo = final /\ Goto(t, x)
    BY <2>2, <2>3 DEF Reading
  <2>5. TaskSettles(x)' /\ x.pc \notin RedeemPC
    BY <2>1, <2>4 DEF TaskSettles, WorkPC, RedeemPC
  <2> QED BY <2>4, <2>5 DEF Moves
<1>5. waiting' \subseteq Markets
  BY <1>0, <1>2, <1>3 DEF TypeOK
<1>6. SettleInv' /\ MoneyInv' /\ tasks' \in [Tasks -> TaskState]
  BY <1>0, <1>1, <1>4, MovesKeep
<1>7. failures' \in 0..MaxFailures
  BY <1>0, <1>3, FailuresType DEF batchUint, Fails
<1>8. TypeOK'
  BY <1>0, <1>5, <1>6, <1>7
     DEF tickDenominators, TypeOK, TaskState, vaultVars, money, world, history
<1> QED BY <1>6, <1>8 DEF Inv

\* A tick takes the markets it saw finalized one by one.
LEMMA TickNextKeeps ==
    ASSUME Inv, NEW t \in Tasks, tickNext(t)
    PROVE  Inv'
<1>0. TypeOK /\ SettleInv /\ MoneyInv
  BY DEF Inv
<1>1. Progress /\ MoneySame /\ UNCHANGED <<resolvedMarkets, ctf>>
  BY DEF tickNext, Progress, MoneySame, vaultVars, money, world, memory, history
<1>2. tasks[t].todo \in SUBSET Markets /\ \A m \in tasks[t].todo : ctf[m] # "open"
  BY <1>0, ReadingIs DEF tickNext, At, ReadingTask, SettleInv, TaskSettles
<1>3. Moves(t)
  <2>1. CASE Goto(t, Idle)
    <3>1. PICK x \in TaskState : x = Idle
      BY DEF TaskState
    <3>2. x.pc = "idle" /\ Goto(t, x)
      BY <2>1, <3>1 DEF Idle
    <3>3. TaskSettles(x)' /\ x.pc \notin RedeemPC
      BY <3>2 DEF TaskSettles, WorkPC, RedeemPC
    <3> QED BY <3>2, <3>3 DEF Moves
  <2>2. ASSUME NEW m \in tasks[t].todo, Goto(t, Working(m, tasks[t].todo \ {m}, TRUE))
        PROVE  Moves(t)
    <3>1. PICK x \in WorkingTask : x = Working(m, tasks[t].todo \ {m}, TRUE)
      BY <1>2, WorkingType
    <3>2. x.pc = "numerators" /\ x.m = m /\ x.todo = tasks[t].todo \ {m} /\ Goto(t, x)
      BY <2>2, <3>1 DEF Working
    <3>3. ctf'[x.m] # "open" /\ \A n \in x.todo : ctf'[n] # "open"
      BY <1>1, <1>2, <3>2
    <3>4. TaskSettles(x)' /\ x.pc \notin RedeemPC
      BY <3>2, <3>3 DEF TaskSettles, WorkPC, RedeemPC
    <3> QED BY <3>2, <3>4 DEF Moves, TaskState
  <2> QED BY <2>1, <2>2 DEF tickNext
<1>4. SettleInv' /\ MoneyInv' /\ tasks' \in [Tasks -> TaskState]
  BY <1>0, <1>1, <1>3, MovesKeep
<1>5. TypeOK'
  BY <1>0, <1>4 DEF tickNext, TypeOK, TaskState, vaultVars, money, world, memory, bounds, history
<1> QED BY <1>4, <1>5 DEF Inv

\* A read that throws ends the tick, or fails the turn, or ends it as if it were done.
LEMMA TickThrowsKeeps ==
    ASSUME Inv, NEW t \in Tasks, tickThrows(t)
    PROVE  Inv'
<1>0. TypeOK /\ SettleInv /\ MoneyInv
  BY DEF Inv
<1>1. Progress /\ MoneySame
  BY DEF tickThrows, Progress, MoneySame, vaultVars, money, world, history
<1>2. SettleInv' /\ MoneyInv' /\ tasks' \in [Tasks -> TaskState] /\ MemoryOK'
  <2>1. CASE Goto(t, Idle) /\ UNCHANGED memory
    <3>1. PICK x \in TaskState : x = Idle
      BY DEF TaskState
    <3>2. x.pc = "idle" /\ Goto(t, x)
      BY <2>1, <3>1 DEF Idle
    <3>3. TaskSettles(x)' /\ x.pc \notin RedeemPC
      BY <3>2 DEF TaskSettles, WorkPC, RedeemPC
    <3>4. Moves(t)
      BY <3>2, <3>3 DEF Moves
    <3>5. MemoryOK' /\ UNCHANGED resolvedMarkets
      BY <1>0, <2>1 DEF MemoryOK, memory, TypeOK
    <3> QED BY <1>0, <1>1, <3>4, <3>5, MovesKeep
  <2>2. CASE tasks[t].pc \in {"numerators", "check", "usdcBefore"} /\ Failed(t)
    <3>1. tasks[t].pc \in WorkPC
      BY <2>2 DEF WorkPC
    <3> QED BY <1>0, <1>1, <2>2, <3>1, FailedKeeps, LeftKeeps
  <2>3. CASE tasks[t].pc \in {"pusdBefore", "pusdAfter", "usdcAfter", "deployed"} /\ Settled(t)
    <3>1. tasks[t].pc \in WorkPC /\ tasks[t].pc \in RedeemPC
      BY <2>3 DEF WorkPC, RedeemPC
    <3>2. PICK m \in Markets : tasks[t].m = m
      BY <1>0, <3>1, WorkingIs DEF WorkingTask
    <3>3. tasks[t].poll => Ended(m)'
      BY <1>0, <1>1, <3>1, <3>2, RedeemingEnded, EndedStable
    <3> QED BY <1>0, <1>1, <2>3, <3>1, <3>2, <3>3, SettledKeeps, LeftKeeps
  <2> QED BY <2>1, <2>2, <2>3 DEF tickThrows
<1>3. failures' \in 0..MaxFailures
  BY <1>0, FailuresType DEF tickThrows, Fails
<1>4. TypeOK'
  BY <1>0, <1>2, <1>3
     DEF tickThrows, TypeOK, TaskState, MemoryOK, vaultVars, money, world, history
<1> QED BY <1>2, <1>4 DEF Inv

\* A manual resolution works on one market and reports to no tick.
LEMMA ManualKeeps ==
    ASSUME Inv, NEW t \in Tasks, NEW m \in Markets, resolveMarketManually(t, m)
    PROVE  Inv'
<1>0. TypeOK /\ SettleInv /\ MoneyInv
  BY DEF Inv
<1>1. Progress /\ MoneySame /\ UNCHANGED resolvedMarkets
  BY DEF resolveMarketManually, Progress, MoneySame, vaultVars, money, world, memory, history
<1>2. PICK x \in WorkingTask : x = Working(m, {}, FALSE)
  BY WorkingType
<1>3. x.pc = "numerators" /\ x.poll = FALSE /\ Goto(t, x)
  BY <1>2 DEF Working, resolveMarketManually
<1>4. TaskSettles(x)' /\ x.pc \notin RedeemPC
  BY <1>3 DEF TaskSettles, WorkPC, RedeemPC
<1>5. Moves(t)
  BY <1>3, <1>4 DEF Moves, TaskState
<1>6. SettleInv' /\ MoneyInv' /\ tasks' \in [Tasks -> TaskState]
  BY <1>0, <1>1, <1>5, MovesKeep
<1>7. TypeOK'
  BY <1>0, <1>6, SettlementAssumption
     DEF resolveMarketManually, TypeOK, TaskState, vaultVars, money, world, memory, history
<1> QED BY <1>6, <1>7 DEF Inv

-----------------------------------------------------------------------------
(* STEP 1 of the pipeline.                                                 *)

\* A market of a tick whose numerators are zero is void, or is taken for void.
LEMMA HandleResolutionKeeps ==
    ASSUME Inv, NEW t \in Tasks, handleResolution(t)
    PROVE  Inv'
<1>0. TypeOK /\ SettleInv /\ MoneyInv
  BY DEF Inv
<1>1. Progress /\ MoneySame /\ UNCHANGED <<resolvedMarkets, ctf>>
  BY DEF handleResolution, Progress, MoneySame, vaultVars, money, world, memory, counters, Swallow
<1>2. tasks[t] \in WorkingTask /\ tasks[t].pc \in WorkPC /\ TaskSettles(tasks[t])
  BY <1>0, WorkingIs DEF handleResolution, At, WorkPC, SettleInv
<1>3. PICK zero \in BOOLEAN :
        /\ readNumerators(tasks[t].m, zero)
        /\ Step(t, IF zero THEN "register" ELSE "check")
        /\ IF zero /\ ctf[tasks[t].m] \notin {"open", "void"} THEN Swallow(t)
           ELSE UNCHANGED swallowed
  BY DEF handleResolution
<1>4. Moves(t)
  <2>1. PICK pc \in {"register", "check"} : pc = IF zero THEN "register" ELSE "check"
    OBVIOUS
  <2>2. pc \in WorkPC /\ pc \notin RedeemPC \cup {"usdcBefore"}
    BY DEF WorkPC, RedeemPC
  <2>3. PICK x \in WorkingTask : x = [tasks[t] EXCEPT !.pc = pc]
    BY <1>2, <2>2, StepType
  <2>4. x.pc = pc /\ x.m = tasks[t].m /\ x.todo = tasks[t].todo /\ x.poll = tasks[t].poll
    BY <1>2, <2>2, <2>3, StepType
  <2>5. Goto(t, x)
    BY <1>3, <2>1, <2>3 DEF Step
  <2>6. ASSUME pc = "register", ctf[x.m] # "open", ctf[x.m] # "void"
        PROVE  x.m \in swallowed'
    <3>1. zero
      BY <2>1, <2>6
    <3> QED BY <1>3, <2>4, <2>6, <3>1 DEF Swallow
  <2>7. TaskSettles(x)'
    BY <1>1, <1>2, <2>2, <2>4, <2>6 DEF TaskSettles
  <2> QED BY <2>2, <2>4, <2>5, <2>7 DEF Moves, TaskState
<1>5. SettleInv' /\ MoneyInv' /\ tasks' \in [Tasks -> TaskState]
  BY <1>0, <1>1, <1>4, MovesKeep
<1>6. swallowed' \subseteq Markets
  BY <1>0, <1>2, <1>3 DEF Swallow, WorkingTask, TypeOK
<1>7. failures' \in 0..MaxFailures
  BY <1>0, <1>3, FailuresType DEF readNumerators, Fails
<1>8. TypeOK'
  BY <1>0, <1>5, <1>6, <1>7
     DEF handleResolution, TypeOK, TaskState, vaultVars, money, world, memory, counters
<1> QED BY <1>5, <1>8 DEF Inv

\* Registering a void market makes its bets refundable; when it fails, that is logged.
LEMMA RegisterConditionKeeps ==
    ASSUME Inv, NEW t \in Tasks, registerCondition(t)
    PROVE  Inv'
<1>0. TypeOK /\ SettleInv /\ MoneyInv
  BY DEF Inv
<1>1. tasks[t] \in WorkingTask /\ tasks[t].pc = "register" /\ TaskSettles(tasks[t])
  BY <1>0, WorkingIs DEF registerCondition, At, WorkPC, SettleInv
<1>2. PICK m \in Markets : tasks[t].m = m
  BY <1>1 DEF WorkingTask
<1>3. \/ conditionIdOf' = conditionIdOf \cup {m} /\ UNCHANGED swallowed
      \/ swallowed' = swallowed \cup {m} /\ UNCHANGED conditionIdOf
  BY <1>2 DEF registerCondition, Swallow
<1>4. Progress /\ MoneySame /\ UNCHANGED <<ctf, resolvedAt>>
  BY <1>3 DEF registerCondition, Progress, MoneySame, money, world, counters
<1>5. tasks[t].poll => Ended(m)'
  BY <1>1, <1>2, <1>3, <1>4 DEF TaskSettles, WorkPC, Ended, Settleable
<1>6. SettleInv' /\ MoneyInv' /\ tasks' \in [Tasks -> TaskState] /\ MemoryOK'
  <2>1. tasks[t].pc \in WorkPC /\ Settled(t)
    BY <1>1 DEF WorkPC, registerCondition
  <2> QED BY <1>0, <1>2, <1>4, <1>5, <2>1, SettledKeeps, LeftKeeps
<1>7. failures' \in 0..MaxFailures
  BY <1>0, FailuresType DEF registerCondition, Fails
<1>8. conditionIdOf' \subseteq Markets /\ swallowed' \subseteq Markets
  BY <1>0, <1>3 DEF TypeOK
<1>9. TypeOK'
  BY <1>0, <1>6, <1>7, <1>8
     DEF registerCondition, TypeOK, TaskState, MemoryOK, money, world, counters
<1> QED BY <1>6, <1>9 DEF Inv

\* A market goes on to the redemption when the Vault has resolved it; numerators that
\* are not read end the turn, and that is recorded.
LEMMA CheckResolvedKeeps ==
    ASSUME Inv, NEW t \in Tasks, checkResolved(t)
    PROVE  Inv'
<1>0. TypeOK /\ SettleInv /\ MoneyInv
  BY DEF Inv
<1>1. tasks[t] \in WorkingTask /\ tasks[t].pc \in WorkPC /\ TaskSettles(tasks[t])
  BY <1>0, WorkingIs DEF checkResolved, At, WorkPC, SettleInv
<1>2. PICK m \in Markets : tasks[t].m = m
  BY <1>1 DEF WorkingTask
<1>3. UNCHANGED swallowed \/ swallowed' = swallowed \cup {m}
  BY <1>2 DEF checkResolved, Swallow
<1>4. Progress /\ MoneySame /\ UNCHANGED <<ctf, resolvedAt, conditionIdOf>>
  BY <1>3 DEF checkResolved, Progress, MoneySame, vaultVars, money, world, counters
<1>5. SettleInv' /\ MoneyInv' /\ tasks' \in [Tasks -> TaskState] /\ MemoryOK'
  <2>1. CASE /\ Step(t, IF tasks[t].m \in resolvedAt THEN "usdcBefore" ELSE "resolve")
             /\ UNCHANGED <<memory, swallowed>>
    <3>1. PICK pc \in {"usdcBefore", "resolve"} :
            pc = IF m \in resolvedAt THEN "usdcBefore" ELSE "resolve"
      OBVIOUS
    <3>2. pc \in WorkPC /\ pc \notin RedeemPC /\ pc # "register"
      BY DEF WorkPC, RedeemPC
    <3>3. PICK x \in WorkingTask : x = [tasks[t] EXCEPT !.pc = pc]
      BY <1>1, <3>2, StepType
    <3>4. x.pc = pc /\ x.m = m /\ x.todo = tasks[t].todo /\ x.poll = tasks[t].poll
      BY <1>1, <1>2, <3>2, <3>3, StepType
    <3>5. Goto(t, x)
      BY <1>2, <2>1, <3>1, <3>3 DEF Step
    <3>6. pc = "usdcBefore" => m \in resolvedAt
      BY <3>1
    <3>7. TaskSettles(x)'
      BY <1>1, <1>2, <1>4, <3>2, <3>4, <3>6 DEF TaskSettles
    <3>8. Moves(t)
      BY <3>2, <3>4, <3>5, <3>7 DEF Moves, TaskState
    <3>9. MemoryOK' /\ UNCHANGED resolvedMarkets
      BY <1>0, <2>1 DEF MemoryOK, memory, TypeOK
    <3> QED BY <1>0, <1>4, <3>8, <3>9, MovesKeep
  <2>2. CASE Swallow(t) /\ Settled(t)
    <3>1. Ended(m)'
      BY <1>2, <2>2 DEF Swallow, Ended
    <3> QED BY <1>0, <1>1, <1>2, <1>4, <2>2, <3>1, SettledKeeps, LeftKeeps
  <2> QED BY <2>1, <2>2 DEF checkResolved
<1>6. failures' \in 0..MaxFailures
  BY <1>0, FailuresType DEF checkResolved, readNumerators, Fails
<1>7. swallowed' \subseteq Markets
  BY <1>0, <1>3 DEF TypeOK
<1>8. TypeOK'
  BY <1>0, <1>5, <1>6, <1>7
     DEF checkResolved, TypeOK, TaskState, MemoryOK, vaultVars, money, world, counters
<1> QED BY <1>5, <1>8 DEF Inv

\* Whatever resolveMarket does, the market is resolved or the error was logged.
LEMMA ResolveMarketKeeps ==
    ASSUME Inv, NEW t \in Tasks, resolveMarket(t)
    PROVE  Inv'
<1>0. TypeOK /\ SettleInv /\ MoneyInv
  BY DEF Inv
<1>1. tasks[t] \in WorkingTask /\ tasks[t].pc \in WorkPC /\ TaskSettles(tasks[t])
  BY <1>0, WorkingIs DEF resolveMarket, At, WorkPC, SettleInv
<1>2. PICK m \in Markets : tasks[t].m = m
  BY <1>1 DEF WorkingTask
<1>3. \/ /\ resolvedAt' = resolvedAt \cup {m} /\ conditionIdOf' = conditionIdOf \cup {m}
         /\ UNCHANGED swallowed
      \/ swallowed' = swallowed \cup {m} /\ UNCHANGED <<resolvedAt, conditionIdOf>>
  BY <1>2 DEF resolveMarket, Swallow, vaultVars
<1>4. Progress /\ MoneySame /\ UNCHANGED <<ctf, resolvedMarkets>> /\ m \in resolvedAt' \cup swallowed'
  BY <1>3 DEF resolveMarket, Progress, MoneySame, money, world, memory, counters
<1>5. Moves(t)
  <2>1. "usdcBefore" \in WorkPC /\ "usdcBefore" \notin RedeemPC
    BY DEF WorkPC, RedeemPC
  <2>2. PICK x \in WorkingTask : x = [tasks[t] EXCEPT !.pc = "usdcBefore"]
    BY <1>1, <2>1, StepType
  <2>3. x.pc = "usdcBefore" /\ x.m = m /\ x.todo = tasks[t].todo /\ x.poll = tasks[t].poll
    BY <1>1, <1>2, <2>1, <2>2, StepType
  <2>4. Goto(t, x)
    BY <2>2 DEF Step, resolveMarket
  <2>5. TaskSettles(x)'
    BY <1>1, <1>2, <1>4, <2>1, <2>3 DEF TaskSettles
  <2> QED BY <2>1, <2>3, <2>4, <2>5 DEF Moves, TaskState
<1>6. SettleInv' /\ MoneyInv' /\ tasks' \in [Tasks -> TaskState]
  BY <1>0, <1>4, <1>5, MovesKeep
<1>7. failures' \in 0..MaxFailures
  BY <1>0, FailuresType DEF resolveMarket, Fails
<1>8. {resolvedAt', conditionIdOf', swallowed'} \subseteq SUBSET Markets
  BY <1>0, <1>3 DEF TypeOK
<1>9. TypeOK'
  BY <1>0, <1>6, <1>7, <1>8
     DEF resolveMarket, TypeOK, TaskState, money, world, memory, counters
<1> QED BY <1>6, <1>9 DEF Inv

-----------------------------------------------------------------------------
(* STEP 2 of the pipeline.                                                 *)

\* The numbers the inequalities are about.
LEMMA Numbers ==
    ASSUME TypeOK
    PROVE  {pusd, usdc, minted, paidIn, offramped, received, acked, deployed} \subseteq Nat
BY DEF TypeOK

\* What a redeeming task brings along.
LEMMA RedeemingIs ==
    ASSUME TypeOK, SettleInv, MoneyInv, NEW t \in Tasks, tasks[t].pc \in RedeemPC
    PROVE  /\ tasks[t] \in WorkingTask /\ tasks[t].pc \in WorkPC
           /\ TaskSettles(tasks[t])
           /\ ~overlapped => Balanced /\ TaskMeasures(tasks[t])
<1>1. tasks[t].pc \in WorkPC
  BY DEF WorkPC, RedeemPC
<1> QED BY <1>1, WorkingIs DEF SettleInv, MoneyInv, Balanced

\* A task that goes on in the redemption of the same market knows what it knew.
LEMMA RedeemSettles ==
    ASSUME NEW y \in WorkingTask, NEW x \in WorkingTask, TaskSettles(y), Progress,
           y.pc \in RedeemPC \cup {"usdcBefore"}, x.pc \in RedeemPC,
           x.m = y.m, x.todo = y.todo, x.poll = y.poll
    PROVE  TaskSettles(x)'
<1>1. y.pc \in WorkPC /\ x.pc # "register" /\ x.pc # "next"
  BY DEF WorkPC, RedeemPC
<1>2. x.m \in Markets /\ x.todo \subseteq Markets
  BY DEF WorkingTask
<1> QED BY <1>1, <1>2 DEF TaskSettles, Progress

\* Starting to measure: the first balance is read, alone or not.
LEMMA ReadVaultUsdcKeeps ==
    ASSUME Inv, NEW t \in Tasks, readVaultUsdc(t)
    PROVE  Inv'
<1>0. TypeOK /\ SettleInv /\ MoneyInv
  BY DEF Inv
<1>1. tasks[t] \in WorkingTask /\ TaskSettles(tasks[t]) /\ tasks[t].pc = "usdcBefore"
  BY <1>0, WorkingIs DEF readVaultUsdc, At, WorkPC, SettleInv
<1>2. /\ Progress /\ UNCHANGED <<pusd, usdc, minted, paidIn, offramped, received, acked>>
      /\ UNCHANGED <<resolvedMarkets, ctf>>
  BY DEF readVaultUsdc, Progress, vaultVars, money, memory, history
<1>3. PICK pc \in {"pusdBefore", "usdcAfter"} :
        Goto(t, [[tasks[t] EXCEPT !.usdc = usdc] EXCEPT !.pc = pc])
  BY DEF readVaultUsdc
<1>4. PICK x \in WorkingTask : x = [[tasks[t] EXCEPT !.usdc = usdc] EXCEPT !.pc = pc]
  BY <1>0, <1>1, Numbers DEF WorkingTask, WorkPC
<1>5. /\ x.pc = pc /\ x.m = tasks[t].m /\ x.todo = tasks[t].todo /\ x.poll = tasks[t].poll
      /\ x.usdc = usdc /\ x.pc \in RedeemPC /\ x \in TaskState /\ Goto(t, x)
  BY <1>1, <1>3, <1>4 DEF WorkingTask, RedeemPC, TaskState
<1>6. SettleInv'
  <2>1. TaskSettles(x)'
    BY <1>1, <1>2, <1>5, RedeemSettles
  <2> QED BY <1>0, <1>2, <1>5, <2>1, SettleKept
<1>7. MoneyInv'
  <2> SUFFICES ASSUME ~overlapped'
               PROVE  /\ Balanced' /\ Alone' /\ (\A o \in Tasks : TaskMeasures(tasks[o]))'
    BY DEF MoneyInv, Balanced
  <2>1. ~overlapped /\ \A o \in Tasks : tasks[o].pc \notin RedeemPC
    BY DEF readVaultUsdc
  <2>2. Balanced
    BY <1>0, <2>1 DEF MoneyInv, Balanced
  <2>3. Balanced'
    BY <1>2, <2>2 DEF Balanced
  <2>4. \A o \in Tasks : o # t => tasks'[o].pc \notin RedeemPC
    BY <1>0, <1>5, <2>1, GotoType
  <2>5. Alone'
    BY <2>4 DEF Alone
  <2>6. ASSUME NEW o \in Tasks PROVE TaskMeasures(tasks[o])'
    <3>1. CASE o = t
      <4>1. tasks'[o] = x
        BY <1>0, <1>5, <3>1, GotoType
      <4>2. usdc - x.usdc <= offramped + received - acked
        BY <1>0, <1>5, <2>2, Numbers DEF Balanced
      <4> QED BY <1>2, <1>5, <4>1, <4>2 DEF TaskMeasures
    <3>2. CASE o # t
      BY <2>4, <3>2 DEF TaskMeasures, RedeemPC
    <3> QED BY <3>1, <3>2
  <2> QED BY <2>3, <2>5, <2>6
<1>8. overlapped' \in BOOLEAN /\ failures' \in 0..MaxFailures
  BY <1>0, FailuresType DEF readVaultUsdc, hasVaultShares, Fails, TypeOK
<1>9. tasks' \in [Tasks -> TaskState]
  BY <1>0, <1>5, GotoType
<1>10. TypeOK'
  BY <1>0, <1>8, <1>9
     DEF readVaultUsdc, TypeOK, TaskState, vaultVars, money, memory, history
<1> QED BY <1>6, <1>7, <1>10 DEF Inv

\* The wallet's balance is read: nothing came to it since.
LEMMA ReadPusdKeeps ==
    ASSUME Inv, NEW t \in Tasks, readPusd(t)
    PROVE  Inv'
<1>0. TypeOK /\ SettleInv /\ MoneyInv
  BY DEF Inv
<1>1. tasks[t].pc = "pusdBefore" /\ tasks[t].pc \in RedeemPC
  BY DEF readPusd, At, RedeemPC
<1>2. /\ tasks[t] \in WorkingTask /\ TaskSettles(tasks[t])
      /\ ~overlapped => Balanced /\ TaskMeasures(tasks[t])
  BY <1>0, <1>1, RedeemingIs
<1>3. Progress /\ MoneySame /\ UNCHANGED resolvedMarkets
  BY DEF readPusd, Progress, MoneySame, vaultVars, money, world, memory, history
<1>4. PICK x \in WorkingTask : x = [tasks[t] EXCEPT !.pc = "redeem", !.pusd = pusd]
  BY <1>0, <1>2, Numbers DEF WorkingTask, WorkPC
<1>5. /\ x.pc = "redeem" /\ x.m = tasks[t].m /\ x.todo = tasks[t].todo
      /\ x.poll = tasks[t].poll /\ x.usdc = tasks[t].usdc /\ x.pusd = pusd
      /\ x.pc \in RedeemPC /\ x \in TaskState /\ Goto(t, x)
  BY <1>2, <1>4 DEF WorkingTask, RedeemPC, TaskState, readPusd
<1>6. TaskSettles(x)'
  BY <1>1, <1>2, <1>3, <1>5, RedeemSettles
<1>7. SettleInv'
  BY <1>0, <1>3, <1>5, <1>6, SettleKept
<1>8. ~overlapped => Balanced' /\ TaskMeasures(x)'
  <2> SUFFICES ASSUME ~overlapped PROVE Balanced' /\ TaskMeasures(x)'
    OBVIOUS
  <2>1. Balanced /\ usdc - x.usdc <= offramped + received - acked
    BY <1>1, <1>2, <1>5 DEF TaskMeasures
  <2>2. pusd - x.pusd <= minted + paidIn - offramped
    BY <1>0, <1>5, <2>1, Numbers DEF Balanced
  <2> QED BY <1>3, <1>5, <2>1, <2>2 DEF TaskMeasures, Balanced, MoneySame
<1>9. MoneyInv'
  BY <1>0, <1>1, <1>3, <1>5, <1>8, MoneyAlone DEF MoneySame
<1>10. tasks' \in [Tasks -> TaskState]
  BY <1>0, <1>5, GotoType
<1>11. TypeOK'
  BY <1>0, <1>10 DEF readPusd, TypeOK, TaskState, vaultVars, money, world, memory, bounds, history
<1> QED BY <1>7, <1>9, <1>11 DEF Inv

\* A redemption mints nothing or a few units.
LEMMA RedeemMints ==
    ASSUME TypeOK, NEW m \in Markets, Redeem(m)
    PROVE  \E n \in Nat : pusd' = pusd + n /\ minted' = minted + n
<1>1. (IF m \in shares THEN Payout(m) ELSE 0) \in Nat
  BY DEF Payout
<1> QED BY <1>1 DEF Redeem

\* What a redemption brings to the wallet is minted.
LEMMA RedeemViaExecutorKeeps ==
    ASSUME Inv, NEW t \in Tasks, redeemViaExecutor(t)
    PROVE  Inv'
<1>0. TypeOK /\ SettleInv /\ MoneyInv
  BY DEF Inv
<1>1. tasks[t].pc = "redeem" /\ tasks[t].pc \in RedeemPC
  BY DEF redeemViaExecutor, At, RedeemPC
<1>2. /\ tasks[t] \in WorkingTask /\ TaskSettles(tasks[t]) /\ tasks[t].m \in Markets
      /\ ~overlapped => Balanced /\ TaskMeasures(tasks[t])
  BY <1>0, <1>1, RedeemingIs DEF WorkingTask
<1>3. /\ Progress /\ UNCHANGED <<overlapped, usdc, paidIn, offramped, received, acked>>
      /\ UNCHANGED resolvedMarkets
  BY DEF redeemViaExecutor, Progress, vaultVars, world, memory
<1>4. PICK n \in Nat : pusd' = pusd + n /\ minted' = minted + n
  <2>1. CASE Redeem(tasks[t].m)
    BY <1>0, <1>2, <2>1, RedeemMints
  <2>2. CASE UNCHANGED <<pusd, minted>>
    <3>1. pusd' = pusd + 0 /\ minted' = minted + 0
      BY <1>0, <2>2, Numbers
    <3> QED BY <3>1
  <2> QED BY <2>1, <2>2 DEF redeemViaExecutor
<1>5. PICK x \in WorkingTask : x = [tasks[t] EXCEPT !.pc = "pusdAfter"]
  BY <1>2 DEF WorkingTask, WorkPC
<1>6. /\ x.pc = "pusdAfter" /\ x.m = tasks[t].m /\ x.todo = tasks[t].todo
      /\ x.poll = tasks[t].poll /\ x.usdc = tasks[t].usdc /\ x.pusd = tasks[t].pusd
      /\ x.pc \in RedeemPC /\ x \in TaskState /\ Goto(t, x) /\ x.pusd \in Nat
  BY <1>2, <1>5 DEF WorkingTask, RedeemPC, TaskState, redeemViaExecutor, Step
<1>7. TaskSettles(x)'
  BY <1>1, <1>2, <1>3, <1>6, RedeemSettles
<1>8. SettleInv'
  BY <1>0, <1>3, <1>6, <1>7, SettleKept
<1>9. ~overlapped => Balanced' /\ TaskMeasures(x)'
  <2> SUFFICES ASSUME ~overlapped PROVE Balanced' /\ TaskMeasures(x)'
    OBVIOUS
  <2>1. /\ Balanced /\ usdc - x.usdc <= offramped + received - acked
        /\ pusd - x.pusd <= minted + paidIn - offramped
    BY <1>1, <1>2, <1>6 DEF TaskMeasures
  <2>2. Balanced'
    BY <1>0, <1>3, <1>4, <2>1, Numbers DEF Balanced
  <2>3. pusd' - x.pusd <= minted' + paidIn' - offramped'
    BY <1>0, <1>3, <1>4, <1>6, <2>1, Numbers
  <2> QED BY <1>3, <1>6, <2>1, <2>2, <2>3 DEF TaskMeasures
<1>10. MoneyInv'
  BY <1>0, <1>1, <1>3, <1>6, <1>9, MoneyAlone
<1>11. tasks' \in [Tasks -> TaskState]
  BY <1>0, <1>6, GotoType
<1>12. failures' \in 0..MaxFailures
  BY <1>0, FailuresType DEF redeemViaExecutor, Fails
<1>13. {pusd', minted'} \subseteq Nat
  BY <1>0, <1>4, Numbers
<1>14. {shares', late'} \subseteq SUBSET Markets
  BY <1>0, <1>2 DEF redeemViaExecutor, Redeem, TypeOK
<1>15. TypeOK'
  BY <1>0, <1>11, <1>12, <1>13, <1>14
     DEF redeemViaExecutor, TypeOK, TaskState, vaultVars, world, memory
<1> QED BY <1>8, <1>10, <1>15 DEF Inv

\* The growth that is measured is within what was minted, topped up and not moved on.
LEMMA MeasureRedeemedKeeps ==
    ASSUME Inv, NEW t \in Tasks, measureRedeemed(t)
    PROVE  Inv'
<1>0. TypeOK /\ SettleInv /\ MoneyInv
  BY DEF Inv
<1>1. tasks[t].pc = "pusdAfter" /\ tasks[t].pc \in RedeemPC
  BY DEF measureRedeemed, At, RedeemPC
<1>2. /\ tasks[t] \in WorkingTask /\ TaskSettles(tasks[t])
      /\ ~overlapped => Balanced /\ TaskMeasures(tasks[t])
  BY <1>0, <1>1, RedeemingIs
<1>3. Progress /\ MoneySame /\ UNCHANGED resolvedMarkets
  BY DEF measureRedeemed, Progress, MoneySame, vaultVars, money, world, memory, history
<1> DEFINE grown == pusd - tasks[t].pusd
<1>4. PICK a \in Nat, pc \in {"offramp", "usdcAfter"} :
        /\ Goto(t, [tasks[t] EXCEPT !.pc = pc, !.amount = a])
        /\ pc = "offramp" => a = grown
  <2>1. grown \in Int
    BY <1>0, <1>2, Numbers DEF WorkingTask
  <2>2. CASE grown > 0
    <3>1. Goto(t, [tasks[t] EXCEPT !.pc = "offramp", !.amount = grown])
      BY <2>2 DEF measureRedeemed
    <3>2. grown \in Nat
      BY <2>1, <2>2
    <3> QED BY <3>1, <3>2
  <2>3. CASE ~(grown > 0)
    <3>1. Goto(t, [tasks[t] EXCEPT !.pc = "usdcAfter", !.amount = 0])
      BY <2>3 DEF measureRedeemed
    <3> QED BY <3>1
  <2> QED BY <2>2, <2>3
<1>5. PICK x \in WorkingTask : x = [tasks[t] EXCEPT !.pc = pc, !.amount = a]
  BY <1>2 DEF WorkingTask, WorkPC
<1>6. /\ x.pc = pc /\ x.m = tasks[t].m /\ x.todo = tasks[t].todo
      /\ x.poll = tasks[t].poll /\ x.usdc = tasks[t].usdc /\ x.amount = a
      /\ x.pc \in RedeemPC /\ x \in TaskState /\ Goto(t, x)
  BY <1>2, <1>4, <1>5 DEF WorkingTask, RedeemPC, TaskState
<1>7. TaskSettles(x)'
  BY <1>1, <1>2, <1>3, <1>6, RedeemSettles
<1>8. SettleInv'
  BY <1>0, <1>3, <1>6, <1>7, SettleKept
<1>9. ~overlapped => Balanced' /\ TaskMeasures(x)'
  <2> SUFFICES ASSUME ~overlapped PROVE Balanced' /\ TaskMeasures(x)'
    OBVIOUS
  <2>1. /\ Balanced /\ usdc - x.usdc <= offramped + received - acked
        /\ pc = "offramp" => x.amount <= minted + paidIn - offramped
    BY <1>1, <1>2, <1>4, <1>6 DEF TaskMeasures
  <2> QED BY <1>3, <1>6, <2>1 DEF TaskMeasures, Balanced, MoneySame
<1>10. MoneyInv'
  BY <1>0, <1>1, <1>3, <1>6, <1>9, MoneyAlone DEF MoneySame
<1>11. tasks' \in [Tasks -> TaskState]
  BY <1>0, <1>6, GotoType
<1>12. TypeOK'
  BY <1>0, <1>11
     DEF measureRedeemed, TypeOK, TaskState, vaultVars, money, world, memory, bounds, history
<1> QED BY <1>8, <1>10, <1>12 DEF Inv

\* What is off-ramped was measured; it leaves the wallet and reaches the Vault.
LEMMA OfframpKeeps ==
    ASSUME Inv, NEW t \in Tasks, offrampPusdToVault(t)
    PROVE  Inv'
<1>0. TypeOK /\ SettleInv /\ MoneyInv
  BY DEF Inv
<1>1. tasks[t].pc = "offramp" /\ tasks[t].pc \in RedeemPC
  BY DEF offrampPusdToVault, At, RedeemPC
<1>2. /\ tasks[t] \in WorkingTask /\ tasks[t].pc \in WorkPC /\ TaskSettles(tasks[t])
      /\ ~overlapped => Balanced /\ TaskMeasures(tasks[t])
  BY <1>0, <1>1, RedeemingIs
<1>3. PICK m \in Markets, a \in Nat, u \in Nat :
        tasks[t].m = m /\ tasks[t].amount = a /\ tasks[t].usdc = u
  BY <1>2 DEF WorkingTask
<1>4. Progress /\ UNCHANGED <<overlapped, minted, paidIn, received, acked>>
  BY DEF offrampPusdToVault, Progress, vaultVars, world
<1>5. /\ SettleInv' /\ MoneyInv' /\ tasks' \in [Tasks -> TaskState] /\ MemoryOK'
      /\ {pusd', usdc', offramped'} \subseteq Nat
  <2>1. CASE /\ pusd >= a /\ pusd' = pusd - a /\ usdc' = usdc + a
             /\ offramped' = offramped + a /\ Step(t, "usdcAfter") /\ UNCHANGED memory
    <3>1. PICK x \in WorkingTask : x = [tasks[t] EXCEPT !.pc = "usdcAfter"]
      BY <1>2 DEF WorkingTask, WorkPC
    <3>2. /\ x.pc = "usdcAfter" /\ x.m = tasks[t].m /\ x.todo = tasks[t].todo
          /\ x.poll = tasks[t].poll /\ x.usdc = u
          /\ x.pc \in RedeemPC /\ x \in TaskState /\ Goto(t, x)
      BY <1>2, <1>3, <2>1, <3>1 DEF WorkingTask, RedeemPC, TaskState, Step
    <3>3. TaskSettles(x)'
      BY <1>1, <1>2, <1>4, <3>2, RedeemSettles
    <3>4. MemoryOK' /\ UNCHANGED resolvedMarkets
      BY <1>0, <2>1 DEF MemoryOK, memory, TypeOK
    <3>5. SettleInv'
      BY <1>0, <1>4, <3>2, <3>3, <3>4, SettleKept
    <3>6. ~overlapped => Balanced' /\ TaskMeasures(x)'
      <4> SUFFICES ASSUME ~overlapped PROVE Balanced' /\ TaskMeasures(x)'
        OBVIOUS
      <4>1. /\ Balanced /\ usdc - u <= offramped + received - acked
            /\ a <= minted + paidIn - offramped
        BY <1>1, <1>2, <1>3 DEF TaskMeasures
      <4>2. Balanced'
        BY <1>0, <1>4, <2>1, <4>1, Numbers DEF Balanced
      <4>3. usdc' - u <= offramped' + received' - acked'
        BY <1>0, <1>4, <2>1, <4>1, Numbers
      <4> QED BY <3>2, <4>2, <4>3 DEF TaskMeasures
    <3>7. MoneyInv'
      BY <1>0, <1>1, <1>4, <3>2, <3>6, MoneyAlone
    <3>8. {pusd', usdc', offramped'} \subseteq Nat
      BY <1>0, <2>1, Numbers
    <3> QED BY <1>0, <3>2, <3>4, <3>5, <3>7, <3>8, GotoType
  <2>2. CASE UNCHANGED <<pusd, usdc, offramped>> /\ Settled(t)
    <3>1. MoneySame
      BY <1>4, <2>2 DEF MoneySame
    <3>2. tasks[t].poll => Ended(m)'
      BY <1>0, <1>1, <1>3, <1>4, RedeemingEnded, EndedStable
    <3>3. {pusd', usdc', offramped'} \subseteq Nat
      BY <1>0, <2>2, Numbers
    <3> QED BY <1>0, <1>2, <1>3, <1>4, <2>2, <3>1, <3>2, <3>3, SettledKeeps, LeftKeeps
  <2> QED BY <1>3, <2>1, <2>2 DEF offrampPusdToVault
<1>6. failures' \in 0..MaxFailures
  BY <1>0, FailuresType DEF offrampPusdToVault, Fails
<1>7. TypeOK'
  BY <1>0, <1>5, <1>6 DEF offrampPusdToVault, TypeOK, TaskState, MemoryOK, vaultVars, world
<1> QED BY <1>5, <1>7 DEF Inv

\* A step of the redemption that only learns an amount, or ends the turn.
LEMMA LearnsOrEnds ==
    ASSUME TypeOK, SettleInv, MoneyInv, Progress, MoneySame,
           NEW t \in Tasks, tasks[t].pc \in RedeemPC, NEW pc \in {"deployed", "ack"},
           NEW a \in Nat,
           ~overlapped => a <= offramped + received - acked,
           \/ Goto(t, [tasks[t] EXCEPT !.pc = pc, !.amount = a]) /\ UNCHANGED memory
           \/ Settled(t)
    PROVE  SettleInv' /\ MoneyInv' /\ tasks' \in [Tasks -> TaskState] /\ MemoryOK'
<1>1. /\ tasks[t] \in WorkingTask /\ tasks[t].pc \in WorkPC /\ TaskSettles(tasks[t])
      /\ ~overlapped => Balanced
  BY RedeemingIs
<1>2. CASE Goto(t, [tasks[t] EXCEPT !.pc = pc, !.amount = a]) /\ UNCHANGED memory
  <2>1. PICK x \in WorkingTask : x = [tasks[t] EXCEPT !.pc = pc, !.amount = a]
    BY <1>1 DEF WorkingTask, WorkPC
  <2>2. /\ x.pc = pc /\ x.m = tasks[t].m /\ x.todo = tasks[t].todo
        /\ x.poll = tasks[t].poll /\ x.amount = a
        /\ x.pc \in RedeemPC /\ x \in TaskState /\ Goto(t, x)
    BY <1>1, <1>2, <2>1 DEF WorkingTask, RedeemPC, TaskState
  <2>3. TaskSettles(x)'
    BY <1>1, <2>2, RedeemSettles
  <2>4. MemoryOK' /\ UNCHANGED resolvedMarkets
    BY <1>2 DEF MemoryOK, memory, TypeOK
  <2>5. SettleInv'
    BY <2>2, <2>3, <2>4, SettleKept
  <2>6. ~overlapped => Balanced' /\ TaskMeasures(x)'
    BY <1>1, <2>2 DEF TaskMeasures, Balanced, MoneySame
  <2>7. MoneyInv'
    BY <2>2, <2>6, MoneyAlone DEF MoneySame
  <2> QED BY <2>2, <2>4, <2>5, <2>7, GotoType
<1>3. CASE Settled(t)
  <2>1. PICK m \in Markets : tasks[t].m = m
    BY <1>1 DEF WorkingTask
  <2>2. tasks[t].poll => Ended(m)'
    BY <2>1, RedeemingEnded, EndedStable
  <2> QED BY <1>1, <1>3, <2>1, <2>2, SettledKeeps, LeftKeeps
<1> QED BY <1>2, <1>3

\* What came back is within what was off-ramped and deposited and not acknowledged.
LEMMA MeasureReturnedKeeps ==
    ASSUME Inv, NEW t \in Tasks, measureReturned(t)
    PROVE  Inv'
<1>0. TypeOK /\ SettleInv /\ MoneyInv
  BY DEF Inv
<1>1. tasks[t].pc = "usdcAfter" /\ tasks[t].pc \in RedeemPC
  BY DEF measureReturned, At, RedeemPC
<1>2. tasks[t] \in WorkingTask /\ (~overlapped => TaskMeasures(tasks[t]))
  BY <1>0, <1>1, RedeemingIs
<1>3. Progress /\ MoneySame
  BY DEF measureReturned, Progress, MoneySame, vaultVars, money, world, history
<1> DEFINE returned == usdc - tasks[t].usdc
<1>4. SettleInv' /\ MoneyInv' /\ tasks' \in [Tasks -> TaskState] /\ MemoryOK'
  <2>1. CASE returned > 0
    <3>1. returned \in Nat
      BY <1>0, <1>2, <2>1, Numbers DEF WorkingTask
    <3>2. ~overlapped => returned <= offramped + received - acked
      BY <1>1, <1>2 DEF TaskMeasures
    <3>3. PICK a \in Nat : a = returned
      BY <3>1
    <3>4. Goto(t, [tasks[t] EXCEPT !.pc = "deployed", !.amount = a]) /\ UNCHANGED memory
      BY <2>1, <3>3 DEF measureReturned
    <3> HIDE DEF returned
    <3> QED BY <1>0, <1>1, <1>3, <3>2, <3>3, <3>4, LearnsOrEnds
  <2>2. CASE ~(returned > 0)
    <3>1. Settled(t)
      BY <2>2 DEF measureReturned
    <3>2. PICK m \in Markets : tasks[t].m = m
      BY <1>2 DEF WorkingTask
    <3>3. tasks[t].poll => Ended(m)'
      BY <1>0, <1>1, <1>3, <3>2, RedeemingEnded, EndedStable
    <3>4. tasks[t].pc \in WorkPC
      BY <1>1 DEF WorkPC
    <3> QED BY <1>0, <1>3, <3>1, <3>2, <3>3, <3>4, SettledKeeps, LeftKeeps
  <2> QED BY <2>1, <2>2
<1>5. TypeOK'
  BY <1>0, <1>4
     DEF measureReturned, TypeOK, TaskState, MemoryOK, vaultVars, money, world, bounds, history
<1> QED BY <1>4, <1>5 DEF Inv

\* The smaller of two numbers.
LEMMA MinOfTwo ==
    ASSUME NEW a \in Nat, NEW b \in Nat
    PROVE  Min({a, b}) \in Nat /\ Min({a, b}) <= a /\ Min({a, b}) <= b
<1>1. \E x \in {a, b} : \A y \in {a, b} : x <= y
  BY a <= b \/ b <= a
<1>2. Min({a, b}) \in {a, b} /\ \A y \in {a, b} : Min({a, b}) <= y
  BY <1>1 DEF Min
<1> QED BY <1>2

\* The clamp only lowers the amount.
LEMMA ReadDeployedKeeps ==
    ASSUME Inv, NEW t \in Tasks, readDeployed(t)
    PROVE  Inv'
<1>0. TypeOK /\ SettleInv /\ MoneyInv
  BY DEF Inv
<1>1. tasks[t].pc = "deployed" /\ tasks[t].pc \in RedeemPC
  BY DEF readDeployed, At, RedeemPC
<1>2. tasks[t] \in WorkingTask /\ (~overlapped => Balanced /\ TaskMeasures(tasks[t]))
  BY <1>0, <1>1, RedeemingIs
<1>3. Progress /\ MoneySame
  BY DEF readDeployed, Progress, MoneySame, vaultVars, money, world, history
<1>4. PICK a \in Nat : a = Min({tasks[t].amount, deployed}) /\ a <= tasks[t].amount
  BY <1>0, <1>2, MinOfTwo, Numbers DEF WorkingTask
<1>5. ~overlapped => a <= offramped + received - acked
  <2> SUFFICES ASSUME ~overlapped PROVE a <= offramped + received - acked
    OBVIOUS
  <2>1. tasks[t].amount <= offramped + received - acked /\ tasks[t].amount \in Nat
    BY <1>1, <1>2 DEF TaskMeasures, WorkingTask
  <2> QED BY <1>0, <1>4, <2>1, Numbers
<1>6. \/ Goto(t, [tasks[t] EXCEPT !.pc = "ack", !.amount = a]) /\ UNCHANGED memory
      \/ Settled(t)
  BY <1>4 DEF readDeployed
<1>7. SettleInv' /\ MoneyInv' /\ tasks' \in [Tasks -> TaskState] /\ MemoryOK'
  BY <1>0, <1>1, <1>3, <1>5, <1>6, LearnsOrEnds
<1>8. TypeOK'
  BY <1>0, <1>7
     DEF readDeployed, TypeOK, TaskState, MemoryOK, vaultVars, money, world, bounds, history
<1> QED BY <1>7, <1>8 DEF Inv

\* What is acknowledged came back.
LEMMA AcknowledgeKeeps ==
    ASSUME Inv, NEW t \in Tasks, acknowledge(t)
    PROVE  Inv'
<1>0. TypeOK /\ SettleInv /\ MoneyInv
  BY DEF Inv
<1>1. tasks[t].pc = "ack" /\ tasks[t].pc \in RedeemPC /\ tasks[t].pc \in WorkPC /\ Settled(t)
  BY DEF acknowledge, At, RedeemPC, WorkPC
<1>2. tasks[t] \in WorkingTask /\ (~overlapped => Balanced /\ TaskMeasures(tasks[t]))
  BY <1>0, <1>1, RedeemingIs
<1>3. PICK m \in Markets, a \in Nat : tasks[t].m = m /\ tasks[t].amount = a
  BY <1>2 DEF WorkingTask
<1>4. Progress /\ UNCHANGED <<overlapped, pusd, usdc, minted, paidIn, offramped, received>>
  BY DEF acknowledge, Progress, vaultVars, world
<1>5. tasks[t].poll => Ended(m)'
  BY <1>0, <1>1, <1>3, <1>4, RedeemingEnded, EndedStable
<1>6. SettleInv' /\ Leaves(t) /\ tasks' \in [Tasks -> TaskState] /\ MemoryOK'
  BY <1>0, <1>1, <1>3, <1>4, <1>5, SettledKeeps
<1>7. \/ a <= deployed /\ deployed' = deployed - a /\ acked' = acked + a
      \/ UNCHANGED <<deployed, acked>>
  BY <1>3 DEF acknowledge
<1>8. PICK x \in TaskState : Goto(t, x) /\ x.pc \notin WorkPC
  BY <1>6 DEF Leaves
<1>9. ~overlapped => Balanced' /\ TaskMeasures(x)'
  <2> SUFFICES ASSUME ~overlapped PROVE Balanced' /\ TaskMeasures(x)'
    OBVIOUS
  <2>1. Balanced /\ a <= offramped + received - acked
    BY <1>1, <1>2, <1>3 DEF TaskMeasures
  <2>2. Balanced'
    BY <1>0, <1>4, <1>7, <2>1, Numbers DEF Balanced
  <2> QED BY <1>8, <2>2 DEF TaskMeasures, WorkPC
<1>10. MoneyInv'
  BY <1>0, <1>1, <1>4, <1>8, <1>9, MoneyAlone
<1>11. failures' \in 0..MaxFailures
  BY <1>0, FailuresType DEF acknowledge, Fails
<1>12. {deployed', acked'} \subseteq Nat
  BY <1>0, <1>7, Numbers DEF TypeOK
<1>13. TypeOK'
  BY <1>0, <1>6, <1>11, <1>12 DEF acknowledge, TypeOK, TaskState, MemoryOK, vaultVars, world
<1> QED BY <1>6, <1>10, <1>13 DEF Inv

-----------------------------------------------------------------------------
(* The environment.                                                        *)

\* Timers, time and the registry move neither tasks nor money.
LEMMA TimersKeep ==
    ASSUME Inv,
           \/ refreshResolvedFromIndex \/ SeedAges
           \/ \E m \in Markets : \/ WaitEnds(m) \/ RegistrySync(m) \/ processBetEvent(m)
                                 \/ \E k \in Kinds : Finalize(m, k)
    PROVE  Inv'
<1>0. TypeOK /\ SettleInv /\ MoneyInv
  BY DEF Inv
<1>1. UNCHANGED <<tasks, resolvedAt, conditionIdOf, swallowed>> /\ MoneySame
  BY DEF refreshResolvedFromIndex, SeedAges, WaitEnds, RegistrySync, processBetEvent, Finalize,
         vaultVars, money, world, history, MoneySame
<1>2. Progress
  <2>1. ASSUME NEW m \in Markets, NEW k \in Kinds, Finalize(m, k)
        PROVE  \A n \in Markets : ctf[n] # "open" => ctf'[n] = ctf[n]
    BY <1>0, <2>1 DEF Finalize, TypeOK
  <2>2. UNCHANGED ctf \/ \A n \in Markets : ctf[n] # "open" => ctf'[n] = ctf[n]
    BY <2>1 DEF refreshResolvedFromIndex, SeedAges, WaitEnds, RegistrySync, processBetEvent,
                world
  <2> QED BY <1>1, <2>2 DEF Progress
<1>3. \A m \in resolvedMarkets' : m \in resolvedMarkets \/ Ended(m)'
  <2>1. resolvedMarkets' \subseteq resolvedMarkets \cup resolvedAt
    BY DEF refreshResolvedFromIndex, SeedAges, WaitEnds, RegistrySync, processBetEvent, Finalize,
           memory
  <2> QED BY <1>1, <2>1 DEF Ended, Settleable
<1>4. SettleInv'
  BY <1>0, <1>1, <1>2, <1>3, SettleIdle
<1>5. MoneyInv'
  <2>1. /\ {pusd', usdc', minted', paidIn', received'} \subseteq Nat
        /\ paidIn <= paidIn' /\ received <= received'
        /\ pusd' - pusd <= (minted' + paidIn') - (minted + paidIn)
        /\ minted + paidIn <= minted' + paidIn' /\ usdc' - usdc <= received' - received
    BY <1>0, <1>1, Numbers DEF MoneySame
  <2> QED BY <1>0, <1>1, <2>1, MoneyIdle DEF MoneySame
<1>6. TypeOK'
  <2>1. CASE refreshResolvedFromIndex
    BY <1>0, <2>1 DEF refreshResolvedFromIndex, TypeOK, vaultVars, money, world, bounds, history
  <2>2. CASE SeedAges
    BY <1>0, <2>2 DEF SeedAges, TypeOK, vaultVars, money, world, bounds, history
  <2>3. ASSUME NEW m \in Markets, WaitEnds(m) PROVE TypeOK'
    BY <1>0, <2>3 DEF WaitEnds, TypeOK, vaultVars, money, world, bounds, history
  <2>4. ASSUME NEW m \in Markets, RegistrySync(m) PROVE TypeOK'
    BY <1>0, <2>4 DEF RegistrySync, TypeOK, vaultVars, money, memory, bounds, history
  <2>5. ASSUME NEW m \in Markets, NEW k \in Kinds, Finalize(m, k) PROVE TypeOK'
    BY <1>0, <2>5 DEF Finalize, TypeOK, vaultVars, money, memory, bounds, history
  <2>6. ASSUME NEW m \in Markets, processBetEvent(m) PROVE TypeOK'
    <3>1. tracked' \in [Markets -> {"none", "reduced", "raw"}]
      BY <1>0, <2>6 DEF processBetEvent, TypeOK
    <3> QED BY <1>0, <2>6, <3>1 DEF processBetEvent, TypeOK, vaultVars, money, memory, bounds, history
  <2> QED BY <2>1, <2>2, <2>3, <2>4, <2>5, <2>6
<1> QED BY <1>4, <1>5, <1>6 DEF Inv

\* The reclaim script's acknowledgement moves nothing that the pipeline measures.
LEMMA ReclaimAckKeeps ==
    ASSUME Inv, reclaimAck
    PROVE  Inv'
<1>0. TypeOK /\ SettleInv /\ MoneyInv
  BY DEF Inv
<1>1. UNCHANGED <<tasks, resolvedMarkets>> /\ Progress /\ MoneySame
  BY DEF reclaimAck, Progress, MoneySame, vaultVars, memory, history
<1>2. SettleInv'
  BY <1>0, <1>1, SettleIdle
<1>3. MoneyInv'
  <2>1. /\ {pusd', usdc', minted', paidIn', received'} \subseteq Nat
        /\ paidIn <= paidIn' /\ received <= received'
        /\ pusd' - pusd <= (minted' + paidIn') - (minted + paidIn)
        /\ minted + paidIn <= minted' + paidIn' /\ usdc' - usdc <= received' - received
    BY <1>0, <1>1, Numbers DEF MoneySame
  <2> QED BY <1>0, <1>1, <2>1, MoneyIdle DEF MoneySame
<1>4. deployed' \in Nat
  <2>1. reclaimed \in Nat /\ deployed \in Nat
    BY <1>0 DEF TypeOK
  <2>2. PICK a \in Nat : a = Min({reclaimed, deployed}) /\ a <= deployed
    BY <2>1, MinOfTwo
  <2>3. deployed' = deployed - a
    BY <2>2 DEF reclaimAck
  <2> QED BY <2>1, <2>2, <2>3
<1>5. TypeOK'
  BY <1>0, <1>4 DEF reclaimAck, TypeOK, vaultVars, memory, bounds, history
<1> QED BY <1>2, <1>3, <1>5 DEF Inv

\* A restart forgets what was found and what was measured.
LEMMA RestartKeeps ==
    ASSUME Inv, Restart
    PROVE  Inv'
<1>0. TypeOK /\ SettleInv /\ MoneyInv
  BY DEF Inv
<1>1. /\ tasks' = [t \in Tasks |-> Idle] /\ resolvedMarkets' = {}
      /\ UNCHANGED <<overlapped, pusd, usdc, minted, paidIn, offramped, received, acked>>
  BY DEF Restart, vaultVars, money, history
<1>2. \A t \in Tasks : tasks'[t].pc = "idle"
  BY <1>1 DEF Idle
<1>3. SettleInv'
  <2>1. \A t \in Tasks : TaskSettles(tasks[t])'
    BY <1>2 DEF TaskSettles, WorkPC
  <2> QED BY <1>1, <2>1 DEF SettleInv, SkippedIsSettled
<1>4. MoneyInv'
  <2>1. (\A t \in Tasks : TaskMeasures(tasks[t]))' /\ Alone'
    BY <1>2 DEF TaskMeasures, Alone, RedeemPC
  <2>2. ~overlapped => Balanced'
    BY <1>0, <1>1 DEF MoneyInv, Balanced
  <2> QED BY <1>1, <2>1, <2>2 DEF MoneyInv, Balanced
<1>5. TypeOK'
  <2>1. tasks' \in [Tasks -> {Idle} \cup ReadingTask \cup WorkingTask]
    BY <1>1
  <2>2. tracked' \in [Markets -> {"none", "reduced", "raw"}]
    BY <1>0 DEF Restart, TypeOK
  <2>3. restarts' \in 0..MaxRestarts
    BY <1>0, SettlementAssumption DEF Restart, TypeOK
  <2>4. waiting' \subseteq Markets /\ resolvedMarkets' \subseteq Markets
        /\ seedFresh' \in BOOLEAN
    BY <1>0 DEF Restart, TypeOK
  <2> QED BY <1>0, <2>1, <2>2, <2>3, <2>4 DEF Restart, TypeOK, vaultVars, money, history
<1> QED BY <1>3, <1>4, <1>5 DEF Inv

\* A late batch mints what it brings to the wallet.
LEMMA LateRedeemKeeps ==
    ASSUME Inv, NEW m \in Markets, LateRedeem(m)
    PROVE  Inv'
<1>0. TypeOK /\ SettleInv /\ MoneyInv
  BY DEF Inv
<1>1. /\ UNCHANGED <<tasks, resolvedMarkets, overlapped, usdc, paidIn, offramped, received, acked>>
      /\ Progress
  BY DEF LateRedeem, Progress, vaultVars, world, memory
<1>2. PICK n \in Nat : pusd' = pusd + n /\ minted' = minted + n
  BY <1>0, RedeemMints DEF LateRedeem
<1>3. SettleInv'
  BY <1>0, <1>1, SettleIdle
<1>4. MoneyInv'
  <2>1. /\ {pusd', usdc', minted', paidIn', received'} \subseteq Nat
        /\ paidIn <= paidIn' /\ received <= received'
        /\ pusd' - pusd <= (minted' + paidIn') - (minted + paidIn)
        /\ minted + paidIn <= minted' + paidIn' /\ usdc' - usdc <= received' - received
    BY <1>0, <1>1, <1>2, Numbers
  <2> QED BY <1>0, <1>1, <2>1, MoneyIdle
<1>5. {pusd', minted'} \subseteq Nat
  BY <1>0, <1>2, Numbers
<1>6. {shares', late'} \subseteq SUBSET Markets
  BY <1>0 DEF LateRedeem, Redeem, TypeOK
<1>7. TypeOK'
  BY <1>0, <1>5, <1>6 DEF LateRedeem, TypeOK, vaultVars, world, memory, bounds
<1> QED BY <1>3, <1>4, <1>7 DEF Inv

\* What users, funding, sales and the reclaim script bring is counted, and what is
\* taken is not measured.
LEMMA OthersKeep ==
    ASSUME Inv, Others
    PROVE  Inv'
<1>0. TypeOK /\ SettleInv /\ MoneyInv
  BY DEF Inv
<1>1. UNCHANGED <<tasks, resolvedMarkets, overlapped, minted, offramped, acked>> /\ Progress
  BY DEF Others, Progress, vaultVars, world, memory
<1>2. /\ {pusd', usdc', paidIn', received', deployed'} \subseteq Nat
      /\ paidIn <= paidIn' /\ received <= received'
      /\ pusd' - pusd <= paidIn' - paidIn /\ usdc' - usdc <= received' - received
  <2>1. CASE deposit
    BY <1>0, <2>1, Numbers DEF deposit
  <2>2. CASE withdraw
    BY <1>0, <2>2, Numbers DEF withdraw
  <2>3. CASE fundOnce
    BY <1>0, <2>3, Numbers DEF fundOnce
  <2>4. CASE reclaimSweep
    BY <1>0, <2>4, Numbers DEF reclaimSweep
  <2>5. ASSUME NEW m \in Markets, orderFills(m)
        PROVE  /\ {pusd', usdc', paidIn', received', deployed'} \subseteq Nat
               /\ paidIn <= paidIn' /\ received <= received'
               /\ pusd' - pusd <= paidIn' - paidIn /\ usdc' - usdc <= received' - received
    BY <1>0, <2>5, Numbers DEF orderFills
  <2> QED BY <2>1, <2>2, <2>3, <2>4, <2>5 DEF Others
<1>3. SettleInv'
  BY <1>0, <1>1, SettleIdle
<1>4. MoneyInv'
  <2>1. /\ pusd' - pusd <= (minted' + paidIn') - (minted + paidIn)
        /\ minted + paidIn <= minted' + paidIn'
        /\ {pusd', usdc', minted', paidIn', received'} \subseteq Nat
    BY <1>0, <1>1, <1>2, Numbers
  <2> QED BY <1>0, <1>1, <1>2, <2>1, MoneyIdle
<1>5. moves' \in 0..MaxMoves
  BY <1>0, SettlementAssumption DEF Others, TypeOK
<1>6. shares' \subseteq Markets /\ reclaimed' \in Nat
  BY <1>0 DEF Others, deposit, withdraw, fundOnce, reclaimSweep, orderFills, TypeOK
<1>7. TypeOK'
  BY <1>0, <1>2, <1>5, <1>6 DEF Others, TypeOK, vaultVars, memory
<1> QED BY <1>3, <1>4, <1>7 DEF Inv

-----------------------------------------------------------------------------
(* The theorems.                                                           *)

\* The invariant holds before the first tick.
LEMMA InitInv == Init => Inv
<1> SUFFICES ASSUME Init PROVE Inv
  OBVIOUS
<1>1. \A t \in Tasks : tasks[t].pc = "idle"
  BY DEF Init, Idle
<1>2. SettleInv
  BY <1>1 DEF Init, SettleInv, SkippedIsSettled, TaskSettles, WorkPC
<1>3. MoneyInv
  BY <1>1 DEF Init, MoneyInv, Alone, TaskMeasures, RedeemPC
<1>4. Cardinality(Markets) \in Nat
  BY SettlementAssumption, FS_CardinalityType
<1>5. {pusd, usdc, deployed} \subseteq Nat
  BY <1>4, SettlementAssumption DEF Init
<1>6. /\ ctf \in [Markets -> {"open"} \cup Kinds]
      /\ tracked \in [Markets -> {"none", "reduced", "raw"}]
      /\ tasks \in [Tasks -> {Idle} \cup ReadingTask \cup WorkingTask]
  BY DEF Init
<1>7. 0 \in 0..MaxMoves /\ 0 \in 0..MaxFailures /\ 0 \in 0..MaxRestarts
  BY SettlementAssumption
<1>8. TypeOK
  BY <1>5, <1>6, <1>7 DEF Init, TypeOK
<1> QED BY <1>2, <1>3, <1>8 DEF Inv

\* The invariant is kept by every step.
LEMMA NextInv == Inv /\ [Next]_vars => Inv'
<1> SUFFICES ASSUME Inv, [Next]_vars PROVE Inv'
  OBVIOUS
<1>1. ASSUME NEW t \in Tasks, Task(t) PROVE Inv'
  BY <1>1, TickKeeps, TickResolvedAtKeeps, TickDenominatorsKeeps, TickNextKeeps, TickThrowsKeeps,
     HandleResolutionKeeps, RegisterConditionKeeps, CheckResolvedKeeps, ResolveMarketKeeps,
     ReadVaultUsdcKeeps, ReadPusdKeeps, RedeemViaExecutorKeeps, MeasureRedeemedKeeps,
     OfframpKeeps, MeasureReturnedKeeps, ReadDeployedKeeps, AcknowledgeKeeps DEF Task
<1>2. ASSUME NEW t \in Tasks, NEW m \in Markets, resolveMarketManually(t, m) PROVE Inv'
  BY <1>2, ManualKeeps
<1>3. CASE Environment
  BY <1>3, TimersKeep, RestartKeeps, LateRedeemKeeps, OthersKeep, ReclaimAckKeeps DEF Environment
<1>4. CASE UNCHANGED vars
  BY <1>4 DEF vars, vaultVars, money, world, memory, bounds, history, Inv, TypeOK,
              SettleInv, SkippedIsSettled, Settleable, TaskSettles,
              MoneyInv, Alone, TaskMeasures
<1> QED BY <1>1, <1>2, <1>3, <1>4 DEF Next

\* The variables keep their types: no balance and no count becomes negative, and a
\* task is always at one of the pipeline's awaits.
THEOREM TypeCorrect == Spec => []TypeOK
<1>1. Inv => TypeOK
  BY DEF Inv
<1> QED BY <1>1, InitInv, NextInv, PTL DEF Spec

\* A market in resolvedMarkets, which no tick looks at again, can be settled or
\* refunded on chain, or its turn met one of the errors that the code only logs: for
\* every number of markets, overlapping ticks and manual resolutions and restarts.
THEOREM SkippedMarketsSettled == Spec => []SkippedIsSettled
<1>1. Inv => SkippedIsSettled
  BY DEF Inv, SettleInv
<1> QED BY <1>1, InitInv, NextInv, PTL DEF Spec

\* As long as no two redemptions measure at once, the off-ramp takes from the deposit
\* wallet no more than redemptions minted, funding topped up and SELLs brought, in
\* whatever order the top-ups, sales, sweeps and late batches come between its reads.
THEOREM BufferStays == Spec => []BufferUntouched
<1>1. Inv => BufferUntouched
  BY DEF Inv, MoneyInv, BufferUntouched
<1> QED BY <1>1, InitInv, NextInv, PTL DEF Spec

\* Under the same condition the pipeline never takes more off deployedToPolymarket
\* than it off-ramped, users deposited and the reclaim script swept to the Vault.
THEOREM AcknowledgedCameBack == Spec => []AcknowledgedReturned
<1>1. Inv => AcknowledgedReturned
  BY DEF Inv, MoneyInv, AcknowledgedReturned
<1> QED BY <1>1, InitInv, NextInv, PTL DEF Spec

==============================================================================
