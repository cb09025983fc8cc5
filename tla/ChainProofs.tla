---------------------------- MODULE ChainProofs -----------------------------
(***************************************************************************)
(* Theorems about what the Vault publishes and what follows it.            *)
(*                                                                         *)
(* The tree (CommitmentMerkleTree), for every size of the window, depth and *)
(* number of inserts: the ring holds the last ROOT_WINDOW roots, each in   *)
(* the slot of its sequence number, so the root it gives up is always the  *)
(* oldest; and the left node the frontier keeps at each level is that of   *)
(* the whole tree, so each root is that of the leaves, and the roots differ. *)
(*                                                                         *)
(* Its followers (EventFeed), for any number of blocks, windows, faults and *)
(* restarts.  Every bet at or below the index's last block has its row, or *)
(* is one the index will never have: a reorganisation that reaches below   *)
(* that block is deeper than CONFIRMATIONS.  A scan of the index therefore  *)
(* misses no bet, nor does one of the chain, in the blocks that are        *)
(* SAFETY_BUFFER below its head, which no reorganisation can replace.      *)
(* The relay's table has the leaves after a settled block, one that is     *)
(* CONFIRMATIONS below the head: a leaf is saved only when the tree with   *)
(* it has a root that the contract had.  A cache in use has what the table *)
(* has, so a path from it is of a root of the chain; and so is one computed *)
(* from logs without a hole, since blocks with leaves are numbered by them. *)
(***************************************************************************)
EXTENDS CommitmentMerkleTree, EventFeed, SequenceTheorems, WellFoundedInduction,
        NaturalsInduction, TLAPS

\* Slots are numbered by the sequence number modulo the size of the window.
RingOK ==
    /\ rootCount \in Nat \ {0}
    /\ DOMAIN rootRing = 0..(ROOT_WINDOW - 1)
    /\ \A s \in InWindow : rootRing[s % ROOT_WINDOW] = roots[s]

WindowInv == RingOK /\ StaleRootsForgotten

-----------------------------------------------------------------------------
(* Arithmetic: two numbers less than w apart have different remainders.    *)

\* A natural is its quotient and its remainder.
LEMMA DivMod ==
    ASSUME NEW w \in Nat \ {0}, NEW s \in Nat
    PROVE  /\ s = (w * (s \div w)) + (s % w)
           /\ s \div w \in Int /\ s % w \in 0..(w - 1)
OBVIOUS

\* No multiple of w is strictly between one and the next.
LEMMA NoMultipleBetween ==
    ASSUME NEW w \in Nat \ {0}, NEW a \in Int, NEW b \in Int,
           w * a < w * b, w * b < w * a + w
    PROVE  FALSE
<1>1. CASE b >= a + 1
  <2>1. w * b >= w * (a + 1)
    BY <1>1
  <2> QED BY <2>1
<1>2. CASE b <= a
  <2>1. w * b <= w * a
    BY <1>2
  <2> QED BY <2>1
<1> QED BY <1>1, <1>2

\* Of two numbers less than w apart, each has a slot of its own.
LEMMA SlotsDiffer ==
    ASSUME NEW w \in Nat \ {0}, NEW s \in Nat, NEW t \in Nat, s < t, t - s < w
    PROVE  s % w # t % w
<1> SUFFICES ASSUME s % w = t % w PROVE FALSE
  OBVIOUS
<1> DEFINE a == s \div w  b == t \div w
<1>1. /\ s = (w * a) + (s % w) /\ a \in Int
      /\ t = (w * b) + (t % w) /\ b \in Int
      /\ s % w \in Int
  BY DivMod
<1> HIDE DEF a, b
<1>2. w * a < w * b /\ w * b < w * a + w
  BY <1>1
<1> QED BY <1>1, <1>2, NoMultipleBetween

\* Numbers exactly w apart share a slot.
LEMMA SlotRepeats ==
    ASSUME NEW w \in Nat \ {0}, NEW s \in Nat
    PROVE  (s + w) % w = s % w
<1> DEFINE t == s + w  a == s \div w  b == t \div w
<1>0. t \in Nat /\ t = s + w
  OBVIOUS
<1> HIDE DEF t
<1>1. /\ s = (w * a) + (s % w) /\ a \in Int /\ s % w \in 0..(w - 1)
      /\ t = (w * b) + (t % w) /\ b \in Int /\ t % w \in 0..(w - 1)
  BY <1>0, DivMod
<1> HIDE DEF a, b
<1>2. w * (a + 1) = w * a + w /\ a + 1 \in Int
  BY <1>1
<1>3. b = a + 1
  <2>1. ASSUME b < a + 1 PROVE FALSE
    <3>1. w * b <= w * a
      BY <1>1, <2>1
    <3> QED BY <1>0, <1>1, <3>1
  <2>2. ASSUME b > a + 1 PROVE FALSE
    <3>1. w * b >= w * (a + 1 + 1)
      BY <1>1, <2>2
    <3>2. w * (a + 1 + 1) = w * a + w + w
      BY <1>1
    <3> QED BY <1>0, <1>1, <3>1, <3>2
  <2> QED BY <1>1, <2>1, <2>2
<1> QED BY <1>0, <1>1, <1>2, <1>3 DEF t

-----------------------------------------------------------------------------
\* The seed root is the only one, in slot 0.
LEMMA InitWindow == TreeInit => WindowInv /\ RecentRootsKnown
<1> SUFFICES ASSUME TreeInit PROVE WindowInv /\ RecentRootsKnown
  OBVIOUS
<1>1. InWindow = {0}
  BY WindowAssumption DEF TreeInit, InWindow
<1>2. 0 % ROOT_WINDOW = 0
  BY WindowAssumption
<1>3. RingOK
  BY <1>1, <1>2, WindowAssumption DEF TreeInit, RingOK
<1> QED
  BY <1>1, <1>3 DEF TreeInit, WindowInv, StaleRootsForgotten, RecentRootsKnown

\* What an insert does to the ring, to the window and to the history.
LEMMA Roll ==
    ASSUME RingOK, NEW newRoot, RollWindow(newRoot)
    PROVE  /\ RingOK'
           /\ InWindow' = {s \in InWindow : s >= rootCount + 1 - ROOT_WINDOW} \cup {rootCount}
           /\ roots'[rootCount] = newRoot
           /\ \A s \in 0..(rootCount - 1) : roots'[s] = roots[s]
<1> USE WindowAssumption DEF RollWindow
<1>1. rootCount \in Nat \ {0} /\ rootCount' = rootCount + 1
  BY DEF RingOK
<1>2. InWindow' = {s \in InWindow : s >= rootCount + 1 - ROOT_WINDOW} \cup {rootCount}
  BY <1>1 DEF InWindow
<1>3. roots'[rootCount] = newRoot /\ \A s \in 0..(rootCount - 1) : roots'[s] = roots[s]
  BY <1>1
<1>4. rootCount % ROOT_WINDOW \in 0..(ROOT_WINDOW - 1)
  BY <1>1, DivMod
<1>5. DOMAIN rootRing' = 0..(ROOT_WINDOW - 1)
  BY DEF RingOK
<1>6. ASSUME NEW s \in InWindow' PROVE rootRing'[s % ROOT_WINDOW] = roots'[s]
  <2>1. CASE s = rootCount
    <3>1. rootRing'[rootCount % ROOT_WINDOW] = newRoot
      <4> DEFINE slot == rootCount % ROOT_WINDOW
      <4>1. slot \in DOMAIN rootRing /\ rootRing' = [rootRing EXCEPT ![slot] = newRoot]
        BY <1>4 DEF RingOK
      <4> HIDE DEF slot
      <4>2. rootRing'[slot] = newRoot
        BY <4>1
      <4> QED BY <4>2 DEF slot
    <3>2. roots'[s] = newRoot /\ s % ROOT_WINDOW = rootCount % ROOT_WINDOW
      BY <1>3, <2>1, Zenon
    <3> QED BY <3>1, <3>2, Zenon
  <2>2. CASE s # rootCount
    <3>1. s \in InWindow /\ s \in 0..(rootCount - 1) /\ rootCount - s < ROOT_WINDOW
      BY <1>1, <1>2, <2>2 DEF InWindow
    <3>2. s \in Nat /\ rootCount \in Nat /\ s < rootCount /\ ROOT_WINDOW \in Nat \ {0}
      BY <1>1, <3>1
    <3>3. s % ROOT_WINDOW # rootCount % ROOT_WINDOW
      BY <3>1, <3>2, SlotsDiffer, Zenon
    <3>4. s % ROOT_WINDOW \in 0..(ROOT_WINDOW - 1)
      BY <3>2, DivMod, Zenon
    <3>5. rootRing'[s % ROOT_WINDOW] = rootRing[s % ROOT_WINDOW]
      BY <3>3, <3>4, Zenon DEF RingOK
    <3> QED BY <1>3, <3>1, <3>5, Zenon DEF RingOK
  <2> QED BY <2>1, <2>2
<1> QED BY <1>1, <1>2, <1>3, <1>5, <1>6 DEF RingOK

\* A full window gives up its oldest root.
LEMMA EvictedIsOldest ==
    ASSUME RingOK, rootCount >= ROOT_WINDOW
    PROVE  /\ rootCount - ROOT_WINDOW \in InWindow
           /\ rootRing[rootCount % ROOT_WINDOW] = roots[rootCount - ROOT_WINDOW]
<1> DEFINE old == rootCount - ROOT_WINDOW
<1>1. old \in Nat /\ old \in InWindow /\ old + ROOT_WINDOW = rootCount
  BY WindowAssumption DEF RingOK, InWindow
<1>2. rootCount % ROOT_WINDOW = old % ROOT_WINDOW
  BY <1>1, WindowAssumption, SlotRepeats
<1> QED BY <1>1, <1>2 DEF RingOK

\* An insert forgets the root that leaves the window.
LEMMA NextWindow == WindowInv /\ [TreeNext]_treeVars => WindowInv'
<1> SUFFICES ASSUME WindowInv, [TreeNext]_treeVars PROVE WindowInv'
  OBVIOUS
<1>1. CASE UNCHANGED treeVars
  BY <1>1 DEF treeVars, WindowInv, RingOK, StaleRootsForgotten, InWindow
<1>2. ASSUME NEW c \in Commitments, insert(c) PROVE WindowInv'
  <2> DEFINE newRoot == Path(c)[TREE_DEPTH]
  <2>1. RollWindow(newRoot)
    BY <1>2 DEF insert
  <2> HIDE DEF newRoot
  <2>2. /\ RingOK'
        /\ InWindow' = {s \in InWindow : s >= rootCount + 1 - ROOT_WINDOW} \cup {rootCount}
        /\ roots'[rootCount] = newRoot
        /\ \A s \in 0..(rootCount - 1) : roots'[s] = roots[s]
    BY <2>1, Roll DEF WindowInv
  <2>3. ASSUME NEW r \in knownRoots' PROVE \E s \in InWindow' : roots'[s] = r
    <3>1. CASE r = newRoot
      BY <2>2, <3>1
    <3>2. CASE r # newRoot
      <4>1. r \in knownRoots /\ r \notin Evicted(newRoot)
        BY <2>1, <3>2 DEF RollWindow
      <4>2. PICK s \in InWindow : roots[s] = r
        BY <4>1 DEF WindowInv, StaleRootsForgotten
      <4>3. s # rootCount - ROOT_WINDOW
        <5> SUFFICES ASSUME s = rootCount - ROOT_WINDOW PROVE FALSE
          OBVIOUS
        <5>1. rootCount >= ROOT_WINDOW
          BY WindowAssumption DEF InWindow, WindowInv, RingOK
        <5>2. rootRing[rootCount % ROOT_WINDOW] = r
          BY <4>2, <5>1, EvictedIsOldest DEF WindowInv
        <5> QED BY <3>2, <4>1, <5>1, <5>2 DEF Evicted
      <4>4. s \in 0..(rootCount - 1) /\ s >= rootCount + 1 - ROOT_WINDOW
        BY <4>3, WindowAssumption DEF InWindow, WindowInv, RingOK
      <4> QED BY <2>2, <4>2, <4>4
    <3> QED BY <3>1, <3>2
  <2> QED BY <2>2, <2>3 DEF WindowInv, StaleRootsForgotten
<1> QED BY <1>1, <1>2 DEF TreeNext

\* isKnownRoot never accepts a root older than the last ROOT_WINDOW inserts, for
\* every window, every depth and every sequence of inserts.
THEOREM StaleRootsAreForgotten == TreeSpec => []StaleRootsForgotten
<1>1. WindowInv => StaleRootsForgotten
  BY DEF WindowInv
<1> QED BY <1>1, InitWindow, NextWindow, PTL DEF TreeSpec

\* While the roots differ, an insert gives up no root but the one that leaves the
\* window.
LEMMA NextRecent ==
    WindowInv /\ RecentRootsKnown /\ RootsDiffer /\ [TreeNext]_treeVars => RecentRootsKnown'
<1> SUFFICES ASSUME WindowInv, RecentRootsKnown, RootsDiffer, [TreeNext]_treeVars PROVE RecentRootsKnown'
  OBVIOUS
<1>1. CASE UNCHANGED treeVars
  BY <1>1 DEF treeVars, RecentRootsKnown, InWindow
<1>2. ASSUME NEW c \in Commitments, insert(c) PROVE RecentRootsKnown'
  <2> DEFINE newRoot == Path(c)[TREE_DEPTH]
  <2>1. RollWindow(newRoot)
    BY <1>2 DEF insert
  <2> HIDE DEF newRoot
  <2>2. /\ InWindow' = {s \in InWindow : s >= rootCount + 1 - ROOT_WINDOW} \cup {rootCount}
        /\ roots'[rootCount] = newRoot
        /\ \A s \in 0..(rootCount - 1) : roots'[s] = roots[s]
    BY <2>1, Roll DEF WindowInv
  <2>3. ASSUME NEW s \in InWindow' PROVE roots'[s] \in knownRoots'
    <3>1. CASE s = rootCount
      BY <2>1, <2>2, <3>1 DEF RollWindow
    <3>2. CASE s # rootCount
      <4>1. s \in InWindow /\ s \in 0..(rootCount - 1) /\ s # rootCount - ROOT_WINDOW
        BY <2>2, <3>2, WindowAssumption DEF InWindow, WindowInv, RingOK
      <4>2. roots'[s] = roots[s] /\ roots[s] \in knownRoots
        BY <2>2, <4>1 DEF RecentRootsKnown
      <4>3. roots[s] \notin Evicted(newRoot)
        <5> SUFFICES ASSUME rootCount >= ROOT_WINDOW, roots[s] = rootRing[rootCount % ROOT_WINDOW]
                     PROVE  FALSE
          BY DEF Evicted
        <5>1. roots[s] = roots[rootCount - ROOT_WINDOW] /\ rootCount - ROOT_WINDOW \in InWindow
          BY EvictedIsOldest DEF WindowInv
        <5> QED BY <4>1, <5>1 DEF RootsDiffer, InWindow
      <4> QED BY <2>1, <4>2, <4>3 DEF RollWindow
    <3> QED BY <3>1, <3>2
  <2> QED BY <2>3 DEF RecentRootsKnown
<1> QED BY <1>1, <1>2 DEF TreeNext

-----------------------------------------------------------------------------
(* Induction over levels, and the recursive definitions.                   *)

\* A set of naturals that holds 0 and each successor of a member holds them all.
LEMMA Induct ==
    ASSUME NEW T, 0 \in T, \A n \in Nat : n \in T => n + 1 \in T
    PROVE  \A n \in Nat : n \in T
<1> SUFFICES ASSUME NEW c \in Nat, c \notin T PROVE FALSE
  OBVIOUS
<1> DEFINE R == {ss \in Nat \X Nat : ss[1] < ss[2]}
           U == {n \in Nat : n \notin T}
<1>1. IsWellFoundedOn(R, Nat)
  BY NatLessThanWellFounded DEF OpToRel
<1>2. U \in SUBSET Nat /\ U # {}
  OBVIOUS
<1>3. PICK n \in U : \A m \in U : ~(<<m, n>> \in R)
  BY <1>1, <1>2, WFMin
<1>4. n \in Nat /\ n # 0 /\ n \notin T
  OBVIOUS
<1>5. n - 1 \in Nat /\ n - 1 < n /\ (n - 1) + 1 = n
  BY <1>4
<1>6. n - 1 \in T
  BY <1>3, <1>5
<1> QED BY <1>4, <1>5, <1>6

\* zeros is what its definition says.
LEMMA ZerosIs ==
    /\ zeros[0] = Zero
    /\ \A i \in Nat : i + 1 <= TREE_DEPTH => zeros[i + 1] = Hash(zeros[i], zeros[i])
<1> DEFINE Fits(n, f) == f = [i \in 0..n |-> IF i = 0 THEN Zero ELSE Hash(f[i - 1], f[i - 1])]
           T == {n \in Nat : \E f : Fits(n, f)}
<1>1. 0 \in T
  <2>1. Fits(0, [i \in 0..0 |-> Zero])
    OBVIOUS
  <2> QED BY <2>1
<1>2. ASSUME NEW n \in Nat, n \in T PROVE n + 1 \in T
  <2>1. PICK f : Fits(n, f)
    BY <1>2
  <2> DEFINE g == [i \in 0..(n + 1) |-> IF i <= n THEN f[i] ELSE Hash(f[n], f[n])]
  <2>2. ASSUME NEW i \in 0..(n + 1)
        PROVE  g[i] = IF i = 0 THEN Zero ELSE Hash(g[i - 1], g[i - 1])
    <3>1. CASE i = 0
      BY <2>1, <3>1
    <3>2. CASE i # 0 /\ i <= n
      BY <2>1, <3>2
    <3>3. CASE i = n + 1
      BY <3>3
    <3> QED BY <3>1, <3>2, <3>3
  <2>3. g = [i \in 0..(n + 1) |-> g[i]]
    OBVIOUS
  <2> HIDE DEF g
  <2>4. Fits(n + 1, g)
    BY <2>2, <2>3
  <2> HIDE DEF Fits
  <2> QED BY <2>4
<1> HIDE DEF T
<1>3. TREE_DEPTH \in T
  BY <1>1, <1>2, Induct, DepthAssumption
<1> USE DEF T
<1>4. PICK g : Fits(TREE_DEPTH, g)
  BY <1>3
<1>5. zeros = CHOOSE f : Fits(TREE_DEPTH, f)
  BY DEF zeros
<1>6. Fits(TREE_DEPTH, zeros)
  BY <1>4, <1>5
<1> QED BY <1>6, DepthAssumption

\* So is idx.
LEMMA IdxIs ==
    ASSUME NEW pos
    PROVE  /\ Idx(pos)[0] = pos
           /\ \A i \in Nat : i + 1 <= TREE_DEPTH => Idx(pos)[i + 1] = Idx(pos)[i] \div 2
<1> DEFINE Fits(n, f) == f = [i \in 0..n |-> IF i = 0 THEN pos ELSE f[i - 1] \div 2]
           T == {n \in Nat : \E f : Fits(n, f)}
<1>1. 0 \in T
  <2>1. Fits(0, [i \in 0..0 |-> pos])
    OBVIOUS
  <2> QED BY <2>1
<1>2. ASSUME NEW n \in Nat, n \in T PROVE n + 1 \in T
  <2>1. PICK f : Fits(n, f)
    BY <1>2
  <2> DEFINE g == [i \in 0..(n + 1) |-> IF i <= n THEN f[i] ELSE f[n] \div 2]
  <2>2. ASSUME NEW i \in 0..(n + 1)
        PROVE  g[i] = IF i = 0 THEN pos ELSE g[i - 1] \div 2
    <3>1. CASE i = 0
      BY <2>1, <3>1
    <3>2. CASE i # 0 /\ i <= n
      BY <2>1, <3>2
    <3>3. CASE i = n + 1
      <4>1. i - 1 = n /\ n \in 0..(n + 1) /\ n <= n /\ i # 0 /\ ~(i <= n)
        BY <3>3
      <4>2. g[n] = f[n] /\ g[i] = f[n] \div 2
        BY <4>1
      <4> HIDE DEF g
      <4> QED BY <4>1, <4>2
    <3> QED BY <3>1, <3>2, <3>3
  <2>3. g = [i \in 0..(n + 1) |-> g[i]]
    OBVIOUS
  <2> HIDE DEF g
  <2>4. Fits(n + 1, g)
    BY <2>2, <2>3
  <2> HIDE DEF Fits
  <2> QED BY <2>4
<1> HIDE DEF T
<1>3. TREE_DEPTH \in T
  BY <1>1, <1>2, Induct, DepthAssumption
<1> USE DEF T
<1>4. PICK g : Fits(TREE_DEPTH, g)
  BY <1>3
<1>5. Idx(pos) = CHOOSE f : Fits(TREE_DEPTH, f)
  BY DEF Idx
<1>6. Fits(TREE_DEPTH, Idx(pos))
  BY <1>4, <1>5
<1> HIDE DEF Fits
<1>7. PICK f : f = Idx(pos) /\ Fits(TREE_DEPTH, f)
  BY <1>6
<1>8. f[0] = pos
  BY <1>7, DepthAssumption DEF Fits
<1>9. ASSUME NEW i \in Nat, i + 1 <= TREE_DEPTH
      PROVE  f[i + 1] = f[i] \div 2
  <2>1. i + 1 \in 0..TREE_DEPTH /\ i + 1 # 0 /\ (i + 1) - 1 = i
    BY <1>9, DepthAssumption
  <2> QED BY <1>7, <2>1 DEF Fits
<1> QED BY <1>7, <1>8, <1>9

\* So is Shifted.
LEMMA ShiftedIs ==
    ASSUME TRUE
    PROVE  /\ Shifted[0] = 1
           /\ \A i \in Nat : i + 1 <= TREE_DEPTH => Shifted[i + 1] = 2 * Shifted[i]
<1> DEFINE Fits(n, f) == f = [i \in 0..n |-> IF i = 0 THEN 1 ELSE 2 * f[i - 1]]
           T == {n \in Nat : \E f : Fits(n, f)}
<1>1. 0 \in T
  <2>1. Fits(0, [i \in 0..0 |-> 1])
    OBVIOUS
  <2> QED BY <2>1
<1>2. ASSUME NEW n \in Nat, n \in T PROVE n + 1 \in T
  <2>1. PICK f : Fits(n, f)
    BY <1>2
  <2> DEFINE g == [i \in 0..(n + 1) |-> IF i <= n THEN f[i] ELSE 2 * f[n]]
  <2>2. ASSUME NEW i \in 0..(n + 1)
        PROVE  g[i] = IF i = 0 THEN 1 ELSE 2 * g[i - 1]
    <3>1. CASE i = 0
      BY <2>1, <3>1
    <3>2. CASE i # 0 /\ i <= n
      BY <2>1, <3>2
    <3>3. CASE i = n + 1
      <4>1. i - 1 = n /\ n \in 0..(n + 1) /\ n <= n /\ i # 0 /\ ~(i <= n)
        BY <3>3
      <4>2. g[n] = f[n] /\ g[i] = 2 * f[n]
        BY <4>1
      <4> HIDE DEF g
      <4> QED BY <4>1, <4>2
    <3> QED BY <3>1, <3>2, <3>3
  <2>3. g = [i \in 0..(n + 1) |-> g[i]]
    OBVIOUS
  <2> HIDE DEF g
  <2>4. Fits(n + 1, g)
    BY <2>2, <2>3
  <2> HIDE DEF Fits
  <2> QED BY <2>4
<1> HIDE DEF T
<1>3. TREE_DEPTH \in T
  BY <1>1, <1>2, Induct, DepthAssumption
<1> USE DEF T
<1>4. PICK g : Fits(TREE_DEPTH, g)
  BY <1>3
<1>5. Shifted = CHOOSE f : Fits(TREE_DEPTH, f)
  BY DEF Shifted
<1>6. Fits(TREE_DEPTH, Shifted)
  BY <1>4, <1>5
<1> HIDE DEF Fits
<1>7. PICK f : f = Shifted /\ Fits(TREE_DEPTH, f)
  BY <1>6
<1>8. f[0] = 1
  BY <1>7, DepthAssumption DEF Fits
<1>9. ASSUME NEW i \in Nat, i + 1 <= TREE_DEPTH
      PROVE  f[i + 1] = 2 * f[i]
  <2>1. i + 1 \in 0..TREE_DEPTH /\ i + 1 # 0 /\ (i + 1) - 1 = i
    BY <1>9, DepthAssumption
  <2> QED BY <1>7, <2>1 DEF Fits
<1> QED BY <1>7, <1>8, <1>9

\* So is the path of a new leaf.
LEMMA PathIs ==
    ASSUME NEW c
    PROVE  /\ Path(c)[0] = c
           /\ \A i \in Nat : i + 1 <= TREE_DEPTH =>
                 Path(c)[i + 1] = IF IsLeft(nextIndex, i) THEN Hash(Path(c)[i], zeros[i])
                                  ELSE Hash(filledSubtrees[i], Path(c)[i])
<1> DEFINE Fits(n, f) == f = [i \in 0..n |-> IF i = 0 THEN c ELSE (IF IsLeft(nextIndex, i - 1) THEN Hash(f[i - 1], zeros[i - 1]) ELSE Hash(filledSubtrees[i - 1], f[i - 1]))]
           T == {n \in Nat : \E f : Fits(n, f)}
<1>1. 0 \in T
  <2>1. Fits(0, [i \in 0..0 |-> c])
    OBVIOUS
  <2> QED BY <2>1
<1>2. ASSUME NEW n \in Nat, n \in T PROVE n + 1 \in T
  <2>1. PICK f : Fits(n, f)
    BY <1>2
  <2> DEFINE g == [i \in 0..(n + 1) |-> IF i <= n THEN f[i] ELSE (IF IsLeft(nextIndex, n) THEN Hash(f[n], zeros[n]) ELSE Hash(filledSubtrees[n], f[n]))]
  <2>2. ASSUME NEW i \in 0..(n + 1)
        PROVE  g[i] = IF i = 0 THEN c ELSE (IF IsLeft(nextIndex, i - 1) THEN Hash(g[i - 1], zeros[i - 1]) ELSE Hash(filledSubtrees[i - 1], g[i - 1]))
    <3>1. CASE i = 0
      BY <2>1, <3>1
    <3>2. CASE i # 0 /\ i <= n
      BY <2>1, <3>2
    <3>3. CASE i = n + 1
      <4>1. i - 1 = n /\ n \in 0..(n + 1) /\ n <= n /\ i # 0 /\ ~(i <= n)
        BY <3>3
      <4>2. g[n] = f[n] /\ g[i] = (IF IsLeft(nextIndex, n) THEN Hash(f[n], zeros[n]) ELSE Hash(filledSubtrees[n], f[n]))
        BY <4>1
      <4> HIDE DEF g
      <4> QED BY <4>1, <4>2
    <3> QED BY <3>1, <3>2, <3>3
  <2>3. g = [i \in 0..(n + 1) |-> g[i]]
    OBVIOUS
  <2> HIDE DEF g
  <2>4. Fits(n + 1, g)
    BY <2>2, <2>3
  <2> HIDE DEF Fits
  <2> QED BY <2>4
<1> HIDE DEF T
<1>3. TREE_DEPTH \in T
  BY <1>1, <1>2, Induct, DepthAssumption
<1> USE DEF T
<1>4. PICK g : Fits(TREE_DEPTH, g)
  BY <1>3
<1>5. Path(c) = CHOOSE f : Fits(TREE_DEPTH, f)
  BY DEF Path
<1>6. Fits(TREE_DEPTH, Path(c))
  BY <1>4, <1>5
<1> HIDE DEF Fits
<1>7. PICK f : f = Path(c) /\ Fits(TREE_DEPTH, f)
  BY <1>6
<1>8. f[0] = c
  BY <1>7, DepthAssumption DEF Fits
<1>9. ASSUME NEW i \in Nat, i + 1 <= TREE_DEPTH
      PROVE  f[i + 1] = (IF IsLeft(nextIndex, i) THEN Hash(f[i], zeros[i]) ELSE Hash(filledSubtrees[i], f[i]))
  <2>1. i + 1 \in 0..TREE_DEPTH /\ i + 1 # 0 /\ (i + 1) - 1 = i
    BY <1>9, DepthAssumption
  <2> QED BY <1>7, <2>1 DEF Fits
<1> QED BY <1>7, <1>8, <1>9

\* nd is the tree over the first m leaves of ls.
IsTree(nd, ls, m) ==
    /\ \A k \in Nat : nd[0][k] = IF k < m THEN ls[k + 1] ELSE Zero
    /\ \A h \in Nat, k \in Nat : h + 1 <= TREE_DEPTH =>
          nd[h + 1][k] = Hash(nd[h][2 * k], nd[h][2 * k + 1])

\* So are the nodes of a tree.
LEMMA NodeIs ==
    ASSUME NEW ls, NEW m
    PROVE  IsTree(Node(ls, m), ls, m)
<1> DEFINE Base == [k \in Nat |-> IF k < m THEN ls[k + 1] ELSE Zero]
           Up(r) == [k \in Nat |-> Hash(r[2 * k], r[2 * k + 1])]
           Fits(n, f) == f = [i \in 0..n |-> IF i = 0 THEN Base ELSE Up(f[i - 1])]
           T == {n \in Nat : \E f : Fits(n, f)}
<1> HIDE DEF Base, Up
<1>1. 0 \in T
  <2>1. Fits(0, [i \in 0..0 |-> Base])
    OBVIOUS
  <2> QED BY <2>1
<1>2. ASSUME NEW n \in Nat, n \in T PROVE n + 1 \in T
  <2>1. PICK f : Fits(n, f)
    BY <1>2
  <2> DEFINE g == [i \in 0..(n + 1) |-> IF i <= n THEN f[i] ELSE Up(f[n])]
  <2>2. ASSUME NEW i \in 0..(n + 1)
        PROVE  g[i] = IF i = 0 THEN Base ELSE Up(g[i - 1])
    <3>1. CASE i = 0
      BY <2>1, <3>1
    <3>2. CASE i # 0 /\ i <= n
      BY <2>1, <3>2
    <3>3. CASE i = n + 1
      <4>1. i - 1 = n /\ n \in 0..(n + 1) /\ n <= n /\ i # 0 /\ ~(i <= n)
        BY <3>3
      <4>2. g[n] = f[n] /\ g[i] = Up(f[n])
        BY <4>1
      <4> HIDE DEF g
      <4> QED BY <4>1, <4>2
    <3> QED BY <3>1, <3>2, <3>3
  <2>3. g = [i \in 0..(n + 1) |-> g[i]]
    OBVIOUS
  <2> HIDE DEF g
  <2>4. Fits(n + 1, g)
    BY <2>2, <2>3
  <2> HIDE DEF Fits
  <2> QED BY <2>4
<1> HIDE DEF T
<1>3. TREE_DEPTH \in T
  BY <1>1, <1>2, Induct, DepthAssumption
<1> USE DEF T
<1>4. PICK g : Fits(TREE_DEPTH, g)
  BY <1>3
<1>5. Node(ls, m) = CHOOSE f : Fits(TREE_DEPTH, f)
  BY DEF Node, Base, Up
<1>6. Fits(TREE_DEPTH, Node(ls, m))
  BY <1>4, <1>5
<1> HIDE DEF Fits
<1>7. PICK f : f = Node(ls, m) /\ Fits(TREE_DEPTH, f)
  BY <1>6
<1>8. f[0] = Base
  BY <1>7, DepthAssumption DEF Fits
<1>9. ASSUME NEW i \in Nat, i + 1 <= TREE_DEPTH
      PROVE  f[i + 1] = Up(f[i])
  <2>1. i + 1 \in 0..TREE_DEPTH /\ i + 1 # 0 /\ (i + 1) - 1 = i
    BY <1>9, DepthAssumption
  <2> QED BY <1>7, <2>1 DEF Fits
<1>10. IsTree(f, ls, m)
  BY <1>8, <1>9 DEF Base, Up, IsTree
<1> QED BY <1>7, <1>10

-----------------------------------------------------------------------------
(* Positions.                                                              *)

\* Halving a natural and its remainder.
LEMMA Half ==
    ASSUME NEW n \in Nat
    PROVE  /\ n \div 2 \in Nat /\ n % 2 \in {0, 1} /\ n = 2 * (n \div 2) + (n % 2)
           /\ (n + 1) \div 2 = IF n % 2 = 0 THEN n \div 2 ELSE n \div 2 + 1
           /\ (n + 1) % 2 = 1 - (n % 2)
OBVIOUS

\* A position is a natural; it grows with the index, by one or not at all.
LEMMA IdxGrows ==
    ASSUME NEW i \in Nat, i <= TREE_DEPTH
    PROVE  \A n \in Nat : /\ Idx(n)[i] \in Nat
                          /\ \/ Idx(n + 1)[i] = Idx(n)[i]
                             \/ Idx(n + 1)[i] = Idx(n)[i] + 1
<1> DEFINE T == {h \in Nat : h <= TREE_DEPTH =>
                    \A n \in Nat : /\ Idx(n)[h] \in Nat
                                   /\ \/ Idx(n + 1)[h] = Idx(n)[h]
                                      \/ Idx(n + 1)[h] = Idx(n)[h] + 1}
<1>1. 0 \in T
  BY IdxIs
<1>2. ASSUME NEW h \in Nat, h \in T PROVE h + 1 \in T
  <2> SUFFICES ASSUME h + 1 <= TREE_DEPTH, NEW n \in Nat
               PROVE  /\ Idx(n)[h + 1] \in Nat
                      /\ \/ Idx(n + 1)[h + 1] = Idx(n)[h + 1]
                         \/ Idx(n + 1)[h + 1] = Idx(n)[h + 1] + 1
    OBVIOUS
  <2>1. PICK p \in Nat, q \in Nat : q \in {p, p + 1} /\ p = Idx(n)[h] /\ q = Idx(n + 1)[h]
    BY <1>2, DepthAssumption
  <2>2. Idx(n)[h + 1] = p \div 2 /\ Idx(n + 1)[h + 1] = q \div 2
    BY <2>1, IdxIs
  <2> QED BY <2>1, <2>2, Half
<1> HIDE DEF T
<1>3. i \in T
  BY <1>1, <1>2, Induct
<1> QED BY <1>3 DEF T

\* So an index is no later than another where its position is before the other's.
LEMMA IdxOrder ==
    ASSUME NEW i \in Nat, i <= TREE_DEPTH, NEW n \in Nat, NEW j \in Nat, n <= j
    PROVE  Idx(n)[i] <= Idx(j)[i]
<1> DEFINE T == {d \in Nat : Idx(n)[i] <= Idx(n + d)[i]}
<1>1. 0 \in T
  BY IdxGrows
<1>2. ASSUME NEW d \in Nat, d \in T PROVE d + 1 \in T
  <2>1. PICK m \in Nat : m = n + d /\ m + 1 = n + (d + 1)
    OBVIOUS
  <2>2. Idx(n)[i] \in Nat /\ Idx(m)[i] \in Nat /\ Idx(n)[i] <= Idx(m)[i]
    BY <1>2, <2>1, IdxGrows
  <2>3. Idx(m + 1)[i] = Idx(m)[i] \/ Idx(m + 1)[i] = Idx(m)[i] + 1
    BY IdxGrows
  <2>4. Idx(n)[i] <= Idx(m + 1)[i]
    BY <2>2, <2>3
  <2> QED BY <2>1, <2>4
<1> HIDE DEF T
<1>3. j - n \in T
  BY <1>1, <1>2, Induct
<1>4. n + (j - n) = j
  OBVIOUS
<1> QED BY <1>3, <1>4 DEF T

\* The position above is that of half the index.
LEMMA IdxOfHalf ==
    ASSUME NEW h \in Nat, h + 1 <= TREE_DEPTH, NEW n \in Nat
    PROVE  Idx(n)[h + 1] = Idx(n \div 2)[h]
<1> DEFINE T == {i \in Nat : i + 1 <= TREE_DEPTH => Idx(n)[i + 1] = Idx(n \div 2)[i]}
<1>1. 0 \in T
  BY IdxIs
<1>2. ASSUME NEW i \in Nat, i \in T PROVE i + 1 \in T
  <2> SUFFICES ASSUME (i + 1) + 1 <= TREE_DEPTH
               PROVE  Idx(n)[(i + 1) + 1] = Idx(n \div 2)[i + 1]
    OBVIOUS
  <2>1. i + 1 <= TREE_DEPTH /\ i + 1 \in Nat
    BY DepthAssumption
  <2>2. Idx(n)[i + 1] = Idx(n \div 2)[i]
    BY <1>2, <2>1
  <2>3. Idx(n)[(i + 1) + 1] = Idx(n)[i + 1] \div 2 /\ Idx(n \div 2)[i + 1] = Idx(n \div 2)[i] \div 2
    BY <2>1, IdxIs
  <2> QED BY <2>2, <2>3
<1> HIDE DEF T
<1>3. h \in T
  BY <1>1, <1>2, Induct
<1> QED BY <1>3 DEF T

\* All leaves of a tree that is not overfull are under its root.
LEMMA UnderRoot ==
    ASSUME NEW h \in Nat, h <= TREE_DEPTH
    PROVE  Shifted[h] \in Nat /\ \A n \in Nat : n < Shifted[h] => Idx(n)[h] = 0
<1> DEFINE T == {i \in Nat : i <= TREE_DEPTH =>
                    Shifted[i] \in Nat /\ \A n \in Nat : n < Shifted[i] => Idx(n)[i] = 0}
<1>1. 0 \in T
  BY IdxIs, ShiftedIs
<1>2. ASSUME NEW i \in Nat, i \in T PROVE i + 1 \in T
  <2> SUFFICES ASSUME i + 1 <= TREE_DEPTH
               PROVE  /\ Shifted[i + 1] \in Nat
                      /\ \A n \in Nat : n < Shifted[i + 1] => Idx(n)[i + 1] = 0
    OBVIOUS
  <2>1. PICK s \in Nat : s = Shifted[i] /\ Shifted[i + 1] = 2 * s
    BY <1>2, ShiftedIs, DepthAssumption
  <2>2. ASSUME NEW n \in Nat, n < 2 * s PROVE Idx(n)[i + 1] = 0
    <3>1. n \div 2 \in Nat /\ n \div 2 < s
      BY <2>2
    <3>2. Idx(n \div 2)[i] = 0
      BY <1>2, <2>1, <3>1, DepthAssumption
    <3> QED BY <3>2, IdxOfHalf
  <2> QED BY <2>1, <2>2
<1> HIDE DEF T
<1>3. h \in T
  BY <1>1, <1>2, Induct
<1> QED BY <1>3 DEF T

-----------------------------------------------------------------------------
(* Trees.                                                                  *)

\* The leaf at position j of the tree over the first m of ls
Leaf(ls, m, j) == IF j < m THEN ls[j + 1] ELSE Zero

\* The leaves under the children of a node are under the node.
LEMMA Under ==
    ASSUME NEW h \in Nat, h + 1 <= TREE_DEPTH, NEW k \in Nat, NEW j \in Nat
    PROVE  Idx(j)[h + 1] = k <=> Idx(j)[h] \in {2 * k, 2 * k + 1}
<1>1. PICK p \in Nat : p = Idx(j)[h]
  BY IdxGrows, DepthAssumption
<1>2. Idx(j)[h + 1] = p \div 2
  BY <1>1, IdxIs
<1>3. p \div 2 = k <=> p \in {2 * k, 2 * k + 1}
  OBVIOUS
<1> QED BY <1>1, <1>2, <1>3

\* All the leaves under a node are empty, or are those under the same node of another tree.
EmptyUnder(m, h, k) == \A j \in Nat : Idx(j)[h] = k => j >= m
SameUnder(ls, m, ms, n, h, k) ==
    \A j \in Nat : Idx(j)[h] = k => Leaf(ls, m, j) = Leaf(ms, n, j)

\* A node over empty leaves is the zero subtree of its height.
LEMMA EmptySubtree ==
    ASSUME NEW ls, NEW m \in Nat, NEW nd, IsTree(nd, ls, m), NEW h \in Nat, h <= TREE_DEPTH, NEW k \in Nat,
           EmptyUnder(m, h, k)
    PROVE  nd[h][k] = zeros[h]
<1> DEFINE T == {i \in Nat : i <= TREE_DEPTH =>
                    \A q \in Nat : EmptyUnder(m, i, q) => nd[i][q] = zeros[i]}
<1>1. 0 \in T
  BY IdxIs, ZerosIs DEF IsTree, EmptyUnder
<1>2. ASSUME NEW i \in Nat, i \in T PROVE i + 1 \in T
  <2> SUFFICES ASSUME i + 1 <= TREE_DEPTH, NEW q \in Nat,
                      EmptyUnder(m, i + 1, q)
               PROVE  nd[i + 1][q] = zeros[i + 1]
    OBVIOUS
  <2>1. EmptyUnder(m, i, 2 * q) /\ EmptyUnder(m, i, 2 * q + 1)
    BY Under DEF EmptyUnder
  <2>2. 2 * q \in Nat /\ 2 * q + 1 \in Nat /\ i <= TREE_DEPTH
    BY DepthAssumption
  <2>3. nd[i][2 * q] = zeros[i] /\ nd[i][2 * q + 1] = zeros[i]
    BY <1>2, <2>1, <2>2
  <2>4. nd[i + 1][q] = Hash(nd[i][2 * q], nd[i][2 * q + 1])
    BY DEF IsTree
  <2>5. zeros[i + 1] = Hash(zeros[i], zeros[i])
    BY ZerosIs
  <2> QED BY <2>3, <2>4, <2>5
<1> HIDE DEF T
<1>3. h \in T
  BY <1>1, <1>2, Induct
<1> QED BY <1>3 DEF T

\* Nodes over the same leaves are equal, and nodes that are equal are over the same.
LEMMA SameSubtree ==
    ASSUME NEW ls, NEW m \in Nat, NEW nd, IsTree(nd, ls, m),
           NEW ms, NEW n \in Nat, NEW ne, IsTree(ne, ms, n), NEW h \in Nat, h <= TREE_DEPTH, NEW k \in Nat
    PROVE  nd[h][k] = ne[h][k]
             <=> SameUnder(ls, m, ms, n, h, k)
<1> DEFINE Same(i, q) == SameUnder(ls, m, ms, n, i, q)
           T == {i \in Nat : i <= TREE_DEPTH =>
                    \A q \in Nat : nd[i][q] = ne[i][q] <=> Same(i, q)}
<1>1. 0 \in T
  BY IdxIs DEF IsTree, Leaf, SameUnder
<1>2. ASSUME NEW i \in Nat, i \in T PROVE i + 1 \in T
  <2> SUFFICES ASSUME i + 1 <= TREE_DEPTH, NEW q \in Nat
               PROVE  nd[i + 1][q] = ne[i + 1][q] <=> Same(i + 1, q)
    OBVIOUS
  <2>1. Same(i + 1, q) <=> Same(i, 2 * q) /\ Same(i, 2 * q + 1)
    BY Under DEF SameUnder
  <2> HIDE DEF Same
  <2>2. 2 * q \in Nat /\ 2 * q + 1 \in Nat /\ i <= TREE_DEPTH
    BY DepthAssumption
  <2>3. /\ nd[i][2 * q] = ne[i][2 * q] <=> Same(i, 2 * q)
        /\ nd[i][2 * q + 1] = ne[i][2 * q + 1] <=> Same(i, 2 * q + 1)
    BY <1>2, <2>2
  <2>4. /\ nd[i + 1][q] = Hash(nd[i][2 * q], nd[i][2 * q + 1])
        /\ ne[i + 1][q] = Hash(ne[i][2 * q], ne[i][2 * q + 1])
    BY DEF IsTree
  <2>5. \A a, b, c, d : Hash(a, b) = Hash(c, d) <=> a = c /\ b = d
    BY DEF Hash
  <2> QED BY <2>1, <2>3, <2>4, <2>5
<1> HIDE DEF T
<1>3. h \in T
  BY <1>1, <1>2, Induct
<1> QED BY <1>3 DEF T

-----------------------------------------------------------------------------
(* The frontier.                                                           *)

\* Where the next leaf is under a right child, filledSubtrees holds the left one, and
\* each root of the history is that of the leaves there were.
FrontierInv ==
    /\ leaves \in Seq(Commitments) /\ nextIndex = Len(leaves) /\ rootCount = nextIndex + 1
    /\ nextIndex <= Shifted[TREE_DEPTH]
    /\ \A i \in 0..(TREE_DEPTH - 1) : ~IsLeft(nextIndex, i) =>
          filledSubtrees[i] = Node(leaves, nextIndex)[i][Idx(nextIndex)[i] - 1]
    /\ \A s \in 0..nextIndex : roots[s] = Node(leaves, s)[TREE_DEPTH][0]
    /\ currentRoot = roots[nextIndex]

\* Another leaf leaves the earlier ones where they are.
LEMMA LeafAppend ==
    ASSUME NEW ls \in Seq(Commitments), NEW c \in Commitments
    PROVE  /\ \A m \in 0..Len(ls), j \in Nat : Leaf(Append(ls, c), m, j) = Leaf(ls, m, j)
           /\ \A j \in Nat : j < Len(ls) =>
                 Leaf(Append(ls, c), Len(ls) + 1, j) = Leaf(ls, Len(ls), j)
           /\ Append(ls, c)[Len(ls) + 1] = c
<1>1. /\ Len(ls) \in Nat /\ Append(ls, c)[Len(ls) + 1] = c
      /\ \A i \in 1..Len(ls) : Append(ls, c)[i] = ls[i]
  OBVIOUS
<1>2. PICK n \in Nat : n = Len(ls)
  BY <1>1
<1>3. ASSUME NEW j \in Nat, j < n PROVE Append(ls, c)[j + 1] = ls[j + 1] /\ j < n + 1
  <2>1. j + 1 \in 1..n
    BY <1>3
  <2> QED BY <1>1, <1>2, <1>3, <2>1
<1>4. ASSUME NEW m \in 0..n, NEW j \in Nat PROVE Leaf(Append(ls, c), m, j) = Leaf(ls, m, j)
  <2>1. CASE j < m
    <3>1. j < n
      BY <2>1
    <3> QED BY <1>3, <2>1, <3>1 DEF Leaf
  <2>2. CASE ~(j < m)
    BY <2>2 DEF Leaf
  <2> QED BY <2>1, <2>2
<1>5. \A j \in Nat : j < n => Leaf(Append(ls, c), n + 1, j) = Leaf(ls, n, j)
  BY <1>3 DEF Leaf
<1> QED BY <1>1, <1>2, <1>4, <1>5

\* In a tree of n + 1 leaves, what is to the right of the last one's node is empty.
LEMMA RightIsEmpty ==
    ASSUME NEW n \in Nat, NEW i \in Nat, i <= TREE_DEPTH
    PROVE  EmptyUnder(n + 1, i, Idx(n)[i] + 1)
<1>1. ASSUME NEW j \in Nat, Idx(j)[i] = Idx(n)[i] + 1, j <= n PROVE FALSE
  <2>1. Idx(j)[i] <= Idx(n)[i] /\ Idx(n)[i] \in Nat
    BY <1>1, IdxOrder, IdxGrows
  <2> QED BY <1>1, <2>1
<1> QED BY <1>1 DEF EmptyUnder

\* To the left of that node, leaves are those of the first n.
LEMMA LeftIsOld ==
    ASSUME NEW n \in Nat, NEW i \in Nat, i <= TREE_DEPTH, NEW q \in Nat, q + 1 = Idx(n)[i]
    PROVE  \A j \in Nat : Idx(j)[i] = q => j < n
<1>1. ASSUME NEW j \in Nat, Idx(j)[i] = q, n <= j PROVE FALSE
  <2>1. Idx(n)[i] <= Idx(j)[i]
    BY <1>1, IdxOrder
  <2> QED BY <1>1, <2>1
<1> QED BY <1>1

\* insert computes the nodes of the new tree on the way from the new leaf to the root.
LEMMA PathRight ==
    ASSUME FrontierInv, NEW c \in Commitments, nextIndex < Shifted[TREE_DEPTH],
           NEW h \in Nat, h <= TREE_DEPTH
    PROVE  Path(c)[h] = Node(Append(leaves, c), nextIndex + 1)[h][Idx(nextIndex)[h]]
<1>1. PICK n \in Nat, ls \in Seq(Commitments) : n = nextIndex /\ ls = leaves /\ Len(ls) = n
  BY DEF FrontierInv
<1>2. PICK ms : ms = Append(ls, c)
  OBVIOUS
<1>3. PICK nd, ne : /\ nd = Node(ls, n) /\ IsTree(nd, ls, n)
                    /\ ne = Node(ms, n + 1) /\ IsTree(ne, ms, n + 1)
  BY NodeIs
<1>4. PICK path : path = Path(c)
  OBVIOUS
<1>5. /\ ms[n + 1] = c
      /\ \A j \in Nat : j < n => Leaf(ms, n + 1, j) = Leaf(ls, n, j)
  BY <1>1, <1>2, LeafAppend
<1>6. /\ path[0] = c
      /\ \A i \in Nat : i + 1 <= TREE_DEPTH =>
            path[i + 1] = IF IsLeft(n, i) THEN Hash(path[i], zeros[i])
                          ELSE Hash(filledSubtrees[i], path[i])
  BY <1>1, <1>4, PathIs
<1>7. \A i \in 0..(TREE_DEPTH - 1) : ~IsLeft(n, i) => filledSubtrees[i] = nd[i][Idx(n)[i] - 1]
  BY <1>1, <1>3 DEF FrontierInv
<1> DEFINE T == {i \in Nat : i <= TREE_DEPTH => path[i] = ne[i][Idx(n)[i]]}
<1>8. 0 \in T
  <2>1. Idx(n)[0] = n
    BY IdxIs
  <2>2. ne[0][n] = c
    BY <1>3, <1>5 DEF IsTree
  <2> QED BY <1>6, <2>1, <2>2
<1>9. ASSUME NEW i \in Nat, i \in T PROVE i + 1 \in T
  <2>0. SUFFICES ASSUME i + 1 <= TREE_DEPTH
                 PROVE  path[i + 1] = ne[i + 1][Idx(n)[i + 1]]
    OBVIOUS
  <2>1. i <= TREE_DEPTH
    BY <2>0, DepthAssumption
  <2>2. PICK k \in Nat : k = Idx(n)[i]
    BY <2>1, IdxGrows
  <2>3. k \div 2 \in Nat /\ Idx(n)[i + 1] = k \div 2 /\ (IsLeft(n, i) <=> k % 2 = 0)
    BY <2>0, <2>2, IdxIs DEF IsLeft
  <2>4. path[i] = ne[i][k]
    BY <1>9, <2>1, <2>2
  <2>5. ne[i + 1][k \div 2] = Hash(ne[i][2 * (k \div 2)], ne[i][2 * (k \div 2) + 1])
    BY <1>3, <2>0, <2>3 DEF IsTree
  <2>6. CASE k % 2 = 0
    <3>1. k = 2 * (k \div 2) /\ k + 1 \in Nat
      BY <2>6
    <3>2. PICK m \in Nat, q \in Nat : m = n + 1 /\ q = k + 1
      OBVIOUS
    <3>3. ne[i][k + 1] = zeros[i]
      <4>1. IsTree(ne, ms, m)
        BY <1>3, <3>2
      <4>2. EmptyUnder(m, i, q)
        BY <2>1, <2>2, <3>2, RightIsEmpty
      <4>3. ne[i][q] = zeros[i]
        BY <2>1, <4>1, <4>2, EmptySubtree
      <4> QED BY <3>2, <4>3
    <3>4. path[i + 1] = Hash(path[i], zeros[i])
      BY <1>6, <2>0, <2>3, <2>6
    <3> QED BY <2>3, <2>4, <2>5, <3>1, <3>3, <3>4
  <2>7. CASE k % 2 # 0
    <3>1. k = 2 * (k \div 2) + 1 /\ k - 1 = 2 * (k \div 2) /\ k - 1 \in Nat
      BY <2>7
    <3>2. PICK m \in Nat, q \in Nat : m = n + 1 /\ q = k - 1 /\ q + 1 = k
      BY <3>1
    <3>3. ne[i][k - 1] = nd[i][k - 1]
      <4>1. IsTree(ne, ms, m) /\ \A j \in Nat : j < n => Leaf(ms, m, j) = Leaf(ls, n, j)
        BY <1>3, <1>5, <3>2
      <4>2. \A j \in Nat : Idx(j)[i] = q => j < n
        BY <2>1, <2>2, <3>2, LeftIsOld
      <4>3. SameUnder(ms, m, ls, n, i, q)
        BY <4>1, <4>2 DEF SameUnder
      <4>4. ne[i][q] = nd[i][q]
        BY <1>3, <2>1, <4>1, <4>3, SameSubtree
      <4> QED BY <3>2, <4>4
    <3>4. filledSubtrees[i] = nd[i][k - 1]
      BY <1>7, <2>0, <2>2, <2>3, <2>7, DepthAssumption
    <3>5. path[i + 1] = Hash(filledSubtrees[i], path[i])
      BY <1>6, <2>0, <2>3, <2>7
    <3> QED BY <2>3, <2>4, <2>5, <3>1, <3>3, <3>4, <3>5
  <2> QED BY <2>6, <2>7
<1> HIDE DEF T
<1>10. h \in T
  BY <1>8, <1>9, Induct
<1> QED BY <1>1, <1>2, <1>3, <1>4, <1>10 DEF T

\* The empty tree has a frontier of zero subtrees.
LEMMA FrontierInit == TreeInit => FrontierInv
<1> SUFFICES ASSUME TreeInit PROVE FrontierInv
  OBVIOUS
<1>1. /\ leaves = <<>> /\ nextIndex = 0 /\ rootCount = 1 /\ currentRoot = zeros[TREE_DEPTH]
      /\ roots = [s \in 0..0 |-> zeros[TREE_DEPTH]]
  BY DEF TreeInit
<1>2. leaves \in Seq(Commitments) /\ Len(leaves) = 0
  BY <1>1
<1>3. 0 <= Shifted[TREE_DEPTH]
  BY UnderRoot, DepthAssumption
<1>4. ASSUME NEW i \in 0..(TREE_DEPTH - 1) PROVE IsLeft(0, i)
  <2> DEFINE T == {h \in Nat : h <= TREE_DEPTH => Idx(0)[h] = 0}
  <2>1. 0 \in T
    BY IdxIs
  <2>2. \A h \in Nat : h \in T => h + 1 \in T
    BY IdxIs, DepthAssumption
  <2> HIDE DEF T
  <2>3. i \in T
    BY <2>1, <2>2, Induct
  <2> QED BY <2>3, DepthAssumption DEF T, IsLeft
<1>5. Node(leaves, 0)[TREE_DEPTH][0] = zeros[TREE_DEPTH]
  <2>1. PICK nd : nd = Node(leaves, 0) /\ IsTree(nd, leaves, 0)
    BY NodeIs
  <2>2. EmptyUnder(0, TREE_DEPTH, 0)
    BY DEF EmptyUnder
  <2> QED BY <2>1, <2>2, EmptySubtree, DepthAssumption
<1> QED BY <1>1, <1>2, <1>3, <1>4, <1>5 DEF FrontierInv

\* An insert leaves, at each level above which the next leaf is to the right, the left
\* node that it computed, or that was there.
LEMMA FrontierNext ==
    ASSUME FrontierInv, [TreeNext]_treeVars
    PROVE  FrontierInv'
<1>1. CASE UNCHANGED treeVars
  BY <1>1 DEF FrontierInv, treeVars, IsLeft
<1>2. ASSUME NEW c \in Commitments, insert(c)
      PROVE  FrontierInv'
  <2>1. PICK n \in Nat, ls \in Seq(Commitments) : n = nextIndex /\ ls = leaves /\ Len(ls) = n
    BY DEF FrontierInv
  <2>2. PICK ms \in Seq(Commitments) : ms = Append(ls, c) /\ Len(ms) = n + 1
    <3>1. Append(ls, c) \in Seq(Commitments) /\ Len(Append(ls, c)) = Len(ls) + 1
      OBVIOUS
    <3> QED BY <2>1, <3>1
  <2>3. PICK m \in Nat : m = n + 1
    OBVIOUS
  <2>4. PICK path : path = Path(c)
    OBVIOUS
  <2>5. /\ n < Shifted[TREE_DEPTH] /\ nextIndex' = m /\ leaves' = ms
        /\ filledSubtrees' = [i \in 0..(TREE_DEPTH - 1) |->
              IF IsLeft(n, i) THEN path[i] ELSE filledSubtrees[i]]
        /\ rootCount' = rootCount + 1 /\ currentRoot' = path[TREE_DEPTH]
        /\ roots' = [s \in 0..rootCount |-> IF s < rootCount THEN roots[s] ELSE path[TREE_DEPTH]]
    BY <1>2, <2>1, <2>2, <2>3, <2>4 DEF insert, RollWindow
  <2>6. rootCount = m
    BY <2>1, <2>3 DEF FrontierInv
  <2>7. PICK nd, ne : /\ nd = Node(ls, n) /\ IsTree(nd, ls, n)
                      /\ ne = Node(ms, m) /\ IsTree(ne, ms, m)
    BY NodeIs
  <2>8. \A h \in Nat : h <= TREE_DEPTH => path[h] = ne[h][Idx(n)[h]]
    BY <2>1, <2>2, <2>3, <2>4, <2>5, <2>7, PathRight
  <2>9. \A i \in 0..(TREE_DEPTH - 1) : ~IsLeft(n, i) => filledSubtrees[i] = nd[i][Idx(n)[i] - 1]
    BY <2>1, <2>7 DEF FrontierInv
  <2>10. /\ \A s \in 0..n, j \in Nat : Leaf(ms, s, j) = Leaf(ls, s, j)
         /\ \A j \in Nat : j < n => Leaf(ms, m, j) = Leaf(ls, n, j)
    BY <2>1, <2>2, <2>3, LeafAppend
  <2>11. ASSUME NEW i \in 0..(TREE_DEPTH - 1), ~IsLeft(m, i)
         PROVE  filledSubtrees'[i] = ne[i][Idx(m)[i] - 1]
    <3>1. i \in Nat /\ i <= TREE_DEPTH
      BY DepthAssumption
    <3>2. PICK k \in Nat, q \in Nat : k = Idx(n)[i] /\ q = Idx(m)[i] /\ (q = k \/ q = k + 1)
      BY <2>3, <3>1, IdxGrows
    <3>3. q % 2 # 0 /\ (IsLeft(n, i) <=> k % 2 = 0)
      BY <2>11, <3>2 DEF IsLeft
    <3>4. CASE q = k + 1
      <4>1. k % 2 = 0 /\ q - 1 = k
        BY <3>3, <3>4
      <4>2. filledSubtrees'[i] = path[i]
        BY <2>5, <3>3, <4>1
      <4> QED BY <2>8, <3>1, <3>2, <4>1, <4>2
    <3>5. CASE q = k
      <4>1. filledSubtrees'[i] = nd[i][k - 1]
        BY <2>5, <2>9, <3>2, <3>3, <3>5
      <4>2. PICK p \in Nat : p = k - 1 /\ p = q - 1
        BY <3>3, <3>5
      <4>3. \A j \in Nat : Idx(j)[i] = p => j < n
        <5>1. p + 1 = Idx(n)[i]
          BY <3>2, <4>2
        <5> QED BY <3>1, <5>1, LeftIsOld
      <4>4. SameUnder(ms, m, ls, n, i, p)
        BY <2>10, <4>3 DEF SameUnder
      <4>5. ne[i][p] = nd[i][p]
        BY <2>7, <3>1, <4>4, SameSubtree
      <4> QED BY <3>2, <4>1, <4>2, <4>5
    <3> QED BY <3>2, <3>4, <3>5
  <2>12. ASSUME NEW s \in 0..m
         PROVE  roots'[s] = Node(ms, s)[TREE_DEPTH][0]
    <3>1. CASE s = m
      <4>1. roots'[s] = path[TREE_DEPTH]
        BY <2>5, <2>6, <3>1
      <4>2. Idx(n)[TREE_DEPTH] = 0
        BY <2>5, UnderRoot, DepthAssumption
      <4> QED BY <2>7, <2>8, <3>1, <4>1, <4>2, DepthAssumption
    <3>2. CASE s # m
      <4>1. s \in 0..n /\ s \in Nat
        BY <2>3, <3>2
      <4>2. roots'[s] = roots[s] /\ roots[s] = Node(ls, s)[TREE_DEPTH][0]
        BY <2>1, <2>3, <2>5, <2>6, <4>1 DEF FrontierInv
      <4>3. PICK a, b : /\ a = Node(ls, s) /\ IsTree(a, ls, s)
                        /\ b = Node(ms, s) /\ IsTree(b, ms, s)
        BY NodeIs
      <4>4. SameUnder(ls, s, ms, s, TREE_DEPTH, 0)
        BY <2>10, <4>1 DEF SameUnder
      <4>5. a[TREE_DEPTH][0] = b[TREE_DEPTH][0]
        BY <4>1, <4>3, <4>4, SameSubtree, DepthAssumption
      <4> QED BY <4>2, <4>3, <4>5
    <3> QED BY <3>1, <3>2
  <2>13. currentRoot' = roots'[m]
    BY <2>3, <2>5, <2>6
  <2>14. m <= Shifted[TREE_DEPTH]
    BY <2>3, <2>5, UnderRoot, DepthAssumption
  <2>15. rootCount' = m + 1 /\ Len(ms) = m
    BY <2>2, <2>3, <2>5, <2>6
  <2> QED BY <2>2, <2>5, <2>7, <2>11, <2>12, <2>13, <2>14, <2>15 DEF FrontierInv, IsLeft
<1> QED BY <1>1, <1>2 DEF TreeNext

\* The roots of trees with different numbers of leaves differ.
LEMMA RootsAreDifferent == FrontierInv => RootsDiffer
<1> SUFFICES ASSUME FrontierInv PROVE RootsDiffer
  OBVIOUS
<1>1. PICK n \in Nat, ls \in Seq(Commitments) : n = nextIndex /\ ls = leaves /\ Len(ls) = n
  BY DEF FrontierInv
<1>2. n <= Shifted[TREE_DEPTH] /\ Shifted[TREE_DEPTH] \in Nat /\ rootCount - 1 = n
  BY <1>1, UnderRoot, DepthAssumption DEF FrontierInv
<1>3. ASSUME NEW s \in 0..n, NEW t \in 0..n, s < t, roots[s] = roots[t]
      PROVE  FALSE
  <2>1. PICK a, b : /\ a = Node(ls, s) /\ IsTree(a, ls, s)
                    /\ b = Node(ls, t) /\ IsTree(b, ls, t)
    BY NodeIs
  <2>2. a[TREE_DEPTH][0] = b[TREE_DEPTH][0]
    BY <1>1, <1>3, <2>1 DEF FrontierInv
  <2>3. SameUnder(ls, s, ls, t, TREE_DEPTH, 0)
    BY <2>1, <2>2, SameSubtree, DepthAssumption
  <2>4. s \in Nat /\ s < Shifted[TREE_DEPTH]
    BY <1>2, <1>3
  <2>5. Idx(s)[TREE_DEPTH] = 0
    BY <2>4, UnderRoot, DepthAssumption
  <2>6. Leaf(ls, s, s) = Leaf(ls, t, s)
    BY <2>3, <2>4, <2>5 DEF SameUnder
  <2>7. s + 1 \in 1..Len(ls)
    BY <1>1, <1>3
  <2>8. ls[s + 1] \in Commitments
    BY <2>7
  <2> QED BY <1>3, <2>6, <2>8, ZeroAssumption DEF Leaf
<1>4. \A s, t \in 0..n : s # t => roots[s] # roots[t]
  <2> SUFFICES ASSUME NEW s \in 0..n, NEW t \in 0..n, s # t, roots[s] = roots[t] PROVE FALSE
    OBVIOUS
  <2>1. s < t \/ t < s
    OBVIOUS
  <2> QED BY <1>3, <2>1
<1> QED BY <1>2, <1>4 DEF RootsDiffer

\* The frontier is as good as the leaves: for every depth and every sequence of inserts,
\* the root that insert computes is that of the tree over all leaves, and no root comes
\* back (insert, filledSubtrees).
THEOREM FrontierIsFaithful == TreeSpec => []FrontierFaithful
<1>1. FrontierInv => RootOfLeaves
  <2> SUFFICES ASSUME FrontierInv PROVE RootOfLeaves
    OBVIOUS
  <2>1. nextIndex \in 0..nextIndex
    BY DEF FrontierInv
  <2> QED BY <2>1 DEF FrontierInv, RootOfLeaves
<1>2. FrontierInv => FrontierFaithful
  BY <1>1, RootsAreDifferent DEF FrontierFaithful
<1> QED BY <1>2, FrontierInit, FrontierNext, PTL DEF TreeSpec

-----------------------------------------------------------------------------
\* No root is evicted early: a proof is accepted while fewer than ROOT_WINDOW leaves
\* are inserted after its root, since the root given up is the oldest and no other
\* root equals it (insert, isKnownRoot).
THEOREM RecentRootsAreKnown == TreeSpec => []RecentRootsKnown
<1> DEFINE All == WindowInv /\ RecentRootsKnown /\ FrontierInv
<1>1. TreeInit => All
  BY InitWindow, FrontierInit
<1>2. All /\ [TreeNext]_treeVars => All'
  BY NextWindow, NextRecent, FrontierNext, RootsAreDifferent
<1>3. All => RecentRootsKnown
  OBVIOUS
<1> HIDE DEF All
<1> QED BY <1>1, <1>2, <1>3, PTL DEF TreeSpec

(* KnownRootsAreRecent: isKnownRoot accepts exactly the roots of the last ROOT_WINDOW
   inserts, for every window and depth and however often the ring has wrapped.  *)
THEOREM KnownRootsAreTheRecent == TreeSpec => []KnownRootsAreRecent
<1>1. RecentRootsKnown /\ StaleRootsForgotten => KnownRootsAreRecent
  BY DEF KnownRootsAreRecent
<1> QED BY <1>1, RecentRootsAreKnown, StaleRootsAreForgotten, PTL

-----------------------------------------------------------------------------
(* The followers of the chain.                                             *)

Known == handed \cup unread \cup unindexed

Scans == [pc : {"fetch", "handle"}, source : {"index", "chain"}, head : Nat,
          at : Nat \ {0}, todo : SUBSET Bets, persist : BOOLEAN]
IndexRunsOf == [pc : {"start", "scan"}, target : Nat]

Types ==
    /\ chain \in Seq(Leaves \cup {Empty})
    /\ index \in [last : Nat, ready : BOOLEAN]
    /\ indexSync \in {Idle} \cup IndexRunsOf
    /\ rows \subseteq Bets \X Nat
    /\ cursor \in Nat
    /\ scan \in {Idle} \cup Scans

\* The index stays CONFIRMATIONS blocks behind the head, and so does its run.
IndexLags ==
    /\ index.last = 0 \/ index.last + Confirmations <= Len(chain)
    /\ indexSync.pc = "scan" =>
         /\ index.last <= indexSync.target
         /\ indexSync.target + Confirmations <= Len(chain)

\* Up to its last block the index has every bet that it will ever have.
IndexCovers ==
    \A n \in 1..index.last :
        chain[n] \in Bets => <<chain[n], n>> \in rows \/ chain[n] \in unindexed

\* A scan stays below its head, which is one that its source has reached.
ScanBelowHead ==
    /\ cursor <= Len(chain)
    /\ part = "tree" => scan = Idle
    /\ scan.pc # "idle" =>
         /\ scan.head <= Len(chain)
         /\ scan.source = "index" => scan.head <= index.last

\* What the scan has passed SAFETY_BUFFER below its head is known ...
PassedKnown ==
    scan.pc # "idle" /\ scan.persist =>
        \A n \in 1..(scan.at - 1) :
            n <= scan.head - SafetyBuffer /\ chain[n] \in Bets => chain[n] \in Known

\* ... and what is in its window is known or about to be handled.
WindowKnown ==
    scan.pc = "handle" /\ scan.persist =>
        \A n \in scan.at..WindowEnd :
            n <= scan.head - SafetyBuffer /\ chain[n] \in Bets
                => chain[n] \in Known \cup scan.todo

Inv ==
    /\ Types /\ IndexLags /\ IndexCovers
    /\ ScanBelowHead /\ PassedKnown /\ WindowKnown /\ CursorCovers

-----------------------------------------------------------------------------
(* What the records hold.                                                  *)

\* A scan that is not idle has all its fields.
LEMMA ScanFields ==
    ASSUME Types, scan.pc # "idle"
    PROVE  /\ scan \in Scans /\ scan.pc \in {"fetch", "handle"}
           /\ scan.at \in Nat \ {0} /\ scan.head \in Nat /\ scan.todo \subseteq Bets
           /\ scan.source \in {"index", "chain"} /\ scan.persist \in BOOLEAN
<1>1. scan \in Scans
  BY DEF Types, Idle
<1> QED BY <1>1 DEF Scans

\* Where a scan goes on, and that it does so only up to its head.
LEMMA ScanGoesOn ==
    ASSUME NEW from \in Nat \ {0}, NEW head \in Nat, NEW source \in {"index", "chain"},
           NEW persist \in BOOLEAN
    PROVE  /\ Scanning(from, head, source, persist) \in {Idle} \cup Scans
           /\ Scanning(from, head, source, persist).pc # "handle"
           /\ Scanning(from, head, source, persist).pc # "idle" =>
                /\ Scanning(from, head, source, persist).at = from
                /\ Scanning(from, head, source, persist).head = head
                /\ Scanning(from, head, source, persist).source = source
                /\ Scanning(from, head, source, persist).persist = persist
BY DEF Scanning, Scans, Idle

\* The end of a window is a block up to the head.
LEMMA WindowEnds ==
    ASSUME Types, scan.pc # "idle"
    PROVE  WindowEnd \in Nat /\ WindowEnd <= scan.head
BY ScanFields, FeedAssumption DEF WindowEnd, Smaller

\* A run of the index has a target.
LEMMA IndexFields ==
    ASSUME Types
    PROVE  /\ index.last \in Nat /\ index.ready \in BOOLEAN
           /\ index = [last |-> index.last, ready |-> index.ready]
           /\ indexSync.pc = "scan" => indexSync.target \in Nat
           /\ [pc |-> "start", target |-> 0] \in IndexRunsOf
           /\ Idle.pc = "idle"
<1>1. index.last \in Nat /\ index.ready \in BOOLEAN /\ index = [last |-> index.last, ready |-> index.ready]
  BY DEF Types
<1>2. indexSync.pc = "scan" => indexSync.target \in Nat
  BY DEF Types, Idle, IndexRunsOf
<1> QED BY <1>1, <1>2 DEF IndexRunsOf, Idle

\* The length of the chain is a number.
LEMMA ChainLength ==
    ASSUME Types
    PROVE  Len(chain) \in Nat /\ DOMAIN chain = 1..Len(chain)
BY LenProperties DEF Types

-----------------------------------------------------------------------------
(* Steps of others.                                                        *)

\* The steps of the cache leave all of this alone.
LEMMA OthersKeep ==
    ASSUME Inv,
           UNCHANGED <<part, chain, index, rows, indexSync, cursor, scan, handed, unread, unindexed>>
    PROVE  Inv'
BY DEF Inv, Types, IndexLags, IndexCovers, ScanBelowHead, PassedKnown, WindowKnown, Known,
       CursorCovers, WindowEnd

\* A longer chain with the same blocks changes nothing.
LEMMA ChainGrows ==
    ASSUME Inv, chain' \in Seq(Leaves \cup {Empty}),
           NEW more \in Nat, Len(chain') = Len(chain) + more,
           \A n \in 1..Len(chain) : chain'[n] = chain[n],
           UNCHANGED <<part, index, rows, indexSync, cursor, scan, handed, unread, unindexed>>
    PROVE  Inv'
<1>1. Types'
  BY DEF Inv, Types
<1>2. PICK l \in Nat : l = Len(chain)
  BY ChainLength DEF Inv
<1>3. Len(chain') = l + more /\ \A n \in 1..l : chain'[n] = chain[n]
  BY <1>2
<1>4. Confirmations \in Nat /\ SafetyBuffer \in Nat
  BY FeedAssumption
<1>5. IndexLags'
  <2>1. index.last = 0 \/ index.last + Confirmations <= l + more
    BY <1>2, <1>4, IndexFields DEF Inv, IndexLags
  <2>2. indexSync.pc = "scan" => /\ index.last <= indexSync.target
                                 /\ indexSync.target + Confirmations <= l + more
    BY <1>2, <1>4, IndexFields DEF Inv, IndexLags
  <2> QED BY <1>3, <2>1, <2>2 DEF IndexLags
<1>6. IndexCovers'
  <2>1. index.last <= l
    BY <1>2, <1>4, IndexFields DEF Inv, IndexLags
  <2>2. \A n \in 1..index.last : n \in 1..l
    BY <2>1, <1>2, IndexFields DEF Inv
  <2> QED BY <1>3, <2>2 DEF Inv, IndexCovers
<1>7. ScanBelowHead'
  <2>1. cursor <= l + more
    BY <1>2 DEF Inv, ScanBelowHead, Types
  <2>2. scan.pc # "idle" => scan.head <= l + more
    BY <1>2, ScanFields DEF Inv, ScanBelowHead
  <2> QED BY <1>3, <2>1, <2>2 DEF Inv, ScanBelowHead
<1>8. \A n \in Nat \ {0} : n <= scan.head - SafetyBuffer /\ scan.pc # "idle" => n \in 1..l
  BY <1>2, <1>4, ScanFields DEF Inv, ScanBelowHead
<1>9. PassedKnown'
  <2>1. scan.pc # "idle" => \A n \in 1..(scan.at - 1) : n \in Nat \ {0}
    BY ScanFields DEF Inv
  <2> QED BY <1>3, <1>8, <2>1 DEF Inv, PassedKnown, Known
<1>10. WindowKnown'
  <2>1. scan.pc = "handle" => \A n \in scan.at..WindowEnd : n \in Nat \ {0}
    BY ScanFields, WindowEnds DEF Inv
  <2>2. WindowEnd' = WindowEnd
    BY DEF WindowEnd
  <2> QED BY <1>3, <1>8, <2>1, <2>2 DEF Inv, WindowKnown, Known
<1>11. CursorCovers'
  <2>1. \A n \in 1..(l + more) : n <= cursor - SafetyBuffer => n \in 1..l
    BY <1>2, <1>4 DEF Inv, ScanBelowHead, Types
  <2> QED BY <1>2, <1>3, <2>1 DEF Inv, CursorCovers
<1> QED BY <1>1, <1>5, <1>6, <1>7, <1>9, <1>10, <1>11 DEF Inv

\* A mined block
LEMMA MineKeeps ==
    ASSUME Inv, NEW b \in Contents, Mine(b)
    PROVE  Inv'
<1>1. b \in Leaves \cup {Empty}
  BY FeedAssumption DEF Contents
<1>2. chain \in Seq(Leaves \cup {Empty})
  BY DEF Inv, Types
<1>3. /\ Append(chain, b) \in Seq(Leaves \cup {Empty})
      /\ Len(Append(chain, b)) = Len(chain) + 1
      /\ \A n \in 1..Len(chain) : Append(chain, b)[n] = chain[n]
  BY <1>1, <1>2, AppendProperties
<1> QED BY <1>3, ChainGrows DEF Mine, Quiet, relay, signer, history

\* What replaces the last blocks makes a chain of the same length.
LEMMA ReorgBlocks ==
    ASSUME chain \in Seq(Leaves \cup {Empty}),
           NEW k \in 1..Len(chain), NEW blocks \in [1..k -> Contents]
    PROVE  LET new == SubSeq(chain, 1, Len(chain) - k) \o blocks IN
           /\ new \in Seq(Leaves \cup {Empty})
           /\ Len(new) = Len(chain)
           /\ Len(SubSeq(chain, 1, Len(chain) - k)) = Len(chain) - k
           /\ \A n \in 1..(Len(chain) - k) : new[n] = chain[n]
<1> DEFINE S == Leaves \cup {Empty}
           kept == SubSeq(chain, 1, Len(chain) - k)
<1>1. Contents \subseteq S
  BY FeedAssumption DEF Contents
<1>2. k \in Nat /\ Len(chain) \in Nat /\ k <= Len(chain)
  BY LenProperties
<1>3. blocks \in Seq(S) /\ Len(blocks) = k
  BY <1>1, <1>2
<1>4. \A n \in 1..(Len(chain) - k) : chain[n] \in S
  BY <1>2, ElementOfSeq
<1>5. /\ kept \in Seq(S)
      /\ Len(kept) = Len(chain) - k
      /\ \A n \in 1..(Len(chain) - k) : kept[n] = chain[n]
  <2>1. 1 \in Int /\ Len(chain) - k \in Int
    BY <1>2
  <2>2. kept \in Seq(S) /\ Len(kept) = IF 1 <= Len(chain) - k THEN Len(chain) - k - 1 + 1 ELSE 0
    BY <1>4, <2>1, SubSeqProperties
  <2>3. \A n \in 1..(Len(chain) - k - 1 + 1) : kept[n] = chain[1 + n - 1]
    BY <1>4, <2>1, SubSeqProperties
  <2> QED BY <1>2, <2>2, <2>3
<1>6. /\ kept \o blocks \in Seq(S)
      /\ Len(kept \o blocks) = Len(kept) + Len(blocks)
      /\ \A n \in 1..(Len(kept) + Len(blocks)) :
            (kept \o blocks)[n] = IF n <= Len(kept) THEN kept[n] ELSE blocks[n - Len(kept)]
  BY <1>3, <1>5, ConcatProperties
<1> HIDE DEF kept
<1>7. Len(kept \o blocks) = Len(chain)
  <2>1. PICK a \in Nat : a = Len(chain)
    BY <1>2
  <2>2. Len(kept) = a - k /\ Len(blocks) = k
    BY <2>1, <1>3, <1>5
  <2> QED BY <1>2, <1>6, <2>1, <2>2
<1>8. \A n \in 1..(Len(chain) - k) : (kept \o blocks)[n] = chain[n]
  <2> SUFFICES ASSUME NEW n \in 1..(Len(chain) - k) PROVE (kept \o blocks)[n] = chain[n]
    OBVIOUS
  <2>1. n \in 1..(Len(kept) + Len(blocks)) /\ n <= Len(kept)
    BY <1>2, <1>3, <1>5
  <2> QED BY <1>5, <1>6, <2>1
<1> QED BY <1>5, <1>6, <1>7, <1>8 DEF kept

\* A reorganisation replaces no block SAFETY_BUFFER below a head, and none that
\* the index has unless it is deeper than CONFIRMATIONS.
LEMMA ReorgKeeps ==
    ASSUME Inv, MaxReorg <= SafetyBuffer, Reorg
    PROVE  Inv'
<1>1. Types /\ chain \in Seq(Leaves \cup {Empty})
  BY DEF Inv, Types
<1>2. PICK l \in Nat : l = Len(chain)
  BY <1>1, ChainLength
<1>3. /\ Confirmations \in Nat /\ SafetyBuffer \in Nat /\ MaxReorg \in Nat
  BY FeedAssumption
<1>4. PICK k \in 1..Smaller(MaxReorg, Len(chain)) :
        \E blocks \in [1..k -> Contents] :
            /\ chain' = SubSeq(chain, 1, Len(chain) - k) \o blocks
            /\ unindexed' = unindexed \cup
                 {b \in Bets : k > Confirmations /\
                    \E n \in (Len(SubSeq(chain, 1, Len(chain) - k)) + 1)..index.last :
                        chain'[n] = b /\ <<b, n>> \notin rows}
  BY DEF Reorg
<1>5. k \in 1..l /\ k \in Nat /\ k <= MaxReorg
  BY <1>2, <1>3, <1>4 DEF Smaller
<1>6. UNCHANGED <<part, index, rows, indexSync, cursor, scan, handed, unread>>
  BY DEF Reorg, Quiet, relay, signer
<1>7. PICK blocks \in [1..k -> Contents] :
            /\ chain' = SubSeq(chain, 1, Len(chain) - k) \o blocks
            /\ unindexed' = unindexed \cup
                 {b \in Bets : k > Confirmations /\
                    \E n \in (Len(SubSeq(chain, 1, Len(chain) - k)) + 1)..index.last :
                        chain'[n] = b /\ <<b, n>> \notin rows}
  BY <1>4
<1>8. /\ chain' \in Seq(Leaves \cup {Empty})
      /\ Len(chain') = l
      /\ Len(SubSeq(chain, 1, Len(chain) - k)) = l - k
      /\ \A n \in 1..(l - k) : chain'[n] = chain[n]
  BY <1>1, <1>2, <1>5, <1>7, ReorgBlocks
<1>9. unindexed' = unindexed \cup
         {b \in Bets : k > Confirmations /\
            \E n \in (l - k + 1)..index.last : chain'[n] = b /\ <<b, n>> \notin rows}
  BY <1>7, <1>8
<1>10. unindexed \subseteq unindexed'
  BY <1>9
<1>11. Types'
  BY <1>6, <1>8 DEF Inv, Types
<1>12. IndexLags'
  BY <1>2, <1>6, <1>8 DEF Inv, IndexLags
<1>13. IndexCovers'
  <2> SUFFICES ASSUME NEW n \in 1..index.last, chain'[n] \in Bets
               PROVE  <<chain'[n], n>> \in rows \/ chain'[n] \in unindexed'
    BY <1>6 DEF IndexCovers
  <2>1. n \in Nat \ {0} /\ n <= index.last /\ index.last \in Nat
    BY <1>1, IndexFields
  <2>2. CASE n <= l - k
    <3>1. chain'[n] = chain[n]
      BY <1>2, <1>5, <1>8, <2>1, <2>2
    <3> QED BY <1>10, <3>1 DEF Inv, IndexCovers
  <2>3. CASE ~(n <= l - k)
    <3>1. index.last + Confirmations <= l
      BY <1>2, <2>1 DEF Inv, IndexLags
    <3>2. k > Confirmations /\ n \in (l - k + 1)..index.last
      BY <1>3, <1>5, <2>1, <2>3, <3>1
    <3> QED BY <1>9, <3>2
  <2> QED BY <2>2, <2>3
<1>14. ScanBelowHead'
  BY <1>2, <1>6, <1>8 DEF Inv, ScanBelowHead
<1>15. \A n \in Nat \ {0}, head \in Nat : n <= head - SafetyBuffer /\ head <= l => n \in 1..(l - k)
  BY <1>3, <1>5
<1>16. scan.pc # "idle" => scan.head \in Nat /\ scan.head <= l
  BY <1>1, <1>2, ScanFields DEF Inv, ScanBelowHead
<1>17. PassedKnown'
  <2>1. scan.pc # "idle" => \A n \in 1..(scan.at - 1) : n \in Nat \ {0}
    BY <1>1, ScanFields
  <2> QED BY <1>6, <1>8, <1>10, <1>15, <1>16, <2>1 DEF Inv, PassedKnown, Known
<1>18. WindowKnown'
  <2>1. scan.pc = "handle" => \A n \in scan.at..WindowEnd : n \in Nat \ {0}
    BY <1>1, ScanFields, WindowEnds
  <2>2. WindowEnd' = WindowEnd
    BY <1>6 DEF WindowEnd
  <2> QED BY <1>6, <1>8, <1>10, <1>15, <1>16, <2>1, <2>2 DEF Inv, WindowKnown, Known
<1>19. CursorCovers'
  <2>1. \A n \in 1..l : n <= cursor - SafetyBuffer => n \in 1..(l - k)
    BY <1>2, <1>15 DEF Inv, ScanBelowHead, Types
  <2> QED BY <1>2, <1>6, <1>8, <1>10, <2>1 DEF Inv, CursorCovers
<1> QED BY <1>11, <1>12, <1>13, <1>14, <1>17, <1>18, <1>19 DEF Inv

-----------------------------------------------------------------------------
(* Steps of the index.                                                     *)

\* What a run of the index may do as long as it stays CONFIRMATIONS behind
LEMMA IndexMoves ==
    ASSUME Inv, index' \in [last : Nat, ready : BOOLEAN], index.last <= index'.last,
           indexSync' \in {Idle} \cup IndexRunsOf,
           IndexLags', IndexCovers', rows' \subseteq Bets \X Nat,
           unindexed \subseteq unindexed',
           UNCHANGED <<part, chain, cursor, scan, handed, unread>>
    PROVE  Inv'
<1>1. Types'
  BY DEF Inv, Types
<1>2. ScanBelowHead'
  <2>1. PICK u \in [last : Nat, ready : BOOLEAN] : u = index'
    OBVIOUS
  <2>2. index.last \in Nat /\ index.last <= u.last
    BY <2>1, IndexFields DEF Inv
  <2>3. scan.pc # "idle" /\ scan.source = "index" => scan.head <= u.last
    BY <2>2, ScanFields DEF Inv, ScanBelowHead
  <2> QED BY <2>1, <2>3 DEF Inv, ScanBelowHead
<1>3. Known \subseteq Known'
  BY DEF Known
<1>4. PassedKnown'
  BY <1>3 DEF Inv, PassedKnown
<1>5. WindowKnown'
  <2>1. WindowEnd' = WindowEnd
    BY DEF WindowEnd
  <2> QED BY <1>3, <2>1 DEF Inv, WindowKnown
<1>6. CursorCovers'
  BY DEF Inv, CursorCovers
<1> QED BY <1>1, <1>2, <1>4, <1>5, <1>6 DEF Inv

\* A new run, or none
LEMMA IndexRunKeeps ==
    ASSUME Inv, NEW ready \in BOOLEAN, index' = [index EXCEPT !.ready = ready],
           \/ indexSync' = Idle
           \/ indexSync' = [pc |-> "start", target |-> 0]
           \/ \E head \in 0..Len(chain) :
                /\ head - Confirmations > index.last
                /\ indexSync' = [pc |-> "scan", target |-> head - Confirmations],
           UNCHANGED <<part, chain, rows, cursor, scan, handed, unread, unindexed>>
    PROVE  Inv'
<1>1. /\ index.last \in Nat /\ index' \in [last : Nat, ready : BOOLEAN]
      /\ index'.last = index.last
  BY DEF Inv, Types
<1>2. Len(chain) \in Nat /\ Confirmations \in Nat
  BY ChainLength, FeedAssumption DEF Inv
<1>3. /\ indexSync' \in {Idle} \cup IndexRunsOf
      /\ indexSync'.pc = "scan" =>
            /\ index.last <= indexSync'.target
            /\ indexSync'.target + Confirmations <= Len(chain)
  <2>1. CASE indexSync' = Idle
    BY <2>1, IndexFields DEF Inv
  <2>2. CASE indexSync' = [pc |-> "start", target |-> 0]
    BY <2>2 DEF IndexRunsOf
  <2>3. ASSUME NEW head \in 0..Len(chain), head - Confirmations > index.last,
               indexSync' = [pc |-> "scan", target |-> head - Confirmations]
        PROVE  /\ indexSync' \in IndexRunsOf
               /\ index.last <= indexSync'.target
               /\ indexSync'.target + Confirmations <= Len(chain)
    <3>1. PICK t \in Nat : t = head - Confirmations
      BY <1>1, <1>2, <2>3
    <3>2. index.last <= t /\ t + Confirmations <= Len(chain)
      BY <1>1, <1>2, <2>3, <3>1
    <3>3. indexSync' = [pc |-> "scan", target |-> t]
      BY <2>3, <3>1
    <3> QED BY <3>2, <3>3 DEF IndexRunsOf
  <2> QED BY <2>1, <2>2, <2>3
<1>4. IndexLags'
  BY <1>1, <1>3 DEF Inv, IndexLags
<1>5. IndexCovers'
  BY <1>1 DEF Inv, IndexCovers
<1>6. rows' \subseteq Bets \X Nat
  BY DEF Inv, Types
<1> QED BY <1>1, <1>2, <1>3, <1>4, <1>5, <1>6, IndexMoves

\* The run starts, or ends with an error, or the relay starts.
LEMMA IndexStartKeeps ==
    ASSUME Inv, indexSyncStart \/ indexLoad \/ indexSyncThrows \/ RelayRestarts
    PROVE  Inv'
<1>1. index = [index EXCEPT !.ready = index.ready] /\ index.ready \in BOOLEAN
  BY DEF Inv, Types
<1>2. getCachedBlockNumber \subseteq 0..Len(chain)
  BY DEF getCachedBlockNumber
<1>3. CASE indexSyncStart
  BY <1>1, <1>2, <1>3, IndexRunKeeps DEF indexSyncStart, OfBets, Quiet, signer, history
<1>4. CASE indexLoad
  <2>1. PICK head \in getCachedBlockNumber :
            LET target == head - Confirmations IN
            /\ index' = [index EXCEPT !.ready = target <= index.last]
            /\ indexSync' = IF target <= index.last THEN Idle
                            ELSE [pc |-> "scan", target |-> target]
            /\ UNCHANGED <<part, chain, rows, cursor, scan, handed, unread, unindexed>>
    BY <1>4 DEF indexLoad, OfBets, Quiet, signer, history
  <2>2. (head - Confirmations <= index.last) \in BOOLEAN
    OBVIOUS
  <2>3. head \in 0..Len(chain) /\ head \in Int /\ Confirmations \in Nat /\ index.last \in Nat
    BY <1>2, FeedAssumption, ChainLength, IndexFields DEF Inv
  <2>4. ~(head - Confirmations <= index.last) => head - Confirmations > index.last
    BY <2>3
  <2> QED BY <2>1, <2>2, <2>3, <2>4, IndexRunKeeps
<1>5. CASE indexSyncThrows
  BY <1>1, <1>5, IndexRunKeeps DEF indexSyncThrows, OfBets, Quiet, signer, history
<1>6. CASE RelayRestarts
  BY <1>6, IndexRunKeeps DEF RelayRestarts, Quiet, signer, history
<1> QED BY <1>3, <1>4, <1>5, <1>6

\* A window brings a row for each of its bets, or never will.
LEMMA IndexWindowKeeps ==
    ASSUME Inv, indexSyncWindow
    PROVE  Inv'
<1> DEFINE end == Smaller(index.last + ScanWindow, indexSync.target)
<1>1. /\ indexSync.pc = "scan"
      /\ index' = [last |-> end, ready |-> index.ready \/ end = indexSync.target]
      /\ indexSync' = IF end = indexSync.target THEN Idle ELSE indexSync
      /\ UNCHANGED <<part, chain, cursor, scan, handed, unread>>
  BY DEF indexSyncWindow, OfBets, Quiet, signer
<1>2. PICK ns \in SUBSET ((index.last + 1)..end) :
        /\ rows' = rows \cup {<<chain[n], n>> : n \in {k \in ns : chain[k] \in Bets}}
        /\ unindexed' = unindexed \cup
             (Bets \cap {chain[n] : n \in Logs(index.last + 1, end) \ ns})
  BY DEF indexSyncWindow
<1>3. /\ index.last \in Nat /\ indexSync.target \in Nat /\ ScanWindow \in Nat \ {0}
      /\ Len(chain) \in Nat /\ Confirmations \in Nat
      /\ index.last <= indexSync.target
      /\ indexSync.target + Confirmations <= Len(chain)
  BY <1>1, IndexFields, ChainLength, FeedAssumption DEF Inv, IndexLags
<1>4. PICK e \in Nat : e = end
  BY <1>3 DEF Smaller
<1>5. index.last <= e /\ e <= indexSync.target /\ e + Confirmations <= Len(chain)
  BY <1>3, <1>4 DEF Smaller
<1> HIDE DEF end
<1>6. /\ index' \in [last : Nat, ready : BOOLEAN] /\ index'.last = e
      /\ indexSync' \in {Idle, indexSync}
  BY <1>1, <1>4
<1>7. indexSync' \in {Idle} \cup IndexRunsOf
  BY <1>6 DEF Inv, Types
<1>8. IndexLags'
  <2>1. indexSync'.pc = "scan" => indexSync' = indexSync
    BY <1>6, IndexFields DEF Inv
  <2> QED BY <1>1, <1>3, <1>5, <1>6, <2>1 DEF IndexLags
<1>9. IndexCovers'
  <2> SUFFICES ASSUME NEW n \in 1..e, chain[n] \in Bets
               PROVE  <<chain[n], n>> \in rows' \/ chain[n] \in unindexed'
    BY <1>1, <1>6 DEF IndexCovers
  <2>1. CASE n \in 1..index.last
    BY <1>2, <2>1 DEF Inv, IndexCovers
  <2>2. CASE n \in ns
    BY <1>2, <2>2
  <2>3. CASE n \notin 1..index.last /\ n \notin ns
    <3>1. n \in (index.last + 1)..e /\ n <= Len(chain)
      BY <1>3, <1>5, <2>3
    <3>2. chain[n] # Empty
      BY FeedAssumption
    <3>3. n \in Logs(index.last + 1, end) \ ns
      BY <1>4, <2>3, <3>1, <3>2 DEF Logs
    <3> QED BY <1>2, <3>3
  <2> QED BY <2>1, <2>2, <2>3
<1>10. rows' \subseteq Bets \X Nat
  <2>1. \A n \in (index.last + 1)..e : n \in Nat
    BY <1>3
  <2>2. {<<chain[n], n>> : n \in {k \in ns : chain[k] \in Bets}} \subseteq Bets \X Nat
    BY <1>4, <2>1
  <2> QED BY <1>2, <2>2 DEF Inv, Types
<1> QED BY <1>1, <1>2, <1>3, <1>5, <1>6, <1>7, <1>8, <1>9, <1>10, IndexMoves

\* The relay builds its database again in the part where no scan runs.
LEMMA ResyncKeeps ==
    ASSUME Inv, resyncMerkle
    PROVE  Inv'
<1>1. /\ index' = [last |-> 0, ready |-> FALSE] /\ rows' = {}
      /\ indexSync' = [pc |-> "start", target |-> 0]
      /\ UNCHANGED <<part, chain, cursor, scan, handed, unread, unindexed>>
      /\ scan = Idle
  BY DEF resyncMerkle, OfTree, Quiet, signer, Inv, ScanBelowHead
<1>2. Types'
  BY <1>1 DEF Inv, Types, IndexRunsOf
<1>3. IndexLags' /\ IndexCovers'
  BY <1>1 DEF IndexLags, IndexCovers
<1>4. ScanBelowHead' /\ PassedKnown' /\ WindowKnown'
  BY <1>1 DEF Inv, ScanBelowHead, PassedKnown, WindowKnown, Idle
<1>5. CursorCovers'
  BY <1>1 DEF Inv, CursorCovers
<1> QED BY <1>2, <1>3, <1>4, <1>5 DEF Inv

-----------------------------------------------------------------------------
(* Steps of the scan.                                                      *)

\* What a step of the scan may do: it leaves the chain and the index alone.
LEMMA ScanMoves ==
    ASSUME Inv, part = "bets", scan' \in {Idle} \cup Scans,
           cursor' \in Nat, cursor' <= Len(chain),
           handed \subseteq handed', unread \subseteq unread',
           scan'.pc # "idle" =>
             /\ scan'.head <= Len(chain)
             /\ scan'.source = "index" => scan'.head <= index.last,
           PassedKnown', WindowKnown', CursorCovers',
           UNCHANGED <<part, chain, index, rows, indexSync, unindexed>>
    PROVE  Inv'
<1>1. Types' /\ IndexLags' /\ IndexCovers'
  BY DEF Inv, Types, IndexLags, IndexCovers
<1>2. ScanBelowHead'
  BY DEF ScanBelowHead
<1> QED BY <1>1, <1>2 DEF Inv

\* A scan that ends, or that starts where everything before it is known.
LEMMA ScanStarts ==
    ASSUME Inv, part = "bets",
           NEW from \in Nat \ {0}, NEW head \in Nat, NEW source \in {"index", "chain"},
           NEW persist \in BOOLEAN,
           head <= Len(chain), source = "index" => head <= index.last,
           scan' = Scanning(from, head, source, persist),
           NEW to \in Nat, cursor' = to, to <= Len(chain),
           \A n \in 1..Len(chain) :
               chain[n] \in Bets /\ n <= to - SafetyBuffer => chain[n] \in Known,
           persist => \A n \in 1..(from - 1) :
                         n <= head - SafetyBuffer /\ chain[n] \in Bets => chain[n] \in Known,
           UNCHANGED <<part, chain, index, rows, indexSync, handed, unread, unindexed>>
    PROVE  Inv'
<1>1. /\ scan' \in {Idle} \cup Scans /\ scan'.pc # "handle"
      /\ scan'.pc # "idle" => /\ scan'.at = from /\ scan'.head = head
                              /\ scan'.source = source /\ scan'.persist = persist
  BY ScanGoesOn
<1>2. Known' = Known
  BY DEF Known
<1>3. PassedKnown'
  BY <1>1, <1>2 DEF PassedKnown
<1>4. WindowKnown'
  BY <1>1 DEF WindowKnown
<1>5. CursorCovers'
  BY DEF CursorCovers, Known
<1> QED BY <1>1, <1>3, <1>4, <1>5, ScanMoves

\* The head that a scan takes is one its source has reached.
LEMMA HeadReached ==
    ASSUME Inv, NEW head \in 0..Len(chain), NEW source \in {"index", "chain"},
           scanHead(head, source)
    PROVE  head \in Nat /\ head <= Len(chain) /\ (source = "index" => head <= index.last)
BY ChainLength, IndexFields DEF scanHead, Inv

\* The cursor's own promise, in the words of ScanStarts
LEMMA CursorKnown ==
    ASSUME Inv
    PROVE  /\ cursor \in Nat /\ cursor <= Len(chain)
           /\ \A n \in 1..Len(chain) :
                 chain[n] \in Bets /\ n <= cursor - SafetyBuffer => chain[n] \in Known
BY DEF Inv, Types, ScanBelowHead, CursorCovers, Known

\* The catch-up starts SAFETY_BUFFER behind the cursor, so what lies before is known.
LEMMA CatchUpKeeps ==
    ASSUME Inv, catchUpMissedBets
    PROVE  Inv'
<1>1. part = "bets" /\ UNCHANGED <<part, chain, index, rows, indexSync, cursor, handed, unread, unindexed>>
  BY DEF catchUpMissedBets, OfBets, Quiet, relay, history
<1>2. PICK head \in 0..Len(chain), source \in {"index", "chain"} :
        /\ scanHead(head, source)
        /\ scan' = Scanning(Larger(1, Smaller(cursor, head) - SafetyBuffer), head, source, TRUE)
  BY DEF catchUpMissedBets
<1>3. head \in Nat /\ head <= Len(chain) /\ (source = "index" => head <= index.last)
  BY <1>2, HeadReached
<1>4. PICK from \in Nat \ {0} : from = Larger(1, Smaller(cursor, head) - SafetyBuffer)
  <2>1. Larger(1, Smaller(cursor, head) - SafetyBuffer) \in Nat \ {0}
    BY <1>3, CursorKnown, FeedAssumption DEF Larger, Smaller
  <2> QED BY <2>1
<1>5. \A n \in 1..(from - 1) : n \in 1..Len(chain) /\ n <= cursor - SafetyBuffer
  BY <1>3, <1>4, CursorKnown, ChainLength, FeedAssumption DEF Larger, Smaller, Inv
<1>6. \A n \in 1..(from - 1) :
          n <= head - SafetyBuffer /\ chain[n] \in Bets => chain[n] \in Known
  BY <1>5, CursorKnown
<1> QED BY <1>1, <1>2, <1>3, <1>4, <1>6, CursorKnown, ScanStarts

\* The sweep does not move the cursor.
LEMMA SweepKeeps ==
    ASSUME Inv, deepSweep
    PROVE  Inv'
<1>1. part = "bets" /\ UNCHANGED <<part, chain, index, rows, indexSync, cursor, handed, unread, unindexed>>
  BY DEF deepSweep, OfBets, Quiet, relay, history
<1>2. PICK head \in 0..Len(chain), source \in {"index", "chain"} :
        /\ scanHead(head, source)
        /\ scan' = Scanning(Larger(1, Smaller(Len(chain) - Lookback, head)), head, source, FALSE)
  BY DEF deepSweep
<1>3. head \in Nat /\ head <= Len(chain) /\ (source = "index" => head <= index.last)
  BY <1>2, HeadReached
<1>4. PICK from \in Nat \ {0} : from = Larger(1, Smaller(Len(chain) - Lookback, head))
  <2>1. PICK start \in Int : start = Len(chain) - Lookback
    <3>1. Len(chain) \in Nat /\ Lookback \in Nat
      BY ChainLength, FeedAssumption DEF Inv
    <3>2. Len(chain) - Lookback \in Int
      BY <3>1
    <3> QED BY <3>2
  <2>2. Larger(1, Smaller(start, head)) \in Nat \ {0}
    BY <1>3 DEF Larger, Smaller
  <2> QED BY <2>1, <2>2
<1> QED BY <1>1, <1>2, <1>3, <1>4, CursorKnown, ScanStarts

\* A scan that ends before its head leaves the cursor where it is.
LEMMA ScanEndsKeeps ==
    ASSUME Inv, catchUpThrows \/ SignerRestarts
    PROVE  Inv'
<1>1. /\ part = "bets" /\ scan' = Idle
      /\ UNCHANGED <<part, chain, index, rows, indexSync, cursor, handed, unread, unindexed>>
  BY DEF catchUpThrows, SignerRestarts, OfBets, Quiet, relay, history
<1>2. scan'.pc = "idle"
  BY <1>1 DEF Idle
<1>3. PassedKnown' /\ WindowKnown'
  BY <1>2 DEF PassedKnown, WindowKnown
<1>4. CursorCovers'
  BY <1>1 DEF Inv, CursorCovers
<1> QED BY <1>1, <1>2, <1>3, <1>4, CursorKnown, ScanMoves

\* Every bet in the window of a fetch is known or about to be handled, whoever
\* answered: the index up to its last block, or the chain.
LEMMA FetchKeeps ==
    ASSUME Inv, fetchBetAuthorized
    PROVE  Inv'
<1>1. /\ part = "bets" /\ scan.pc = "fetch"
      /\ UNCHANGED <<part, chain, index, rows, indexSync, cursor, handed, unindexed>>
  BY DEF fetchBetAuthorized, OfBets, Quiet, relay
<1>2. /\ scan \in Scans /\ scan.at \in Nat \ {0} /\ scan.head \in Nat
      /\ WindowEnd \in Nat /\ WindowEnd <= scan.head
      /\ scan.head <= Len(chain) /\ Len(chain) \in Nat
      /\ scan.source = "index" => scan.head <= index.last
      /\ index.last \in Nat
  BY <1>1, ScanFields, WindowEnds, ChainLength, IndexFields DEF Inv, ScanBelowHead
<1>3. \A n \in scan.at..WindowEnd :
         chain[n] \in Bets => n \in Logs(scan.at, WindowEnd) /\ n \in 1..scan.head
  BY <1>2, FeedAssumption DEF Logs
<1>4. \E todo \in SUBSET Bets :
        /\ scan' = [scan EXCEPT !.pc = "handle", !.todo = todo]
        /\ unread \subseteq unread'
        /\ \A n \in scan.at..WindowEnd :
              chain[n] \in Bets => chain[n] \in Known' \cup todo
  <2>1. CASE /\ scan.source = "index"
             /\ scan' = [scan EXCEPT !.pc = "handle",
                           !.todo = betAuthorizedEvents(scan.at, WindowEnd)]
             /\ UNCHANGED unread
    <3>1. \A n \in scan.at..WindowEnd : chain[n] \in Bets =>
              <<chain[n], n>> \in rows \/ chain[n] \in unindexed
      <4>1. \A n \in 1..scan.head : n \in 1..index.last
        BY <1>2, <2>1
      <4> QED BY <1>3, <4>1 DEF Inv, IndexCovers
    <3>2. \A n \in scan.at..WindowEnd : chain[n] \in Bets =>
              chain[n] \in betAuthorizedEvents(scan.at, WindowEnd) \/ chain[n] \in Known'
      <4>1. \A b, n : <<b, n>> \in rows /\ n \in scan.at..WindowEnd
                         => b \in betAuthorizedEvents(scan.at, WindowEnd)
        <5> SUFFICES ASSUME NEW b, NEW n, <<b, n>> \in rows, n \in scan.at..WindowEnd
                     PROVE  b \in betAuthorizedEvents(scan.at, WindowEnd)
          OBVIOUS
        <5>1. <<b, n>>[1] = b /\ <<b, n>>[2] = n
          OBVIOUS
        <5> QED BY <5>1 DEF betAuthorizedEvents
      <4>2. unindexed \subseteq Known'
        BY <1>1 DEF Known
      <4> QED BY <3>1, <4>1, <4>2
    <3> DEFINE todo == Bets \cap betAuthorizedEvents(scan.at, WindowEnd)
    <3>3. todo = betAuthorizedEvents(scan.at, WindowEnd)
      BY DEF betAuthorizedEvents, Inv, Types
    <3> QED BY <2>1, <3>2, <3>3
  <2>2. CASE /\ scan' = [scan EXCEPT !.pc = "handle",
                           !.todo = Bets \cap {chain[n] : n \in Logs(scan.at, WindowEnd)}]
             /\ UNCHANGED unread
    <3> DEFINE todo == Bets \cap {chain[n] : n \in Logs(scan.at, WindowEnd)}
    <3>1. \A n \in scan.at..WindowEnd : chain[n] \in Bets => chain[n] \in todo
      BY <1>3
    <3>2. todo \in SUBSET Bets /\ scan' = [scan EXCEPT !.pc = "handle", !.todo = todo]
      BY <2>2
    <3> HIDE DEF todo
    <3> QED BY <2>2, <3>1, <3>2
  <2>3. ASSUME NEW got \in SUBSET Bets, NEW missed \in SUBSET Bets,
               queryFilterChunked(scan.at, WindowEnd, got, missed),
               scan' = [scan EXCEPT !.pc = "handle", !.todo = got],
               unread' = unread \cup missed
        PROVE  \A n \in scan.at..WindowEnd : chain[n] \in Bets => chain[n] \in Known' \cup got
    <3>1. PICK ns \in SUBSET (scan.at..WindowEnd) :
            /\ got = Bets \cap {chain[n] : n \in ns}
            /\ missed = Bets \cap {chain[n] : n \in Logs(scan.at, WindowEnd) \ ns}
      BY <2>3 DEF queryFilterChunked
    <3> SUFFICES ASSUME NEW n \in scan.at..WindowEnd, chain[n] \in Bets
                 PROVE  chain[n] \in unread' \cup got
      BY DEF Known
    <3>2. n \in Logs(scan.at, WindowEnd)
      BY <1>3
    <3>3. CASE n \in ns
      BY <3>1, <3>3
    <3>4. CASE n \notin ns
      BY <2>3, <3>1, <3>2, <3>4
    <3> QED BY <3>3, <3>4
  <2> QED BY <2>1, <2>2, <2>3 DEF fetchBetAuthorized
<1>5. PICK todo \in SUBSET Bets :
        /\ scan' = [scan EXCEPT !.pc = "handle", !.todo = todo]
        /\ unread \subseteq unread'
        /\ \A n \in scan.at..WindowEnd :
              chain[n] \in Bets => chain[n] \in Known' \cup todo
  BY <1>4
<1>6. /\ scan' \in Scans /\ scan'.at = scan.at /\ scan'.head = scan.head /\ scan'.todo = todo
      /\ scan'.source = scan.source /\ scan'.persist = scan.persist
  BY <1>2, <1>5 DEF Scans
<1>7. Known \subseteq Known'
  BY <1>1, <1>5 DEF Known
<1>8. PassedKnown'
  BY <1>1, <1>6, <1>7 DEF Inv, PassedKnown
<1>9. WindowKnown'
  <2>1. WindowEnd' = WindowEnd
    BY <1>6 DEF WindowEnd
  <2> QED BY <1>1, <1>5, <1>6, <2>1 DEF WindowKnown
<1>10. CursorCovers'
  BY <1>1, <1>5 DEF Inv, CursorCovers
<1> QED BY <1>1, <1>2, <1>5, <1>6, <1>8, <1>9, <1>10, CursorKnown, ScanMoves

\* A bet that is handled is handed over or not read, or it is no longer on chain.
LEMMA HandleKeeps ==
    ASSUME Inv, NEW b \in Bets, handleBetRecord(b)
    PROVE  Inv'
<1>1. /\ part = "bets" /\ scan.pc = "handle"
      /\ scan' = [scan EXCEPT !.todo = @ \ {b}]
      /\ UNCHANGED <<part, chain, index, rows, indexSync, cursor, unindexed>>
  BY DEF handleBetRecord, OfBets, Quiet, relay
<1>2. /\ handed \subseteq handed' /\ unread \subseteq unread'
      /\ b \notin Range(chain) \/ b \in handed' \cup unread'
  BY DEF handleBetRecord
<1>3. /\ scan \in Scans /\ scan.at \in Nat \ {0} /\ scan.head \in Nat
      /\ WindowEnd <= scan.head
      /\ WindowEnd \in Nat /\ scan.head <= Len(chain)
      /\ scan.source = "index" => scan.head <= index.last
  BY <1>1, ScanFields, WindowEnds DEF Inv, ScanBelowHead
<1>4. /\ scan' \in Scans /\ scan'.at = scan.at /\ scan'.head = scan.head
      /\ scan'.todo = scan.todo \ {b}
      /\ scan'.source = scan.source /\ scan'.persist = scan.persist
  <2>1. PICK todo \in SUBSET Bets : todo = scan.todo \ {b}
    BY <1>3 DEF Scans
  <2>2. scan' = [scan EXCEPT !.todo = todo]
    BY <1>1, <2>1
  <2> QED BY <1>3, <2>1, <2>2 DEF Scans
<1>5. Known \subseteq Known'
  BY <1>1, <1>2 DEF Known
<1>6. PassedKnown'
  BY <1>1, <1>4, <1>5 DEF Inv, PassedKnown
<1>7. WindowKnown'
  <2>1. WindowEnd' = WindowEnd
    BY <1>4 DEF WindowEnd
  <2>2. \A n \in scan.at..WindowEnd : chain[n] = b => b \in Known'
    <3>1. \A n \in scan.at..WindowEnd : n \in DOMAIN chain
      <4>1. Len(chain) \in Nat /\ DOMAIN chain = 1..Len(chain)
        BY ChainLength DEF Inv
      <4>2. \A n \in scan.at..WindowEnd : n \in 1..Len(chain)
        BY <1>3, <4>1
      <4> QED BY <4>1, <4>2
    <3> QED BY <1>2, <3>1 DEF Range, Known
  <2> QED BY <1>1, <1>4, <1>5, <2>1, <2>2 DEF Inv, WindowKnown
<1>8. CursorCovers'
  BY <1>1, <1>2 DEF Inv, CursorCovers
<1>9. /\ cursor' \in Nat /\ cursor' <= Len(chain)
      /\ scan'.head <= Len(chain)
      /\ scan'.source = "index" => scan'.head <= index.last
  BY <1>1, <1>3, <1>4, CursorKnown
<1> QED BY <1>1, <1>2, <1>4, <1>6, <1>7, <1>8, <1>9, ScanMoves

\* The cursor moves to the end of a window that has nothing left to handle.
LEMMA SaveKeeps ==
    ASSUME Inv, saveLastBlock
    PROVE  Inv'
<1>1. /\ part = "bets" /\ scan.pc = "handle" /\ scan.todo = {}
      /\ cursor' = IF scan.persist THEN WindowEnd ELSE cursor
      /\ scan' = Scanning(WindowEnd + 1, scan.head, scan.source, scan.persist)
      /\ UNCHANGED <<part, chain, index, rows, indexSync, handed, unread, unindexed>>
  BY DEF saveLastBlock, OfBets, Quiet, relay, history
<1>2. /\ scan.at \in Nat \ {0} /\ scan.head \in Nat /\ scan.head <= Len(chain)
      /\ WindowEnd \in Nat /\ WindowEnd <= scan.head
      /\ scan.source \in {"index", "chain"} /\ scan.persist \in BOOLEAN
      /\ scan.source = "index" => scan.head <= index.last
  BY <1>1, ScanFields, WindowEnds DEF Inv, ScanBelowHead
<1>3. scan.persist => \A n \in 1..WindowEnd :
         n <= scan.head - SafetyBuffer /\ chain[n] \in Bets => chain[n] \in Known
  <2>1. \A n \in 1..WindowEnd : n \in 1..(scan.at - 1) \/ n \in scan.at..WindowEnd
    BY <1>2
  <2> QED BY <1>1, <2>1 DEF Inv, PassedKnown, WindowKnown
<1>4. PICK to \in Nat : to = cursor'
  BY <1>1, <1>2, CursorKnown
<1>5. to <= Len(chain)
  BY <1>1, <1>2, <1>4, CursorKnown, ChainLength DEF Inv
<1>6. \A n \in 1..Len(chain) :
         chain[n] \in Bets /\ n <= to - SafetyBuffer => chain[n] \in Known
  <2>1. CASE scan.persist
    <3>1. to = WindowEnd
      BY <1>1, <1>4, <2>1
    <3>2. \A n \in 1..Len(chain) : n <= to - SafetyBuffer =>
             n \in 1..WindowEnd /\ n <= scan.head - SafetyBuffer
      BY <1>2, <3>1, FeedAssumption, ChainLength DEF Inv
    <3> QED BY <1>3, <2>1, <3>2
  <2>2. CASE ~scan.persist
    BY <1>1, <1>4, <2>2, CursorKnown
  <2> QED BY <2>1, <2>2
<1>7. PICK from \in Nat \ {0} : from = WindowEnd + 1
  BY <1>2
<1>8. scan.persist => \A n \in 1..(from - 1) :
         n <= scan.head - SafetyBuffer /\ chain[n] \in Bets => chain[n] \in Known
  <2>1. from - 1 = WindowEnd
    BY <1>2, <1>7
  <2> QED BY <1>3, <2>1
<1> QED BY <1>1, <1>2, <1>4, <1>5, <1>6, <1>7, <1>8, ScanStarts

-----------------------------------------------------------------------------
(* The theorem about the cursor.                                           *)

\* The invariant holds of the empty chain.
LEMMA InvInit == Init => Inv
<1> SUFFICES ASSUME Init PROVE Inv
  OBVIOUS
<1>1. /\ chain = <<>> /\ Len(chain) = 0 /\ index = [last |-> 0, ready |-> FALSE]
      /\ rows = {} /\ indexSync = [pc |-> "start", target |-> 0] /\ cursor = 0 /\ scan = Idle
  BY DEF Init
<1>2. Types
  BY <1>1 DEF Types, IndexRunsOf
<1>3. IndexLags /\ IndexCovers /\ CursorCovers
  BY <1>1 DEF IndexLags, IndexCovers, CursorCovers
<1>4. ScanBelowHead /\ PassedKnown /\ WindowKnown
  BY <1>1 DEF ScanBelowHead, PassedKnown, WindowKnown, Idle
<1> QED BY <1>2, <1>3, <1>4 DEF Inv

\* The invariant is kept by every step.
LEMMA InvNext ==
    ASSUME MaxReorg <= SafetyBuffer, Inv, [Next]_vars
    PROVE  Inv'
<1>1. CASE \E b \in Contents : Mine(b)
  BY <1>1, MineKeeps
<1>2. CASE Reorg
  BY <1>2, ReorgKeeps
<1>3. CASE RelayRestarts \/ indexSyncStart \/ indexLoad \/ indexSyncThrows
  BY <1>3, IndexStartKeeps
<1>4. CASE indexSyncWindow
  BY <1>4, IndexWindowKeeps
<1>5. CASE resyncMerkle
  BY <1>5, ResyncKeeps
<1>6. CASE catchUpThrows \/ SignerRestarts
  BY <1>6, ScanEndsKeeps
<1>7. CASE catchUpMissedBets
  BY <1>7, CatchUpKeeps
<1>8. CASE deepSweep
  BY <1>8, SweepKeeps
<1>9. CASE fetchBetAuthorized
  BY <1>9, FetchKeeps
<1>10. CASE \E b \in Bets : handleBetRecord(b)
  BY <1>10, HandleKeeps
<1>11. CASE saveLastBlock
  BY <1>11, SaveKeeps
<1>12. CASE cacheSyncStart
  BY <1>12, OthersKeep DEF cacheSyncStart, OfTree, Quiet, signer, history
<1>13. CASE cacheLoad
  BY <1>13, OthersKeep DEF cacheLoad, OfTree, Quiet, signer, history
<1>14. CASE cacheSyncWindow
  BY <1>14, OthersKeep DEF cacheSyncWindow, OfTree, Quiet, signer, history
<1>15. CASE cacheSyncThrows
  BY <1>15, OthersKeep DEF cacheSyncThrows, OfTree, Quiet, signer, history
<1>16. CASE \E leaf \in Leaves : merklePath(leaf)
  BY <1>16, OthersKeep DEF merklePath, proofFor, computeMerkleProof, relay, signer, history
<1>17. CASE UNCHANGED vars
  BY <1>17, OthersKeep DEF vars, relay, signer, history
<1> QED BY <1>1, <1>2, <1>3, <1>4, <1>5, <1>6, <1>7, <1>8, <1>9, <1>10, <1>11, <1>12,
           <1>13, <1>14, <1>15, <1>16, <1>17 DEF Next, onActivity

\* The scan's cursor never passes a bet that was not handed to the order builder,
\* other than one whose read or row was lost, whatever the bounds, the windows and
\* the faults, as long as no reorganisation is deeper than SAFETY_BUFFER
\* (eventListener.ts catchUpMissedBets, eventIndex.ts sync).
THEOREM CursorSafe ==
    ASSUME MaxReorg <= SafetyBuffer
    PROVE  Spec => []CursorCovers
<1>1. Inv => CursorCovers
  BY DEF Inv
<1>2. Inv /\ [Next]_vars => Inv'
  BY InvNext
<1> QED BY <1>1, <1>2, InvInit, PTL DEF Spec

-----------------------------------------------------------------------------
(* The leaves of the chain.                                                *)

Blocks == Seq(Leaves \cup {Empty})

\* What LeavesAfter adds for a block
With(ls, b) == IF b = Empty THEN ls ELSE Append(ls, b)

\* LeavesAfter is what its definition says.
LEMMA LeavesAfterIs ==
    ASSUME NEW blocks \in Blocks
    PROVE  /\ LeavesAfter(blocks)[0] = <<>>
           /\ \A n \in 1..Len(blocks) :
                  LeavesAfter(blocks)[n] = With(LeavesAfter(blocks)[n - 1], blocks[n])
<1> DEFINE Fits(n, f) == f = [i \in 0..n |-> IF i = 0 THEN <<>>
                              ELSE IF blocks[i] = Empty THEN f[i - 1] ELSE Append(f[i - 1], blocks[i])]
           T == {n \in Nat : \E f : Fits(n, f)}
<1>1. 0 \in T
  <2>1. Fits(0, [i \in 0..0 |-> <<>>])
    OBVIOUS
  <2> QED BY <2>1
<1>2. ASSUME NEW n \in Nat, n \in T PROVE n + 1 \in T
  <2>1. PICK f : Fits(n, f)
    BY <1>2
  <2> DEFINE g == [i \in 0..(n + 1) |-> IF i <= n THEN f[i] ELSE With(f[n], blocks[n + 1])]
  <2>2. ASSUME NEW i \in 0..(n + 1)
        PROVE  g[i] = IF i = 0 THEN <<>> ELSE With(g[i - 1], blocks[i])
    <3>1. CASE i = 0
      BY <2>1, <3>1
    <3>2. CASE i # 0 /\ i <= n
      <4>1. i \in 0..n /\ i - 1 \in 0..n /\ i - 1 <= n /\ i - 1 \in 0..(n + 1)
        BY <3>2
      <4>2. f[i] = With(f[i - 1], blocks[i])
        BY <2>1, <3>2, <4>1 DEF With
      <4>3. g[i] = f[i] /\ g[i - 1] = f[i - 1]
        BY <3>2, <4>1
      <4> QED BY <3>2, <4>2, <4>3
    <3>3. CASE i = n + 1
      <4>1. i - 1 = n /\ n \in 0..(n + 1) /\ n <= n /\ i # 0 /\ ~(i <= n)
        BY <3>3
      <4>2. g[n] = f[n] /\ g[i] = With(f[n], blocks[n + 1])
        BY <4>1
      <4> HIDE DEF g
      <4> QED BY <3>3, <4>1, <4>2
    <3> QED BY <3>1, <3>2, <3>3
  <2>3. g = [i \in 0..(n + 1) |-> g[i]]
    OBVIOUS
  <2> HIDE DEF g
  <2>4. Fits(n + 1, g)
    BY <2>2, <2>3 DEF With
  <2> HIDE DEF Fits
  <2> QED BY <2>4
<1> HIDE DEF T
<1>3. Len(blocks) \in Nat
  BY LenProperties DEF Blocks
<1>4. Len(blocks) \in T
  BY <1>1, <1>2, <1>3, Induct
<1> USE DEF T
<1>5. PICK g : Fits(Len(blocks), g)
  BY <1>4
<1>6. LeavesAfter(blocks) = CHOOSE f : Fits(Len(blocks), f)
  BY DEF LeavesAfter
<1>7. Fits(Len(blocks), LeavesAfter(blocks))
  BY <1>5, <1>6
<1> HIDE DEF Fits
<1>8. PICK f : f = LeavesAfter(blocks) /\ Fits(Len(blocks), f)
  BY <1>7
<1>9. f[0] = <<>>
  BY <1>3, <1>8 DEF Fits
<1>10. ASSUME NEW n \in 1..Len(blocks) PROVE f[n] = With(f[n - 1], blocks[n])
  <2>1. n \in 0..Len(blocks) /\ n # 0
    BY <1>3
  <2> QED BY <1>8, <2>1 DEF Fits, With
<1> QED BY <1>8, <1>9, <1>10

\* A prefix, element by element
Starts(s, t) == Len(s) <= Len(t) /\ \A i \in 1..Len(s) : s[i] = t[i]

\* The same as the prefix of the community modules.
LEMMA StartsIsPrefix ==
    ASSUME NEW s \in Seq(Leaves), NEW t \in Seq(Leaves), Starts(s, t)
    PROVE  IsPrefix(s, t)
<1>1. Len(s) \in Nat /\ Len(t) \in Nat /\ Len(s) <= Len(t)
  BY LenProperties DEF Starts
<1>2. SubSeq(s, 1, Len(s)) = s
  BY SubSeqFull
<1>3. \A i \in 1..Len(s) : t[i] \in Leaves
  BY <1>1, ElementOfSeq
<1>4. /\ SubSeq(t, 1, Len(s)) \in Seq(Leaves)
      /\ Len(SubSeq(t, 1, Len(s))) = Len(s)
      /\ \A i \in 1..Len(s) : SubSeq(t, 1, Len(s))[i] = t[i]
  <2>1. 1 \in Int /\ Len(s) \in Int
    BY <1>1
  <2>2. Len(SubSeq(t, 1, Len(s))) = IF 1 <= Len(s) THEN Len(s) - 1 + 1 ELSE 0
    BY <1>3, <2>1, SubSeqProperties
  <2>3. \A i \in 1..(Len(s) - 1 + 1) : SubSeq(t, 1, Len(s))[i] = t[1 + i - 1]
    BY <1>3, <2>1, SubSeqProperties
  <2>4. SubSeq(t, 1, Len(s)) \in Seq(Leaves)
    BY <1>3, <2>1, SubSeqProperties
  <2> QED BY <1>1, <2>2, <2>3, <2>4
<1>5. SubSeq(t, 1, Len(s)) = s
  BY <1>4, SeqEqual DEF Starts
<1> QED BY <1>1, <1>2, <1>5 DEF IsPrefix

\* The leaves after a block are leaves, and it adds its own.
LEMMA LeavesAfterTypes ==
    ASSUME NEW blocks \in Blocks
    PROVE  \A n \in 0..Len(blocks) : LeavesAfter(blocks)[n] \in Seq(Leaves)
<1> DEFINE T == {n \in Nat : n <= Len(blocks) => LeavesAfter(blocks)[n] \in Seq(Leaves)}
<1>1. Len(blocks) \in Nat
  BY LenProperties DEF Blocks
<1>2. 0 \in T
  BY LeavesAfterIs, EmptySeq
<1>3. ASSUME NEW n \in Nat, n \in T PROVE n + 1 \in T
  <2> SUFFICES ASSUME n + 1 <= Len(blocks) PROVE LeavesAfter(blocks)[n + 1] \in Seq(Leaves)
    OBVIOUS
  <2>1. n + 1 \in 1..Len(blocks) /\ (n + 1) - 1 = n
    BY <1>1
  <2>2. LeavesAfter(blocks)[n + 1] = With(LeavesAfter(blocks)[n], blocks[n + 1])
    BY <2>1, LeavesAfterIs
  <2>3. LeavesAfter(blocks)[n] \in Seq(Leaves) /\ blocks[n + 1] \in Leaves \cup {Empty}
    BY <1>1, <1>3, <2>1, ElementOfSeq DEF Blocks
  <2> QED BY <2>2, <2>3, AppendProperties DEF With
<1> HIDE DEF T
<1>4. \A n \in Nat : n \in T
  BY <1>2, <1>3, Induct
<1> QED BY <1>1, <1>4 DEF T

\* Earlier leaves come first.
LEMMA LeavesGrow ==
    ASSUME NEW blocks \in Blocks, NEW m \in Nat, NEW n \in Nat, m <= n, n <= Len(blocks)
    PROVE  Starts(LeavesAfter(blocks)[m], LeavesAfter(blocks)[n])
<1> DEFINE LA(k) == LeavesAfter(blocks)[k]
           T == {d \in Nat : m + d <= Len(blocks) => Starts(LA(m), LA(m + d))}
<1>1. Len(blocks) \in Nat
  BY LenProperties DEF Blocks
<1>2. 0 \in T
  <2>1. LA(m) \in Seq(Leaves) /\ m + 0 = m
    BY <1>1, LeavesAfterTypes
  <2> QED BY <2>1, LenProperties DEF Starts
<1>3. ASSUME NEW d \in Nat, d \in T PROVE d + 1 \in T
  <2> SUFFICES ASSUME m + (d + 1) <= Len(blocks) PROVE Starts(LA(m), LA(m + (d + 1)))
    OBVIOUS
  <2>1. PICK k \in Nat : k = m + d
    OBVIOUS
  <2>2. k + 1 = m + (d + 1) /\ k + 1 \in 1..Len(blocks) /\ (k + 1) - 1 = k /\ k \in 0..Len(blocks)
    BY <1>1, <2>1
  <2>3. LA(k + 1) = With(LA(k), blocks[k + 1])
    BY <2>2, LeavesAfterIs
  <2>4. LA(k) \in Seq(Leaves) /\ LA(m) \in Seq(Leaves) /\ blocks[k + 1] \in Leaves \cup {Empty}
    BY <1>1, <2>1, <2>2, LeavesAfterTypes, ElementOfSeq DEF Blocks
  <2>5. Starts(LA(m), LA(k))
    BY <1>3, <2>1, <2>2
  <2> HIDE DEF LA
  <2>6. CASE blocks[k + 1] = Empty
    BY <2>2, <2>3, <2>5, <2>6 DEF With
  <2>7. CASE blocks[k + 1] # Empty
    <3>1. /\ LA(k + 1) = Append(LA(k), blocks[k + 1])
          /\ Len(Append(LA(k), blocks[k + 1])) = Len(LA(k)) + 1
          /\ \A i \in 1..Len(LA(k)) : Append(LA(k), blocks[k + 1])[i] = LA(k)[i]
      BY <2>3, <2>4, <2>7, AppendProperties DEF With
    <3>2. Len(LA(k)) \in Nat /\ Len(LA(m)) \in Nat
      BY <2>4, LenProperties
    <3>3. \A i \in 1..Len(LA(m)) : i \in 1..Len(LA(k))
      BY <2>5, <3>2 DEF Starts
    <3>4. Len(LA(m)) <= Len(LA(k + 1))
      BY <2>5, <3>1, <3>2 DEF Starts
    <3>5. \A i \in 1..Len(LA(m)) : LA(m)[i] = LA(k + 1)[i]
      BY <2>5, <3>1, <3>3 DEF Starts
    <3>6. Starts(LA(m), LA(k + 1))
      BY <3>4, <3>5 DEF Starts
    <3> QED BY <2>2, <3>6
  <2> QED BY <2>6, <2>7
<1> HIDE DEF T
<1>4. n - m \in T
  <2>1. n - m \in Nat
    OBVIOUS
  <2> QED BY <1>2, <1>3, <2>1, Induct
<1>5. m + (n - m) = n
  OBVIOUS
<1> QED BY <1>4, <1>5 DEF T

\* Blocks that two chains share have the same leaves.
LEMMA LeavesShared ==
    ASSUME NEW a \in Blocks, NEW b \in Blocks, NEW n \in Nat,
           n <= Len(a), n <= Len(b), \A i \in 1..n : a[i] = b[i]
    PROVE  LeavesAfter(a)[n] = LeavesAfter(b)[n]
<1> DEFINE T == {k \in Nat : k <= n => LeavesAfter(a)[k] = LeavesAfter(b)[k]}
<1>1. Len(a) \in Nat /\ Len(b) \in Nat
  BY LenProperties DEF Blocks
<1>2. 0 \in T
  BY LeavesAfterIs
<1>3. ASSUME NEW k \in Nat, k \in T PROVE k + 1 \in T
  <2> SUFFICES ASSUME k + 1 <= n PROVE LeavesAfter(a)[k + 1] = LeavesAfter(b)[k + 1]
    OBVIOUS
  <2>1. k + 1 \in 1..Len(a) /\ k + 1 \in 1..Len(b) /\ k + 1 \in 1..n /\ (k + 1) - 1 = k /\ k <= n
    BY <1>1
  <2>2. LeavesAfter(a)[k + 1] = With(LeavesAfter(a)[k], a[k + 1])
    BY <2>1, LeavesAfterIs
  <2>3. LeavesAfter(b)[k + 1] = With(LeavesAfter(b)[k], b[k + 1])
    BY <2>1, LeavesAfterIs
  <2> QED BY <1>3, <2>1, <2>2, <2>3
<1> HIDE DEF T
<1>4. n \in T
  BY <1>2, <1>3, Induct
<1> QED BY <1>4 DEF T

-----------------------------------------------------------------------------
(* The relay's tree.                                                       *)

CacheRunsOf == [pc : {"start", "scan"}, target : Nat, first : BOOLEAN]

TreeTypes ==
    /\ chain \in Blocks
    /\ cache \in [leaves : Seq(Leaves), last : Nat, ready : BOOLEAN, consistent : BOOLEAN]
    /\ savedLeaves \in Seq(Leaves) /\ savedLast \in Nat
    /\ cacheSync \in {Idle} \cup CacheRunsOf

\* A run goes on from the cursor, and leaves CONFIRMATIONS blocks alone.
RunBehind ==
    cacheSync.pc = "scan" => /\ cache.last <= cacheSync.target
                             /\ cacheSync.target + Confirmations <= Len(chain)

\* The leaves after some block with CONFIRMATIONS blocks on top, or none
Settled(ls, blocks) ==
    \E n \in Nat : /\ n = 0 \/ n + Confirmations <= Len(blocks)
                  /\ ls = LeavesAfter(blocks)[n]

\* The table has what the chain had, up to a block that is settled.
SavedSettled == deep \/ Settled(savedLeaves, chain)

\* A cache in use has what the table has, as long as it counts as consistent.
CacheIsSaved ==
    IF cacheSync.pc = "start" THEN ~cache.ready
    ELSE cache.consistent => cache.leaves = savedLeaves

TreeInv == TreeTypes /\ RunBehind /\ SavedSettled /\ CacheIsSaved

\* No leaves are settled.
LEMMA NoneSettled ==
    ASSUME NEW blocks \in Blocks
    PROVE  Settled(<<>>, blocks)
BY LeavesAfterIs DEF Settled

\* What is settled stays so, while only the last CONFIRMATIONS blocks change.
LEMMA SettledStays ==
    ASSUME NEW a \in Blocks, NEW b \in Blocks, Len(a) <= Len(b),
           NEW k \in Nat, k <= Confirmations,
           \A i \in 1..(Len(a) - k) : b[i] = a[i],
           NEW ls, Settled(ls, a)
    PROVE  Settled(ls, b)
<1>1. Len(a) \in Nat /\ Len(b) \in Nat /\ Confirmations \in Nat
  BY LenProperties, FeedAssumption DEF Blocks
<1>2. PICK n \in Nat : /\ n = 0 \/ n + Confirmations <= Len(a)
                      /\ ls = LeavesAfter(a)[n]
  BY DEF Settled
<1>3. n <= Len(a) /\ n <= Len(b) /\ \A i \in 1..n : i \in 1..(Len(a) - k)
  BY <1>1, <1>2
<1>4. LeavesAfter(a)[n] = LeavesAfter(b)[n]
  BY <1>3, LeavesShared
<1>5. n = 0 \/ n + Confirmations <= Len(b)
  BY <1>1, <1>2
<1> QED BY <1>2, <1>4, <1>5 DEF Settled

\* What is settled is a prefix of the chain's leaves; so are the leaves after a block.
LEMMA SettledIsPrefix ==
    ASSUME NEW blocks \in Blocks, NEW ls,
           \/ Settled(ls, blocks)
           \/ \E n \in 1..Len(blocks) : ls = LeavesAfter(blocks)[n]
    PROVE  IsPrefix(ls, LeavesAfter(blocks)[Len(blocks)])
<1>1. Len(blocks) \in Nat /\ Confirmations \in Nat
  BY LenProperties, FeedAssumption DEF Blocks
<1>2. PICK n \in Nat : n <= Len(blocks) /\ ls = LeavesAfter(blocks)[n]
  BY <1>1 DEF Settled
<1>3. Starts(ls, LeavesAfter(blocks)[Len(blocks)])
  BY <1>1, <1>2, LeavesGrow
<1>4. ls \in Seq(Leaves) /\ LeavesAfter(blocks)[Len(blocks)] \in Seq(Leaves)
  BY <1>1, <1>2, LeavesAfterTypes
<1> QED BY <1>3, <1>4, StartsIsPrefix

-----------------------------------------------------------------------------
(* What a window appends.                                                  *)

\* Where the cache, the table and the flags are within a window that ends at a block
Ingesting(c, end) ==
    /\ c \in [leaves : Seq(Leaves), saved : Seq(Leaves), consistent : BOOLEAN, gap : BOOLEAN]
    /\ c.consistent => c.leaves = c.saved
    /\ c.saved = savedLeaves \/ \E n \in 1..end : c.saved = LeavesAfter(chain)[n]
    /\ \/ ~c.consistent
       \/ c.leaves = cache.leaves
       \/ \E n \in 1..end : c.leaves = LeavesAfter(chain)[n]

\* A leaf is appended and saved only when the leaves are those the chain had after it.
LEMMA AppendLeafKeeps ==
    ASSUME NEW end \in Nat, NEW c, Ingesting(c, end), NEW n \in 1..end, chain[n] \in Leaves
    PROVE  Ingesting(AppendLeaf(c, LeafInserted(n)), end)
<1> DEFINE ev == LeafInserted(n)
           grown == Append(c.leaves, ev.leaf)
<1>1. ev.leaf = chain[n] /\ ev.newRoot = LeavesAfter(chain)[n]
  BY DEF LeafInserted
<1>2. /\ c \in [leaves : Seq(Leaves), saved : Seq(Leaves), consistent : BOOLEAN, gap : BOOLEAN]
      /\ c.leaves \in Seq(Leaves) /\ c.saved \in Seq(Leaves)
      /\ c.consistent \in BOOLEAN /\ c.gap \in BOOLEAN
  BY DEF Ingesting
<1>3. grown \in Seq(Leaves) /\ Append(c.saved, ev.leaf) \in Seq(Leaves)
  BY <1>1, <1>2, AppendProperties
<1>4. CASE ev.leafIndex <= Len(c.leaves) \/ ~c.consistent \/ c.gap
  BY <1>4 DEF AppendLeaf
<1>5. CASE /\ ~(ev.leafIndex <= Len(c.leaves) \/ ~c.consistent \/ c.gap)
           /\ ev.leafIndex # Len(c.leaves) + 1
  <2>1. AppendLeaf(c, ev) = [c EXCEPT !.gap = TRUE]
    BY <1>5 DEF AppendLeaf
  <2> HIDE DEF ev, grown
  <2> QED BY <1>2, <2>1 DEF Ingesting, ev
<1>6. CASE /\ ~(ev.leafIndex <= Len(c.leaves) \/ ~c.consistent \/ c.gap)
           /\ ~(ev.leafIndex # Len(c.leaves) + 1)
  <2> HIDE DEF ev
  <2>1. AppendLeaf(c, ev) = IF grown = ev.newRoot
                            THEN [c EXCEPT !.leaves = grown, !.saved = Append(@, ev.leaf)]
                            ELSE [c EXCEPT !.leaves = grown, !.consistent = FALSE]
    BY <1>6 DEF AppendLeaf
  <2>2. c.leaves = c.saved
    BY <1>6 DEF Ingesting
  <2>3. CASE grown = ev.newRoot
    <3>1. PICK d : d = [c EXCEPT !.leaves = grown, !.saved = grown]
      OBVIOUS
    <3>2. AppendLeaf(c, ev) = d
      BY <2>1, <2>2, <2>3, <3>1
    <3>3. grown = LeavesAfter(chain)[n]
      BY <1>1, <2>3 DEF ev
    <3> HIDE DEF grown
    <3>4. /\ d \in [leaves : Seq(Leaves), saved : Seq(Leaves), consistent : BOOLEAN, gap : BOOLEAN]
          /\ d.leaves = grown /\ d.saved = grown
      BY <1>2, <1>3, <3>1
    <3>5. Ingesting(d, end)
      BY <3>3, <3>4 DEF Ingesting
    <3> QED BY <3>2, <3>5 DEF ev
  <2>4. CASE grown # ev.newRoot
    <3>1. PICK d : d = [c EXCEPT !.leaves = grown, !.consistent = FALSE]
      OBVIOUS
    <3>2. AppendLeaf(c, ev) = d
      BY <2>1, <2>4, <3>1
    <3> HIDE DEF grown
    <3>3. /\ d \in [leaves : Seq(Leaves), saved : Seq(Leaves), consistent : BOOLEAN, gap : BOOLEAN]
          /\ d.saved = c.saved /\ ~d.consistent
      BY <1>2, <1>3, <3>1
    <3>4. Ingesting(d, end)
      BY <3>3 DEF Ingesting
    <3> QED BY <3>2, <3>4 DEF ev
  <2> QED BY <2>3, <2>4
<1> QED BY <1>4, <1>5, <1>6

\* A function that appends the events of blocks ns one by one
Appends(f, ns, end) ==
    /\ f[cache.last] = [leaves |-> cache.leaves, saved |-> savedLeaves,
                        consistent |-> cache.consistent, gap |-> FALSE]
    /\ \A n \in (cache.last + 1)..end :
          f[n] = IF n \in ns THEN AppendLeaf(f[n - 1], LeafInserted(n)) ELSE f[n - 1]

\* Appended is the last value of such a function.
LEMMA AppendedIs ==
    ASSUME NEW end \in Nat, cache.last \in Nat, cache.last <= end, NEW ns
    PROVE  \E f : Appends(f, ns, end) /\ Appended(ns, end) = f[end]
<1>1. PICK lo \in Nat : lo = cache.last
  OBVIOUS
<1> DEFINE Base == [leaves |-> cache.leaves, saved |-> savedLeaves,
                    consistent |-> cache.consistent, gap |-> FALSE]
           Grown(c, n) == IF n \in ns THEN AppendLeaf(c, LeafInserted(n)) ELSE c
           Fits(e, f) == f = [i \in lo..e |-> IF i = lo THEN Base ELSE Grown(f[i - 1], i)]
           T == {d \in Nat : \E f : Fits(lo + d, f)}
<1> HIDE DEF Base, Grown
<1>2. 0 \in T
  <2>1. lo + 0 = lo
    OBVIOUS
  <2>2. Fits(lo + 0, [i \in lo..lo |-> Base])
    BY <2>1
  <2> QED BY <2>2
<1>3. ASSUME NEW d \in Nat, d \in T PROVE d + 1 \in T
  <2>1. PICK e \in Nat : e = lo + d
    OBVIOUS
  <2>2. lo <= e /\ e + 1 = lo + (d + 1)
    BY <2>1
  <2>3. PICK f : Fits(e, f)
    BY <1>3, <2>1
  <2> DEFINE g == [i \in lo..(e + 1) |-> IF i <= e THEN f[i] ELSE Grown(f[e], e + 1)]
  <2>4. ASSUME NEW i \in lo..(e + 1)
        PROVE  g[i] = IF i = lo THEN Base ELSE Grown(g[i - 1], i)
    <3>1. CASE i = lo
      <4>1. i <= e /\ i \in lo..e
        BY <2>2, <3>1
      <4>2. f[i] = Base
        BY <2>3, <3>1, <4>1
      <4> QED BY <3>1, <4>1, <4>2
    <3>2. CASE i # lo /\ i <= e
      <4>1. i \in lo..e /\ i - 1 \in lo..e /\ i - 1 <= e /\ i - 1 \in lo..(e + 1)
        BY <3>2
      <4>2. f[i] = Grown(f[i - 1], i)
        BY <2>3, <3>2, <4>1
      <4>3. g[i] = f[i] /\ g[i - 1] = f[i - 1]
        BY <3>2, <4>1
      <4> QED BY <3>2, <4>2, <4>3
    <3>3. CASE i = e + 1
      <4>1. i - 1 = e /\ e \in lo..(e + 1) /\ e <= e /\ i # lo /\ ~(i <= e)
        BY <2>2, <3>3
      <4>2. g[e] = f[e] /\ g[i] = Grown(f[e], e + 1)
        BY <4>1
      <4> HIDE DEF g
      <4> QED BY <3>3, <4>1, <4>2
    <3> QED BY <3>1, <3>2, <3>3
  <2>5. g = [i \in lo..(e + 1) |-> g[i]]
    OBVIOUS
  <2> HIDE DEF g
  <2>6. Fits(e + 1, g)
    BY <2>4, <2>5
  <2> HIDE DEF Fits
  <2> QED BY <2>2, <2>6
<1> HIDE DEF T
<1>4. end - lo \in T
  <2>1. end - lo \in Nat
    BY <1>1
  <2> QED BY <1>2, <1>3, <2>1, Induct
<1>5. \E g : Fits(end, g)
  <2>1. lo + (end - lo) = end
    OBVIOUS
  <2> HIDE DEF Fits
  <2> QED BY <1>4, <2>1 DEF T
<1>6. Appended(ns, end) = (CHOOSE f : Fits(end, f))[end]
  BY <1>1 DEF Appended, Base, Grown
<1>7. PICK f : f = (CHOOSE g : Fits(end, g)) /\ Fits(end, f)
  BY <1>5
<1>8. f[lo] = Base
  BY <1>1, <1>7
<1>9. ASSUME NEW n \in (lo + 1)..end PROVE f[n] = Grown(f[n - 1], n)
  <2>1. n \in lo..end /\ n # lo
    BY <1>1
  <2> QED BY <1>7, <2>1
<1>10. Appended(ns, end) = f[end]
  BY <1>6, <1>7
<1> HIDE DEF Fits
<1>11. f[cache.last] = [leaves |-> cache.leaves, saved |-> savedLeaves,
                        consistent |-> cache.consistent, gap |-> FALSE]
  BY <1>1, <1>8 DEF Base
<1>12. \A n \in (cache.last + 1)..end :
         f[n] = IF n \in ns THEN AppendLeaf(f[n - 1], LeafInserted(n)) ELSE f[n - 1]
  BY <1>1, <1>9 DEF Grown
<1>13. Appends(f, ns, end)
  BY <1>11, <1>12 DEF Appends
<1> QED BY <1>10, <1>13

\* What the events of a window make of a cache that has what the table has
LEMMA AppendedKeeps ==
    ASSUME TreeTypes, cache.consistent => cache.leaves = savedLeaves,
           NEW end \in Nat, cache.last <= end, end <= Len(chain),
           NEW ns, ns \subseteq Logs(cache.last + 1, end)
    PROVE  Ingesting(Appended(ns, end), end)
<1>1. PICK lo \in Nat : lo = cache.last
  BY DEF TreeTypes
<1>2. PICK f : Appends(f, ns, end) /\ Appended(ns, end) = f[end]
  <2>1. cache.last \in Nat
    BY <1>1
  <2> QED BY <2>1, AppendedIs
<1> DEFINE T == {d \in Nat : lo + d <= end => Ingesting(f[lo + d], end)}
<1>3. 0 \in T
  <2>1. cache.leaves \in Seq(Leaves) /\ savedLeaves \in Seq(Leaves) /\ cache.consistent \in BOOLEAN
    BY DEF TreeTypes
  <2>2. Ingesting(f[lo], end)
    BY <1>1, <1>2, <2>1 DEF Ingesting, Appends
  <2>3. lo + 0 = lo
    OBVIOUS
  <2> QED BY <2>2, <2>3
<1>4. ASSUME NEW d \in Nat, d \in T PROVE d + 1 \in T
  <2> SUFFICES ASSUME lo + (d + 1) <= end PROVE Ingesting(f[lo + (d + 1)], end)
    OBVIOUS
  <2>1. PICK n \in Nat : n = lo + (d + 1)
    OBVIOUS
  <2>2. n - 1 = lo + d /\ lo + d <= end /\ n \in (lo + 1)..end /\ n \in 1..end
    BY <2>1
  <2>3. Ingesting(f[n - 1], end)
    BY <1>4, <2>2
  <2>4. n \in ns => chain[n] \in Leaves
    <3>1. Len(chain) \in Nat /\ n \in 1..Len(chain)
      BY <2>2, LenProperties DEF TreeTypes, Blocks
    <3>2. chain[n] \in Leaves \cup {Empty}
      BY <3>1, ElementOfSeq DEF TreeTypes, Blocks
    <3> QED BY <3>2 DEF Logs
  <2>5. n \in ns => Ingesting(AppendLeaf(f[n - 1], LeafInserted(n)), end)
    BY <2>2, <2>3, <2>4, AppendLeafKeeps
  <2>6. Ingesting(f[n], end)
    BY <1>1, <1>2, <2>2, <2>3, <2>5 DEF Appends
  <2> QED BY <2>1, <2>6
<1> HIDE DEF T
<1>5. end - lo \in T
  <2>1. end - lo \in Nat
    BY <1>1
  <2> QED BY <1>3, <1>4, <2>1, Induct
<1>6. lo + (end - lo) = end
  OBVIOUS
<1> QED BY <1>2, <1>5, <1>6 DEF T

-----------------------------------------------------------------------------
(* Steps of the tree.                                                      *)

\* Steps of others leave it alone.
LEMMA TreeOthersKeep ==
    ASSUME TreeInv, UNCHANGED <<chain, cache, savedLeaves, savedLast, cacheSync, deep>>
    PROVE  TreeInv'
BY DEF TreeInv, TreeTypes, RunBehind, SavedSettled, CacheIsSaved

\* The chain grows or is replaced, and what was settled stays or the step is deep.
LEMMA TreeChainMoves ==
    ASSUME TreeInv, chain' \in Blocks, Len(chain) <= Len(chain'), NEW k \in Nat,
           k <= Confirmations => \A i \in 1..(Len(chain) - k) : chain'[i] = chain[i],
           ~deep' => ~deep /\ k <= Confirmations,
           UNCHANGED <<cache, savedLeaves, savedLast, cacheSync>>
    PROVE  TreeInv'
<1>1. TreeTypes'
  BY DEF TreeInv, TreeTypes
<1>2. PICK a \in Blocks : a = chain
  BY DEF TreeInv, TreeTypes
<1>3. PICK b \in Blocks : b = chain'
  OBVIOUS
<1>4. Len(a) \in Nat /\ Len(b) \in Nat /\ Confirmations \in Nat
  BY LenProperties, FeedAssumption DEF Blocks
<1>5. RunBehind'
  <2>1. cacheSync.pc = "scan" => cacheSync.target \in Nat
    BY DEF TreeInv, TreeTypes, Idle, CacheRunsOf
  <2>2. cacheSync.pc = "scan" => cacheSync.target + Confirmations <= Len(b)
    BY <1>2, <1>3, <1>4, <2>1 DEF TreeInv, RunBehind
  <2> QED BY <1>3, <2>2 DEF TreeInv, RunBehind
<1>6. SavedSettled'
  <2>1. CASE deep'
    BY <2>1 DEF SavedSettled
  <2>2. CASE ~deep'
    <3>1. k <= Confirmations /\ ~deep
      BY <2>2
    <3>2. PICK ls : ls = savedLeaves
      OBVIOUS
    <3>3. Settled(ls, a)
      BY <1>2, <3>1, <3>2 DEF TreeInv, SavedSettled
    <3>4. Settled(ls, b)
      BY <1>2, <1>3, <3>1, <3>3, SettledStays
    <3> QED BY <1>3, <3>2, <3>4 DEF SavedSettled
  <2> QED BY <2>1, <2>2
<1>7. CacheIsSaved'
  BY DEF TreeInv, CacheIsSaved
<1> QED BY <1>1, <1>5, <1>6, <1>7 DEF TreeInv

\* A mined block, and a reorganisation
LEMMA TreeChainKeeps ==
    ASSUME TreeInv, (\E b \in Contents : Mine(b)) \/ Reorg
    PROVE  TreeInv'
<1>1. chain \in Seq(Leaves \cup {Empty}) /\ Len(chain) \in Nat
  BY LenProperties DEF TreeInv, TreeTypes, Blocks
<1>2. Confirmations \in Nat /\ MaxReorg \in Nat
  BY FeedAssumption
<1>3. ASSUME NEW b \in Contents, Mine(b) PROVE TreeInv'
  <2>1. b \in Leaves \cup {Empty}
    BY FeedAssumption DEF Contents
  <2>2. /\ chain' = Append(chain, b)
        /\ UNCHANGED <<cache, savedLeaves, savedLast, cacheSync, deep>>
    BY <1>3 DEF Mine, relay, history
  <2>3. /\ chain' \in Blocks /\ Len(chain') = Len(chain) + 1
        /\ \A i \in 1..Len(chain) : chain'[i] = chain[i]
    BY <1>1, <2>1, <2>2, AppendProperties DEF Blocks
  <2>4. Len(chain) <= Len(chain') /\ Len(chain) - 0 = Len(chain) /\ 0 <= Confirmations
    BY <1>1, <1>2, <2>3
  <2> QED BY <2>2, <2>3, <2>4, TreeChainMoves
<1>4. ASSUME Reorg PROVE TreeInv'
  <2>1. UNCHANGED <<cache, savedLeaves, savedLast, cacheSync>>
    BY <1>4 DEF Reorg, relay
  <2>2. PICK k \in 1..Smaller(MaxReorg, Len(chain)) :
          \E blocks \in [1..k -> Contents] :
              /\ chain' = SubSeq(chain, 1, Len(chain) - k) \o blocks
              /\ deep' = (deep \/ k > Confirmations)
    BY <1>4 DEF Reorg
  <2>3. k \in 1..Len(chain) /\ k \in Nat
    BY <1>1, <1>2, <2>2 DEF Smaller
  <2>4. PICK blocks \in [1..k -> Contents] :
              /\ chain' = SubSeq(chain, 1, Len(chain) - k) \o blocks
              /\ deep' = (deep \/ k > Confirmations)
    BY <2>2
  <2>5. /\ chain' \in Blocks /\ Len(chain') = Len(chain)
        /\ \A i \in 1..(Len(chain) - k) : chain'[i] = chain[i]
    BY <1>1, <2>3, <2>4, ReorgBlocks DEF Blocks
  <2>6. Len(chain) <= Len(chain')
    BY <1>1, <2>5
  <2>7. ~(k > Confirmations) => k <= Confirmations
    BY <1>2, <2>3
  <2>8. ~deep' => ~deep /\ k <= Confirmations
    BY <2>4, <2>7
  <2> QED BY <2>1, <2>3, <2>5, <2>6, <2>8, TreeChainMoves
<1> QED BY <1>3, <1>4

\* The fields of the cache and of its run
LEMMA CacheFields ==
    ASSUME TreeInv
    PROVE  /\ chain \in Blocks /\ Len(chain) \in Nat /\ Confirmations \in Nat
           /\ cache.leaves \in Seq(Leaves) /\ cache.last \in Nat
           /\ cache.ready \in BOOLEAN /\ cache.consistent \in BOOLEAN
           /\ savedLeaves \in Seq(Leaves) /\ savedLast \in Nat
           /\ Idle.pc = "idle"
           /\ cacheSync.pc = "scan" => cacheSync.target \in Nat /\ cacheSync.first \in BOOLEAN
<1>1. chain \in Blocks /\ Len(chain) \in Nat /\ Confirmations \in Nat
  BY LenProperties, FeedAssumption DEF TreeInv, TreeTypes, Blocks
<1>2. cacheSync.pc = "scan" => cacheSync.target \in Nat /\ cacheSync.first \in BOOLEAN
  BY DEF TreeInv, TreeTypes, Idle, CacheRunsOf
<1> QED BY <1>1, <1>2 DEF TreeInv, TreeTypes, Idle

\* A run goes up to a head that the chain has had.
LEMMA RunStarts ==
    ASSUME TreeInv, NEW head \in getCachedBlockNumber, NEW last \in Nat, NEW first \in BOOLEAN,
           head - Confirmations > last
    PROVE  /\ [pc |-> "scan", target |-> head - Confirmations, first |-> first] \in CacheRunsOf
           /\ (head - Confirmations) + Confirmations <= Len(chain)
           /\ last <= head - Confirmations
<1>1. head \in Nat /\ head <= Len(chain) /\ Confirmations \in Nat /\ Len(chain) \in Nat
  BY CacheFields DEF getCachedBlockNumber
<1>2. PICK t \in Nat : t = head - Confirmations
  BY <1>1
<1>3. t + Confirmations <= Len(chain) /\ last <= t
  BY <1>1, <1>2
<1> QED BY <1>2, <1>3 DEF CacheRunsOf

\* A run starts, on a cache that counts as consistent.
LEMMA CacheStartKeeps ==
    ASSUME TreeInv, cacheSyncStart
    PROVE  TreeInv'
<1>1. /\ cacheSync.pc = "idle"
      /\ UNCHANGED <<chain, cache, savedLeaves, savedLast, deep>>
  BY DEF cacheSyncStart, history
<1>2. PICK head \in getCachedBlockNumber :
        /\ head - Confirmations > cache.last
        /\ cacheSync' = [pc |-> "scan", target |-> head - Confirmations, first |-> FALSE]
  BY DEF cacheSyncStart
<1>3. /\ cacheSync' \in CacheRunsOf /\ cacheSync'.pc = "scan"
      /\ cacheSync'.target + Confirmations <= Len(chain)
      /\ cache.last <= cacheSync'.target
  BY <1>2, CacheFields, RunStarts
<1>4. TreeTypes' /\ RunBehind'
  BY <1>1, <1>3 DEF TreeInv, TreeTypes, RunBehind
<1>5. SavedSettled' /\ CacheIsSaved'
  BY <1>1, <1>3 DEF TreeInv, SavedSettled, CacheIsSaved
<1> QED BY <1>4, <1>5 DEF TreeInv

\* The table is loaded, and the first run starts or has nothing to do.
LEMMA CacheLoadKeeps ==
    ASSUME TreeInv, cacheLoad
    PROVE  TreeInv'
<1>1. UNCHANGED <<chain, savedLeaves, savedLast, deep>>
  BY DEF cacheLoad, history
<1>2. PICK last \in Nat : last = IF savedLeaves = <<>> THEN 0 ELSE savedLast
  BY CacheFields
<1>3. PICK head \in getCachedBlockNumber :
        /\ cache' = [leaves |-> savedLeaves, last |-> last, consistent |-> TRUE,
                     ready |-> head - Confirmations <= last]
        /\ cacheSync' = IF head - Confirmations <= last THEN Idle
                        ELSE [pc |-> "scan", target |-> head - Confirmations, first |-> TRUE]
  BY <1>2 DEF cacheLoad
<1>4. head \in Nat /\ Confirmations \in Nat
  BY CacheFields DEF getCachedBlockNumber
<1>5. /\ cache' \in [leaves : Seq(Leaves), last : Nat, ready : BOOLEAN, consistent : BOOLEAN]
      /\ cache'.leaves = savedLeaves /\ cache'.last = last
  <2> DEFINE r == head - Confirmations <= last
  <2>1. r \in BOOLEAN
    OBVIOUS
  <2>2. cache' = [leaves |-> savedLeaves, last |-> last, consistent |-> TRUE, ready |-> r]
    BY <1>3
  <2> HIDE DEF r
  <2> QED BY <2>1, <2>2, CacheFields
<1>6. /\ cacheSync' \in {Idle} \cup CacheRunsOf /\ cacheSync'.pc # "start"
      /\ cacheSync'.pc = "scan" => /\ last <= cacheSync'.target
                                   /\ cacheSync'.target + Confirmations <= Len(chain)
  <2>1. CASE head - Confirmations <= last
    BY <1>3, <2>1, CacheFields
  <2>2. CASE ~(head - Confirmations <= last)
    <3>1. head - Confirmations > last
      BY <1>4, <2>2
    <3>2. cacheSync' = [pc |-> "scan", target |-> head - Confirmations, first |-> TRUE]
      BY <1>3, <2>2
    <3> QED BY <3>1, <3>2, RunStarts
  <2> QED BY <2>1, <2>2
<1>7. TreeTypes' /\ RunBehind'
  BY <1>1, <1>5, <1>6 DEF TreeInv, TreeTypes, RunBehind
<1>8. SavedSettled' /\ CacheIsSaved'
  BY <1>1, <1>5, <1>6 DEF TreeInv, SavedSettled, CacheIsSaved
<1> QED BY <1>7, <1>8 DEF TreeInv

\* A run ends with an error, or the relay starts again, with its table or without.
LEMMA CacheStopsKeeps ==
    ASSUME TreeInv, cacheSyncThrows \/ RelayRestarts \/ resyncMerkle
    PROVE  TreeInv'
<1>1. [pc |-> "start", target |-> 0, first |-> TRUE] \in CacheRunsOf
  BY DEF CacheRunsOf
<1>2. CASE cacheSyncThrows
  <2>1. /\ cacheSync.pc = "scan" /\ cacheSync' = Idle
        /\ UNCHANGED <<chain, cache, savedLeaves, savedLast, deep>>
    BY <1>2 DEF cacheSyncThrows, history
  <2>2. cacheSync'.pc = "idle"
    BY <2>1 DEF Idle
  <2> QED BY <2>1, <2>2 DEF TreeInv, TreeTypes, RunBehind, SavedSettled, CacheIsSaved
<1>3. CASE RelayRestarts
  <2>1. /\ cacheSync' = [pc |-> "start", target |-> 0, first |-> TRUE]
        /\ cache' = [leaves |-> <<>>, last |-> 0, ready |-> FALSE, consistent |-> TRUE]
        /\ UNCHANGED <<chain, savedLeaves, savedLast, deep>>
    BY <1>3 DEF RelayRestarts, history
  <2>2. TreeTypes' /\ RunBehind'
    BY <1>1, <2>1, EmptySeq DEF TreeInv, TreeTypes, RunBehind
  <2>3. SavedSettled' /\ CacheIsSaved'
    BY <2>1 DEF TreeInv, SavedSettled, CacheIsSaved
  <2> QED BY <2>2, <2>3 DEF TreeInv
<1>4. CASE resyncMerkle
  <2>1. /\ cacheSync' = [pc |-> "start", target |-> 0, first |-> TRUE]
        /\ cache' = [leaves |-> <<>>, last |-> 0, ready |-> FALSE, consistent |-> TRUE]
        /\ savedLeaves' = <<>> /\ savedLast' = 0
        /\ UNCHANGED chain
    BY <1>4 DEF resyncMerkle
  <2>2. TreeTypes' /\ RunBehind'
    BY <1>1, <2>1, EmptySeq DEF TreeInv, TreeTypes, RunBehind
  <2>3. CacheIsSaved'
    BY <2>1 DEF CacheIsSaved
  <2>4. SavedSettled'
    BY <2>1, CacheFields, NoneSettled DEF SavedSettled
  <2> QED BY <2>2, <2>3, <2>4 DEF TreeInv
<1> QED BY <1>2, <1>3, <1>4

\* What a window makes of the cache and the table: nothing, or what the leaves that
\* it appended make of them
Windowed(c, end) ==
    /\ cache' \in [leaves : Seq(Leaves), last : Nat, ready : BOOLEAN, consistent : BOOLEAN]
    /\ savedLast' \in Nat
    /\ \/ cache'.leaves = <<>> /\ savedLeaves' = <<>> /\ cacheSync' = Idle
       \/ /\ cache'.leaves = c.leaves /\ cache'.consistent = c.consistent
          /\ savedLeaves' = c.saved
          /\ cacheSync' = Idle \/ (cacheSync' = cacheSync /\ cache'.last = end)

\* A window does so, up to a block that is settled.
LEMMA WindowIs ==
    ASSUME TreeInv, cacheSyncWindow
    PROVE  /\ cacheSync.pc = "scan" /\ UNCHANGED <<chain, deep>>
           /\ \E end \in Nat :
                 /\ end + Confirmations <= Len(chain) /\ end <= cacheSync.target
                 /\ \E c : Ingesting(c, end) /\ Windowed(c, end)
<1>1. cacheSync.pc = "scan" /\ UNCHANGED <<chain, deep>>
  BY DEF cacheSyncWindow, history
<1>2. PICK end \in Nat : end = Smaller(cache.last + ScanWindow, cacheSync.target)
  BY <1>1, CacheFields, FeedAssumption DEF Smaller
<1>3. PICK ns \in SUBSET ((cache.last + 1)..end) :
        QueryLogs(cache.last + 1, end, ns) /\ Ingest(ns, end)
  BY <1>2 DEF cacheSyncWindow
<1>4. ns \subseteq Logs(cache.last + 1, end)
  BY <1>3 DEF QueryLogs
<1>5. /\ end + Confirmations <= Len(chain) /\ end <= Len(chain)
      /\ end <= cacheSync.target /\ cache.last <= end
  BY <1>1, <1>2, CacheFields, FeedAssumption DEF TreeInv, RunBehind, Smaller
<1>6. PICK c : c = Appended(ns, end)
  OBVIOUS
<1>7. Ingesting(c, end)
  <2>1. cache.consistent => cache.leaves = savedLeaves
    BY <1>1 DEF TreeInv, CacheIsSaved
  <2> QED BY <1>4, <1>5, <1>6, <2>1, AppendedKeeps DEF TreeInv
<1>8. /\ c.leaves \in Seq(Leaves) /\ c.saved \in Seq(Leaves)
      /\ c.consistent \in BOOLEAN /\ c.gap \in BOOLEAN
  BY <1>7 DEF Ingesting
<1>9. Windowed(c, end)
  <2>1. CASE c.gap
    <3>1. PICK r \in BOOLEAN : r = (cache.ready \/ cacheSync.first)
      BY <1>1, CacheFields
    <3>2. cache' = [FreshCache EXCEPT !.ready = r]
      BY <1>3, <1>6, <2>1, <3>1 DEF Ingest, FreshCache
    <3>3. savedLeaves' = <<>> /\ savedLast' = 0 /\ cacheSync' = Idle
      BY <1>3, <1>6, <2>1 DEF Ingest
    <3>4. /\ cache' \in [leaves : Seq(Leaves), last : Nat, ready : BOOLEAN, consistent : BOOLEAN]
          /\ cache'.leaves = <<>>
      BY <3>2, EmptySeq DEF FreshCache, TreeInv, TreeTypes
    <3> QED BY <3>3, <3>4 DEF Windowed
  <2>2. CASE ~c.gap
    <3> DEFINE done == c.gap \/ ~c.consistent \/ end = cacheSync.target
               last == IF c.consistent THEN end ELSE cache.last
               ready == cache.ready \/ (done /\ cacheSync.first)
    <3>1. /\ cache' = [leaves |-> c.leaves, consistent |-> c.consistent,
                       last |-> last, ready |-> ready]
          /\ savedLeaves' = c.saved
          /\ savedLast' = IF c.consistent THEN end ELSE savedLast
          /\ cacheSync' = IF done THEN Idle ELSE cacheSync
      BY <1>3, <1>6, <2>2 DEF Ingest
    <3>2. last \in Nat /\ ready \in BOOLEAN /\ (~done => last = end)
      BY CacheFields
    <3>3. cacheSync' = Idle \/ (cacheSync' = cacheSync /\ last = end)
      BY <3>1, <3>2
    <3> HIDE DEF done, last, ready
    <3>4. /\ cache' \in [leaves : Seq(Leaves), last : Nat, ready : BOOLEAN, consistent : BOOLEAN]
          /\ cache'.leaves = c.leaves /\ cache'.consistent = c.consistent /\ cache'.last = last
      BY <1>8, <3>1, <3>2
    <3>5. savedLast' \in Nat
      BY <3>1, CacheFields
    <3> QED BY <3>1, <3>3, <3>4, <3>5 DEF Windowed
  <2> QED BY <2>1, <2>2
<1> QED BY <1>1, <1>5, <1>7, <1>9

\* The table has a longer prefix of the chain afterwards, or is empty, or as before.
LEMMA CacheWindowKeeps ==
    ASSUME TreeInv, cacheSyncWindow
    PROVE  TreeInv'
<1>1. cacheSync.pc = "scan" /\ UNCHANGED <<chain, deep>>
  BY WindowIs
<1>end. PICK end \in Nat :
           /\ end + Confirmations <= Len(chain) /\ end <= cacheSync.target
           /\ \E c : Ingesting(c, end) /\ Windowed(c, end)
  BY WindowIs
<1>2. PICK c : Ingesting(c, end) /\ Windowed(c, end)
  BY <1>end
<1>3. /\ c.saved \in Seq(Leaves)
      /\ c.consistent => c.leaves = c.saved
      /\ c.saved = savedLeaves \/ \E n \in 1..end : c.saved = LeavesAfter(chain)[n]
  BY <1>2 DEF Ingesting
<1>4. TreeTypes'
  BY <1>1, <1>2, <1>3, EmptySeq DEF TreeInv, TreeTypes, Windowed
<1>5. RunBehind'
  BY <1>1, <1>2, <1>end, CacheFields DEF TreeInv, RunBehind, Windowed
<1>6. SavedSettled'
  <2>1. CASE savedLeaves' = <<>>
    BY <1>1, <2>1, CacheFields, NoneSettled DEF SavedSettled
  <2>2. CASE savedLeaves' = savedLeaves
    BY <1>1, <2>2 DEF TreeInv, SavedSettled
  <2>3. ASSUME NEW n \in 1..end, savedLeaves' = LeavesAfter(chain)[n] PROVE SavedSettled'
    <3>1. n \in Nat /\ n + Confirmations <= Len(chain)
      BY <1>end, CacheFields
    <3>2. Settled(savedLeaves', chain)
      BY <2>3, <3>1 DEF Settled
    <3> QED BY <1>1, <3>2 DEF SavedSettled
  <2> QED BY <1>2, <1>3, <2>1, <2>2, <2>3 DEF Windowed
<1>7. CacheIsSaved'
  <2>1. cacheSync'.pc # "start"
    BY <1>1, <1>2, CacheFields DEF Windowed
  <2> QED BY <1>2, <1>3, <2>1 DEF CacheIsSaved, Windowed
<1> QED BY <1>4, <1>5, <1>6, <1>7 DEF TreeInv

-----------------------------------------------------------------------------
(* What the relay serves.                                                  *)

\* The invariant holds of the empty chain.
LEMMA InitTree == Init => TreeInv
<1> SUFFICES ASSUME Init PROVE TreeInv
  OBVIOUS
<1>1. /\ chain = <<>> /\ chain \in Blocks /\ savedLeaves = <<>> /\ savedLast = 0
      /\ cache = [leaves |-> <<>>, last |-> 0, ready |-> FALSE, consistent |-> TRUE]
      /\ cacheSync = [pc |-> "start", target |-> 0, first |-> TRUE]
  BY EmptySeq DEF Init, Blocks
<1>2. TreeTypes
  BY <1>1, EmptySeq DEF TreeTypes, CacheRunsOf
<1>3. SavedSettled
  BY <1>1, NoneSettled DEF SavedSettled
<1> QED BY <1>1, <1>2, <1>3 DEF TreeInv, RunBehind, CacheIsSaved

\* The invariant is kept by every step.
LEMMA NextTree ==
    ASSUME TreeInv, [Next]_vars
    PROVE  TreeInv'
<1>1. CASE (\E b \in Contents : Mine(b)) \/ Reorg
  BY <1>1, TreeChainKeeps
<1>2. CASE cacheSyncThrows \/ RelayRestarts \/ resyncMerkle
  BY <1>2, CacheStopsKeeps
<1>3. CASE cacheSyncStart
  BY <1>3, CacheStartKeeps
<1>4. CASE cacheLoad
  BY <1>4, CacheLoadKeeps
<1>5. CASE cacheSyncWindow
  BY <1>5, CacheWindowKeeps
<1>6. CASE indexSyncStart \/ indexLoad \/ indexSyncWindow \/ indexSyncThrows
  BY <1>6, TreeOthersKeep DEF indexSyncStart, indexLoad, indexSyncWindow, indexSyncThrows, history
<1>7. CASE SignerRestarts \/ catchUpMissedBets \/ deepSweep \/ fetchBetAuthorized
  BY <1>7, TreeOthersKeep DEF SignerRestarts, catchUpMissedBets, deepSweep, fetchBetAuthorized,
     relay, history
<1>8. CASE catchUpThrows \/ (\E b \in Bets : handleBetRecord(b)) \/ saveLastBlock
  BY <1>8, TreeOthersKeep DEF catchUpThrows, handleBetRecord, saveLastBlock, relay, history
<1>9. CASE \E leaf \in Leaves : merklePath(leaf)
  BY <1>9, TreeOthersKeep DEF merklePath, proofFor, computeMerkleProof, relay, history
<1>10. CASE UNCHANGED vars
  BY <1>10, TreeOthersKeep DEF vars, relay, history
<1> QED BY <1>1, <1>2, <1>3, <1>4, <1>5, <1>6, <1>7, <1>8, <1>9, <1>10 DEF Next, onActivity

\* A cache in use follows the chain.
LEMMA TreeInvFollows ==
    ASSUME TreeInv
    PROVE  CacheFollowsChain
<1> SUFFICES ASSUME isReady(cache), ~deep PROVE IsPrefix(cache.leaves, ChainLeaves)
  BY DEF CacheFollowsChain
<1>1. cache.leaves = savedLeaves
  BY DEF TreeInv, CacheIsSaved, isReady
<1>2. Settled(savedLeaves, chain)
  BY DEF TreeInv, SavedSettled
<1> QED BY <1>1, <1>2, CacheFields, SettledIsPrefix DEF ChainLeaves

\* What a window appends while the cache counts as consistent is the chain's.
LEMMA WindowDiverges ==
    ASSUME TreeInv, cacheSyncWindow
    PROVE  DivergenceStops
<1> SUFFICES ASSUME Len(cache'.leaves) > Len(cache.leaves), cache'.consistent
             PROVE  IsPrefix(cache'.leaves, ChainLeaves)
  BY DEF DivergenceStops
<1>1. PICK end \in Nat :
           /\ end + Confirmations <= Len(chain) /\ end <= cacheSync.target
           /\ \E c : Ingesting(c, end) /\ Windowed(c, end)
  BY WindowIs
<1>2. PICK c : Ingesting(c, end) /\ Windowed(c, end)
  BY <1>1
<1>3. Len(cache.leaves) \in Nat
  BY CacheFields, LenProperties
<1>4. cache'.leaves # <<>> /\ cache'.leaves # cache.leaves
  BY <1>3, EmptySeq
<1>5. PICK n \in 1..end : cache'.leaves = LeavesAfter(chain)[n]
  BY <1>2, <1>4 DEF Ingesting, Windowed
<1>6. n \in 1..Len(chain)
  BY <1>1, CacheFields
<1> QED BY <1>5, <1>6, CacheFields, SettledIsPrefix DEF ChainLeaves

\* No other step appends a leaf while a run goes on.
LEMMA OthersDoNotAppend ==
    ASSUME TreeInv,
           \/ cache'.leaves = cache.leaves \/ cache'.leaves = <<>> \/ cacheSync.pc # "scan"
    PROVE  DivergenceStops
<1>1. Len(cache.leaves) \in Nat
  BY CacheFields, LenProperties
<1> QED BY <1>1, EmptySeq DEF DivergenceStops

\* Neither does one that serves no path serve a wrong one.
LEMMA QuietServes ==
    ASSUME served' = NoPath
    PROVE  ServedRootKnown
BY DEF ServedRootKnown, NoPath

\* A block with a leaf adds one, which is the last.
LEMMA LeafIndexed ==
    ASSUME NEW blocks \in Blocks, NEW n \in 1..Len(blocks), blocks[n] # Empty
    PROVE  LET ls == LeavesAfter(blocks)[n] IN
           /\ ls \in Seq(Leaves) /\ LeavesAfter(blocks)[n - 1] \in Seq(Leaves)
           /\ Len(ls) = Len(LeavesAfter(blocks)[n - 1]) + 1
           /\ ls[Len(ls)] = blocks[n]
<1>1. Len(blocks) \in Nat
  BY LenProperties DEF Blocks
<1>2. n \in 0..Len(blocks) /\ n - 1 \in 0..Len(blocks)
  BY <1>1
<1>3. LeavesAfter(blocks)[n] \in Seq(Leaves) /\ LeavesAfter(blocks)[n - 1] \in Seq(Leaves)
  BY <1>2, LeavesAfterTypes
<1>4. LeavesAfter(blocks)[n] = Append(LeavesAfter(blocks)[n - 1], blocks[n])
  BY LeavesAfterIs DEF With
<1>5. blocks[n] \in Leaves
  BY ElementOfSeq DEF Blocks
<1> QED BY <1>3, <1>4, <1>5, AppendProperties

\* Logs without a hole below the last leaf give the leaves after its block.
LEMMA ComputedServes ==
    ASSUME TreeInv, NEW leaf, computeMerkleProof(leaf)
    PROVE  ServedRootKnown
<1> DEFINE LA(n) == LeavesAfter(chain)[n]
           Root(ns) == [i \in {LeafInserted(n).leafIndex : n \in ns} |->
                          chain[CHOOSE n \in ns : LeafInserted(n).leafIndex = i]]
<1>1. PICK ns \in SUBSET (1..Len(chain)) :
        /\ QueryLogs(1, Len(chain), ns)
        /\ DOMAIN Root(ns) \in {1..last : last \in 1..Len(chain)}
        /\ served' = [leaf |-> leaf, root |-> Root(ns)]
  BY DEF computeMerkleProof
<1>2. PICK last \in 1..Len(chain) : DOMAIN Root(ns) = 1..last
  BY <1>1
<1>3. \A n : LeafInserted(n).leafIndex = Len(LA(n))
  BY DEF LeafInserted
<1>4. chain \in Blocks /\ Len(chain) \in Nat /\ last \in Nat
  BY CacheFields
<1>5. ASSUME NEW n \in ns
      PROVE  /\ n \in 1..Len(chain) /\ LA(n) \in Seq(Leaves) /\ LA(n - 1) \in Seq(Leaves)
             /\ Len(LA(n)) \in Nat /\ Len(LA(n)) = Len(LA(n - 1)) + 1
             /\ LA(n)[Len(LA(n))] = chain[n]
  <2>1. n \in 1..Len(chain) /\ chain[n] # Empty
    BY <1>1 DEF QueryLogs, Logs
  <2> QED BY <1>4, <2>1, LeafIndexed, LenProperties
<1>6. ASSUME NEW i \in 1..last
      PROVE  \E n \in ns : Len(LA(n)) = i /\ Root(ns)[i] = chain[n]
  <2>1. i \in {LeafInserted(n).leafIndex : n \in ns}
    BY <1>2
  <2>2. Root(ns)[i] = chain[CHOOSE n \in ns : LeafInserted(n).leafIndex = i]
    BY <2>1
  <2>3. \E n \in ns : LeafInserted(n).leafIndex = i
    BY <2>1
  <2>4. PICK n \in ns : /\ n = CHOOSE k \in ns : LeafInserted(k).leafIndex = i
                       /\ LeafInserted(n).leafIndex = i
    BY <2>3
  <2> QED BY <1>3, <2>2, <2>4
<1>7. PICK top \in ns : Len(LA(top)) = last
  <2>1. last \in 1..last
    BY <1>4
  <2> QED BY <1>6, <2>1
<1>8. ASSUME NEW i \in 1..last PROVE Root(ns)[i] = LA(top)[i]
  <2>1. PICK n \in ns : Len(LA(n)) = i /\ Root(ns)[i] = chain[n]
    BY <1>6
  <2>2. n \in Nat /\ top \in Nat /\ n <= Len(chain) /\ top <= Len(chain)
    BY <1>4, <1>5
  <2>3. n <= top
    <3> SUFFICES ASSUME top <= n - 1 PROVE FALSE
      BY <2>2
    <3>1. n - 1 \in Nat /\ n - 1 <= Len(chain)
      BY <1>4, <1>5, <2>2
    <3>2. Starts(LA(top), LA(n - 1))
      BY <1>4, <2>2, <3>1, LeavesGrow
    <3>3. Len(LA(n - 1)) \in Nat /\ Len(LA(n)) = Len(LA(n - 1)) + 1
      BY <1>5, LenProperties
    <3> QED BY <1>4, <1>7, <2>1, <3>2, <3>3 DEF Starts
  <2>4. Starts(LA(n), LA(top))
    BY <1>4, <2>2, <2>3, LeavesGrow
  <2>5. LA(n)[i] = chain[n] /\ i \in 1..Len(LA(n))
    BY <1>4, <1>5, <2>1
  <2> QED BY <2>1, <2>4, <2>5 DEF Starts
<1>9. Root(ns) = LA(top)
  <2>1. LA(top) = [i \in 1..last |-> LA(top)[i]]
    BY <1>5, <1>7, LenProperties
  <2>2. Root(ns) = [i \in 1..last |-> Root(ns)[i]]
    BY <1>2
  <2> QED BY <1>8, <2>1, <2>2
<1>10. IsPrefix(Root(ns), ChainLeaves)
  <2>1. top \in 1..Len(chain)
    BY <1>5
  <2> QED BY <1>4, <1>9, <2>1, SettledIsPrefix DEF ChainLeaves
<1>11. served'.root = Root(ns)
  BY <1>1
<1> QED BY <1>10, <1>11 DEF ServedRootKnown

\* Every step stops a cache that diverges, and serves only known roots.
LEMMA StepServes ==
    ASSUME TreeInv, Next
    PROVE  DivergenceStops /\ ServedRootKnown
<1>1. CASE cacheSyncWindow
  <2>1. served' = NoPath
    BY <1>1 DEF cacheSyncWindow, OfTree, Quiet
  <2> QED BY <1>1, <2>1, WindowDiverges, QuietServes
<1>2. CASE (\E b \in Contents : Mine(b)) \/ Reorg
  <2>1. served' = NoPath /\ UNCHANGED cache
    BY <1>2 DEF Mine, Reorg, Quiet, relay
  <2> QED BY <2>1, OthersDoNotAppend, QuietServes
<1>3. CASE RelayRestarts \/ resyncMerkle
  <2>1. served' = NoPath /\ cache'.leaves = <<>>
    BY <1>3 DEF RelayRestarts, resyncMerkle, OfTree, Quiet
  <2> QED BY <2>1, OthersDoNotAppend, QuietServes
<1>4. CASE cacheLoad
  <2>1. served' = NoPath /\ cacheSync.pc # "scan"
    BY <1>4 DEF cacheLoad, OfTree, Quiet
  <2> QED BY <2>1, OthersDoNotAppend, QuietServes
<1>5. CASE cacheSyncStart \/ cacheSyncThrows
  <2>1. served' = NoPath /\ UNCHANGED cache
    BY <1>5 DEF cacheSyncStart, cacheSyncThrows, OfTree, Quiet
  <2> QED BY <2>1, OthersDoNotAppend, QuietServes
<1>6. CASE indexSyncStart \/ indexLoad \/ indexSyncWindow \/ indexSyncThrows
  <2>1. served' = NoPath /\ UNCHANGED cache
    BY <1>6 DEF indexSyncStart, indexLoad, indexSyncWindow, indexSyncThrows, OfBets, Quiet
  <2> QED BY <2>1, OthersDoNotAppend, QuietServes
<1>7. CASE SignerRestarts \/ catchUpMissedBets \/ deepSweep \/ fetchBetAuthorized
  <2>1. served' = NoPath /\ UNCHANGED cache
    BY <1>7 DEF SignerRestarts, catchUpMissedBets, deepSweep, fetchBetAuthorized, OfBets, Quiet,
       relay
  <2> QED BY <2>1, OthersDoNotAppend, QuietServes
<1>8. CASE catchUpThrows \/ (\E b \in Bets : handleBetRecord(b)) \/ saveLastBlock
  <2>1. served' = NoPath /\ UNCHANGED cache
    BY <1>8 DEF catchUpThrows, handleBetRecord, saveLastBlock, OfBets, Quiet, relay
  <2> QED BY <2>1, OthersDoNotAppend, QuietServes
<1>9. ASSUME NEW leaf \in Leaves, merklePath(leaf)
      PROVE  DivergenceStops /\ ServedRootKnown
  <2>1. UNCHANGED cache
    BY <1>9 DEF merklePath, proofFor, computeMerkleProof, relay
  <2>2. CASE proofFor(leaf)
    <3>1. isReady(cache) /\ served'.root = cache.leaves
      BY <2>2 DEF proofFor
    <3>2. ServedRootKnown
      BY <3>1, TreeInvFollows DEF CacheFollowsChain, ServedRootKnown
    <3> QED BY <2>1, <3>2, OthersDoNotAppend
  <2>3. CASE computeMerkleProof(leaf)
    BY <2>1, <2>3, OthersDoNotAppend, ComputedServes
  <2> QED BY <1>9, <2>2, <2>3 DEF merklePath
<1> QED BY <1>1, <1>2, <1>3, <1>4, <1>5, <1>6, <1>7, <1>8, <1>9 DEF Next, onActivity

\* A ready cache is what the chain's tree was earlier, for any number of blocks,
\* windows, faults and restarts, unless a reorganisation was deeper than CONFIRMATIONS
\* since its table was built (merkleTree.ts sync, loadFromDb).
THEOREM CacheSound == Spec => []CacheFollowsChain
<1>1. TreeInv /\ [Next]_vars => TreeInv'
  BY NextTree
<1>2. TreeInv => CacheFollowsChain
  BY TreeInvFollows
<1> QED BY <1>1, <1>2, InitTree, PTL DEF Spec

\* Whatever logs the queries leave out, a path that is served is of a root that the
\* chain's tree has had, and a cache that differs from the chain is stopped with the
\* next leaf it appends (api.ts /merkle-path, merkleTree.ts sync, merkle.ts
\* computeMerkleProof).
THEOREM PathsAreSound == Spec => PathsSound
<1>1. TreeInv /\ [Next]_vars => TreeInv'
  BY NextTree
<1>2. TreeInv /\ [Next]_vars => [DivergenceStops /\ ServedRootKnown]_vars
  BY StepServes
<1> QED BY <1>1, <1>2, InitTree, PTL DEF Spec, PathsSound
=============================================================================
