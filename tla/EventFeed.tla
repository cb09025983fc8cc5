----------------------------- MODULE EventFeed ------------------------------
(***************************************************************************)
(* How what happens on chain reaches those who act on it: the proof relay's *)
(* copy of the commitment tree (merkleTree.ts) and its index of the Vault's *)
(* events (eventIndex.ts), the paths it serves (api.ts, merkle.ts), and the *)
(* signing layer's scan for bets (eventListener.ts, vaultEventSource.ts).  *)
(*                                                                         *)
(* A block carries at most one Vault transaction, named by the leaf it     *)
(* inserts; the leaves in Bets come with a BetAuthorized event.  A root is *)
(* represented by the sequence of leaves below it: CommitmentMerkleTree    *)
(* shows that different sequences have different roots.                    *)
(*                                                                         *)
(* The relay's cache and the path of the bets share only the chain and the *)
(* faults, so a behaviour looks at one part and leaves the other alone.    *)
(*                                                                         *)
(* At most MaxFaults times in all: a log query returns an incomplete       *)
(* answer (gap), throws (error), the relay does not answer (relayDown),    *)
(* a betRecords read throws (readError), the last blocks are replaced      *)
(* (reorg), or a process restarts.                                         *)
(***************************************************************************)
EXTENDS Integers, Sequences, SequencesExt, FiniteSets

CONSTANTS
    Leaves,         \* the leaves that transactions insert
    Bets,           \* those whose transaction is an authorizeBet
    Empty,          \* a block without a Vault transaction
    MaxBlocks,
    Confirmations,  \* CONFIRMATIONS of merkleTree.ts and eventIndex.ts
    MaxReorg,       \* how many blocks a reorganisation replaces
    ScanWindow,     \* SCAN_WINDOW of all three scans
    SafetyBuffer,   \* SAFETY_BUFFER of eventListener.ts
    Lookback,       \* DEEP_LOOKBACK_BLOCKS
    MaxStale,       \* the blocks mined within BLOCK_HEAD_TTL_MS
    MaxFaults,
    Faults

ASSUME FeedAssumption ==
    /\ Bets \subseteq Leaves /\ Empty \notin Leaves
    /\ MaxBlocks \in Nat /\ Confirmations \in Nat /\ MaxReorg \in Nat
    /\ ScanWindow \in Nat \ {0} /\ SafetyBuffer \in Nat /\ Lookback \in Nat
    /\ MaxFaults \in Nat /\ MaxStale \in Nat
    /\ Faults \subseteq {"gap", "error", "relayDown", "readError", "reorg", "restart"}

VARIABLES
    part,       \* the part that is looked at: "tree" or "bets"
    chain,      \* external: the blocks
    faults,     \* the faults so far
    cache,      \* CachedMerkleTree
    savedLeaves,\* durable: the table merkle_leaves
    savedLast,  \* durable: its last_block
    cacheSync,  \* the run of CachedMerkleTree.sync in progress
    index,      \* VaultEventIndex: ready, and last_block
    rows,       \* durable: the BetAuthorized rows of vault_events
    indexSync,  \* the run of VaultEventIndex.sync in progress
    served,     \* the answer of /merkle-path that this step gave, if any
    cursor,     \* durable: lastBlock of event-listener-state.json
    scan,       \* the scan for bets in progress
    handed,     \* history: the bets that reached processBetEvent
    unread,     \* history: the bets whose betRecords read threw
    unindexed,  \* history: the bets the index will never have at their block
    deep        \* history: a reorganisation replaced a block behind the relay's cursors

relay == <<cache, savedLeaves, savedLast, cacheSync, index, rows, indexSync>>
signer == <<cursor, scan>>
history == <<handed, unread, unindexed, deep>>
vars == <<part, chain, faults, relay, served, signer, history>>

Idle == [pc |-> "idle"]
NoPath == [leaf |-> Empty, root |-> <<>>]

\* The leaves of the first n blocks, in order, for each n
LeavesAfter(blocks) ==
    LET after[n \in 0..Len(blocks)] ==
            IF n = 0 THEN <<>>
            ELSE IF blocks[n] = Empty THEN after[n - 1] ELSE Append(after[n - 1], blocks[n])
    IN after
ChainLeaves == LeavesAfter(chain)[Len(chain)]
Mined(b, n) == n <= Len(chain) /\ chain[n] = b
Smaller(a, b) == IF a < b THEN a ELSE b
Larger(a, b) == IF a > b THEN a ELSE b

TypeOK ==
    /\ part \in {"tree", "bets"}
    /\ chain \in BoundedSeq(Leaves \cup {Empty}, MaxBlocks)
    /\ faults \in 0..MaxFaults
    /\ cache \in [leaves : Seq(Leaves), last : 0..MaxBlocks,
                  ready : BOOLEAN, consistent : BOOLEAN]
    /\ savedLeaves \in Seq(Leaves) /\ savedLast \in 0..MaxBlocks
    /\ cacheSync \in {Idle} \cup
         [pc : {"start", "scan"}, target : 0..MaxBlocks, first : BOOLEAN]
    /\ index \in [last : 0..MaxBlocks, ready : BOOLEAN]
    /\ rows \subseteq Bets \X (1..MaxBlocks)
    /\ indexSync \in {Idle} \cup [pc : {"start", "scan"}, target : 0..MaxBlocks]
    /\ served \in [leaf : Leaves \cup {Empty}, root : Seq(Leaves)]
    /\ cursor \in 0..MaxBlocks
    /\ scan \in {Idle} \cup
         [pc : {"fetch", "handle"}, source : {"index", "chain"}, head : 0..MaxBlocks,
          at : 0..(MaxBlocks + 1), todo : SUBSET Bets, persist : BOOLEAN]
    /\ handed \subseteq Bets /\ unread \subseteq Bets /\ unindexed \subseteq Bets
    /\ deep \in BOOLEAN

Init ==
    /\ part \in {"tree", "bets"}
    /\ chain = <<>> /\ faults = 0
    /\ cache = [leaves |-> <<>>, last |-> 0, ready |-> FALSE, consistent |-> TRUE]
    /\ savedLeaves = <<>> /\ savedLast = 0
    /\ index = [last |-> 0, ready |-> FALSE] /\ rows = {}
    /\ cacheSync = [pc |-> "start", target |-> 0, first |-> TRUE]
    /\ indexSync = [pc |-> "start", target |-> 0]
    /\ served = NoPath
    /\ cursor = 0 /\ scan = Idle
    /\ handed = {} /\ unread = {} /\ unindexed = {} /\ deep = FALSE

\* Steps that serve no path, in either part or in one of them
Quiet == UNCHANGED part /\ served' = NoPath
OfTree == part = "tree" /\ Quiet
OfBets == part = "bets" /\ Quiet

Fault(f) == f \in Faults /\ faults < MaxFaults /\ faults' = faults + 1
NoFault == UNCHANGED faults

-----------------------------------------------------------------------------
(* The chain.                                                              *)

\* What a block may carry; where only bets matter a deposit is like no transaction.
Contents == {Empty} \cup IF part = "bets" THEN Bets ELSE Leaves

\* A Vault transaction is in a block once.
CanFollow(blocks, b) == b = Empty \/ b \notin Range(blocks)

Mine(b) ==
    /\ Quiet
    /\ Len(chain) < MaxBlocks /\ CanFollow(chain, b)
    /\ chain' = Append(chain, b)
    /\ UNCHANGED <<faults, relay, signer, history>>

\* The last k blocks are replaced.  More than CONFIRMATIONS of them may have been
\* ingested, and a bet that moves to such a block is one the index has passed: it
\* may have a row, but at a block that the bet is no longer in.
Reorg ==
    \E k \in 1..Smaller(MaxReorg, Len(chain)) :
        LET kept == SubSeq(chain, 1, Len(chain) - k) IN
        \E blocks \in [1..k -> Contents] :
            /\ Quiet /\ Fault("reorg")
            /\ \A i \in 1..k : CanFollow(kept \o SubSeq(blocks, 1, i - 1), blocks[i])
            /\ chain' = kept \o blocks
            /\ deep' = (deep \/ k > Confirmations)
            /\ unindexed' = unindexed \cup
                 {b \in Bets : k > Confirmations /\ \E n \in (Len(kept) + 1)..index.last :
                                                      chain'[n] = b /\ <<b, n>> \notin rows}
            /\ UNCHANGED <<relay, signer, handed, unread>>

\* getLogsChunked, getVaultTreeLogs: the blocks of a range with a log to report.
\* A gap leaves some of them out.
Logs(from, to) == {n \in from..to : n <= Len(chain) /\ chain[n] # Empty}
QueryLogs(from, to, got) ==
    \/ got = Logs(from, to) /\ NoFault
    \/ got \in SUBSET Logs(from, to) /\ got # Logs(from, to) /\ Fault("gap")

\* A query throws once its retries are used up.
sendThrows == Fault("error")

\* The head that the relay's timers share is a few seconds old.
getCachedBlockNumber == {n \in 0..Len(chain) : n + MaxStale >= Len(chain)}

-----------------------------------------------------------------------------
(* CachedMerkleTree.                                                       *)

isReady(c) == c.ready /\ c.consistent

\* resetInMemory
FreshCache == [cache EXCEPT !.leaves = <<>>, !.last = 0]

\* Mutant: the run goes up to the head.
cacheSyncStartHead ==
    LET target == Len(chain) IN
    /\ OfTree
    /\ cacheSync.pc = "idle" /\ cache.consistent
    /\ target > cache.last
    /\ cacheSync' = [pc |-> "scan", target |-> target, first |-> FALSE]
    /\ UNCHANGED <<chain, faults, cache, savedLeaves, savedLast, index, rows, indexSync,
                   signer, history>>

\* sync(): the head is read, CONFIRMATIONS blocks are left alone, and there may
\* be nothing to do.  Runs do not overlap (runSync).
cacheSyncStart ==
    /\ OfTree
    /\ cacheSync.pc = "idle" /\ cache.consistent
    /\ \E head \in getCachedBlockNumber :
        /\ head - Confirmations > cache.last
        /\ cacheSync' = [pc |-> "scan", target |-> head - Confirmations, first |-> FALSE]
    /\ UNCHANGED <<chain, faults, cache, savedLeaves, savedLast, index, rows, indexSync,
                   signer, history>>

\* start(), catchUp(): loadFromDb, then the first run
cacheLoad ==
    \E head \in getCachedBlockNumber :
    LET target == head - Confirmations
        last   == IF savedLeaves = <<>> THEN 0 ELSE savedLast IN
    /\ OfTree
    /\ cacheSync.pc = "start"
    /\ cache' = [leaves |-> savedLeaves, last |-> last, consistent |-> TRUE,
                 ready |-> target <= last]
    /\ cacheSync' = IF target <= last THEN Idle
                    ELSE [pc |-> "scan", target |-> target, first |-> TRUE]
    /\ UNCHANGED <<chain, faults, savedLeaves, savedLast, index, rows, indexSync,
                   signer, history>>

\* LeafInserted of block n: the leaf, its index, and the root the contract had after it
LeafInserted(n) ==
    LET newRoot == LeavesAfter(chain)[n] IN
    [leafIndex |-> Len(newRoot), leaf |-> chain[n], newRoot |-> newRoot]

\* Mutant: the computed root is not compared with newRoot.
AppendUnchecked(c, ev) ==
    IF ev.leafIndex <= Len(c.leaves) \/ ~c.consistent \/ c.gap THEN c
    ELSE IF ev.leafIndex # Len(c.leaves) + 1 THEN [c EXCEPT !.gap = TRUE]
    ELSE [c EXCEPT !.leaves = Append(@, ev.leaf), !.saved = Append(@, ev.leaf)]

\* One leaf: skipped when the tree has it, a gap when an earlier one is missing,
\* otherwise appended, and saved when its root is the chain's.
AppendLeaf(c, ev) ==
    IF ev.leafIndex <= Len(c.leaves) \/ ~c.consistent \/ c.gap THEN c
    ELSE IF ev.leafIndex # Len(c.leaves) + 1 THEN [c EXCEPT !.gap = TRUE]
    ELSE LET leaves == Append(c.leaves, ev.leaf) IN
         IF leaves = ev.newRoot
         THEN [c EXCEPT !.leaves = leaves, !.saved = Append(@, ev.leaf)]
         ELSE [c EXCEPT !.leaves = leaves, !.consistent = FALSE]

\* The events of the logs in blocks ns, in order of leafIndex, which is that of the
\* blocks
Appended(ns, end) ==
    LET after[n \in cache.last..end] ==
            IF n = cache.last
            THEN [leaves |-> cache.leaves, saved |-> savedLeaves,
                  consistent |-> cache.consistent, gap |-> FALSE]
            ELSE IF n \in ns THEN AppendLeaf(after[n - 1], LeafInserted(n)) ELSE after[n - 1]
    IN after[end]

\* What a window's logs do to the cache: the gap resets it, a root that differs
\* stops it for good, and otherwise the cursor moves and is saved.  The run ends
\* with the last window; the first run makes the cache ready.
Ingest(ns, end) ==
    LET c == Appended(ns, end)
       done == c.gap \/ ~c.consistent \/ end = cacheSync.target
    IN /\ IF c.gap
          THEN /\ cache' = [FreshCache EXCEPT !.ready = @ \/ cacheSync.first]
               /\ savedLeaves' = <<>> /\ savedLast' = 0
          ELSE /\ cache' = [leaves |-> c.leaves, consistent |-> c.consistent,
                            last |-> IF c.consistent THEN end ELSE cache.last,
                            ready |-> cache.ready \/ (done /\ cacheSync.first)]
               /\ savedLeaves' = c.saved
               /\ savedLast' = IF c.consistent THEN end ELSE savedLast
       /\ cacheSync' = IF done THEN Idle ELSE cacheSync

cacheSyncWindow ==
    LET end == Smaller(cache.last + ScanWindow, cacheSync.target) IN
    /\ OfTree
    /\ cacheSync.pc = "scan"
    /\ \E ns \in SUBSET ((cache.last + 1)..end) :
        /\ QueryLogs(cache.last + 1, end, ns)
        /\ Ingest(ns, end)
    /\ UNCHANGED <<chain, index, rows, indexSync, signer, history>>

\* A query throws: the run ends, and a first run leaves the cache not ready.
cacheSyncThrows ==
    /\ OfTree
    /\ cacheSync.pc = "scan" /\ sendThrows
    /\ cacheSync' = Idle
    /\ UNCHANGED <<chain, cache, savedLeaves, savedLast, index, rows, indexSync,
                   signer, history>>

\* GET /merkle-path from the cache; a miss of a ready cache answers 404 after a
\* run of sync, which the client repeats.
proofFor(leaf) ==
    /\ part = "tree" /\ UNCHANGED part
    /\ isReady(cache) /\ leaf \in Range(cache.leaves)
    /\ served' = [leaf |-> leaf, root |-> cache.leaves]
    /\ UNCHANGED <<chain, faults, relay, signer, history>>

\* GET /merkle-path from the chain, when the cache is not to be used: all logs up
\* to the head, where a missing leaf before the last one makes hashing throw.
computeMerkleProof(leaf) ==
    /\ part = "tree" /\ UNCHANGED part
    /\ ~isReady(cache)
    /\ \E ns \in SUBSET (1..Len(chain)) :
        /\ QueryLogs(1, Len(chain), ns)
        /\ LET leafIndex(n) == LeafInserted(n).leafIndex
               leaves == [i \in {leafIndex(n) : n \in ns} |->
                            chain[CHOOSE n \in ns : leafIndex(n) = i]]
           IN /\ leaf \in Range(leaves)
              /\ DOMAIN leaves \in {1..last : last \in 1..Len(chain)}
              /\ served' = [leaf |-> leaf, root |-> leaves]
    /\ UNCHANGED <<chain, relay, signer, history>>

\* GET /merkle-path
merklePath(leaf) == proofFor(leaf) \/ computeMerkleProof(leaf)

-----------------------------------------------------------------------------
(* VaultEventIndex.                                                        *)

indexSyncStart ==
    /\ OfBets
    /\ indexSync.pc = "idle"
    \* before the first run has succeeded there is neither timer nor syncNow
    /\ index.ready
    /\ \E head \in getCachedBlockNumber :
        /\ head - Confirmations > index.last
        /\ indexSync' = [pc |-> "scan", target |-> head - Confirmations]
    /\ UNCHANGED <<chain, faults, cache, savedLeaves, savedLast, cacheSync, index, rows,
                   signer, history>>

indexLoad ==
    \E head \in getCachedBlockNumber :
    LET target == head - Confirmations IN
    /\ OfBets
    /\ indexSync.pc = "start"
    /\ index' = [index EXCEPT !.ready = target <= index.last]
    /\ indexSync' = IF target <= index.last THEN Idle
                    ELSE [pc |-> "scan", target |-> target]
    /\ UNCHANGED <<chain, faults, cache, savedLeaves, savedLast, cacheSync, rows,
                   signer, history>>

\* The rows of a window and then the cursor; a row that a gap left out is never
\* asked for again.
indexSyncWindow ==
    LET end == Smaller(index.last + ScanWindow, indexSync.target) IN
    /\ OfBets
    /\ indexSync.pc = "scan"
    /\ \E ns \in SUBSET ((index.last + 1)..end) :
        /\ QueryLogs(index.last + 1, end, ns)
        /\ rows' = rows \cup {<<chain[n], n>> : n \in {k \in ns : chain[k] \in Bets}}
        /\ unindexed' = unindexed \cup
             (Bets \cap {chain[n] : n \in Logs(index.last + 1, end) \ ns})
    /\ index' = [last |-> end, ready |-> index.ready \/ end = indexSync.target]
    /\ indexSync' = IF end = indexSync.target THEN Idle ELSE indexSync
    /\ UNCHANGED <<chain, cache, savedLeaves, savedLast, cacheSync, signer,
                   handed, unread, deep>>

indexSyncThrows ==
    /\ OfBets
    /\ indexSync.pc = "scan" /\ sendThrows
    /\ indexSync' = Idle
    /\ UNCHANGED <<chain, cache, savedLeaves, savedLast, cacheSync, index, rows,
                   signer, history>>

\* The timers, a relayed transaction, a deposit's hint, and each log or new connection
\* of the log subscription: whatever the socket loses, these only start runs.
onActivity == cacheSyncStart \/ indexSyncStart

\* GET /index-head and GET /bet-authorized
betAuthorizedEvents(from, to) == {r[1] : r \in {q \in rows : q[2] \in from..to}}

-----------------------------------------------------------------------------
(* The signing layer's scan.                                               *)

\* Mutant: the head is the chain's although the events come from the index.
scanHeadOfChain(head, source) ==
    \/ index.ready /\ head = Len(chain) /\ source = "index" /\ NoFault
    \/ ~index.ready /\ head = Len(chain) /\ source = "chain" /\ NoFault
    \/ index.ready /\ head = Len(chain) /\ source = "chain" /\ Fault("relayDown")

\* The index's own head as long as it answers and is ready, else the chain's
scanHead(head, source) ==
    \/ index.ready /\ head = index.last /\ source = "index" /\ NoFault
    \/ ~index.ready /\ head = Len(chain) /\ source = "chain" /\ NoFault
    \/ index.ready /\ head = Len(chain) /\ source = "chain" /\ Fault("relayDown")

Scanning(from, head, source, persist) ==
    IF from > head THEN Idle
    ELSE [pc |-> "fetch", source |-> source, head |-> head, at |-> from,
          todo |-> {}, persist |-> persist]

\* Block 0 carries nothing, so a scan starts at block 1 (DEPLOY_BLOCK).
catchUpMissedBets ==
    /\ OfBets
    /\ scan.pc = "idle"
    /\ \E head \in 0..Len(chain), source \in {"index", "chain"} :
        /\ scanHead(head, source)
        /\ scan' = Scanning(Larger(1, Smaller(cursor, head) - SafetyBuffer),
                            head, source, TRUE)
    /\ UNCHANGED <<chain, relay, cursor, history>>

\* Mutant: the sweep starts at the cursor.
deepSweepFromCursor ==
    /\ OfBets
    /\ scan.pc = "idle" /\ Len(chain) > 0
    /\ \E head \in 0..Len(chain), source \in {"index", "chain"} :
        /\ scanHead(head, source)
        /\ scan' = Scanning(Larger(1, Smaller(cursor, head)), head, source, FALSE)
    /\ UNCHANGED <<chain, relay, cursor, history>>

\* Nothing while another scan runs; the cursor is not moved.
deepSweep ==
    /\ OfBets
    /\ scan.pc = "idle" /\ Len(chain) > 0
    /\ \E head \in 0..Len(chain), source \in {"index", "chain"} :
        /\ scanHead(head, source)
        /\ scan' = Scanning(Larger(1, Smaller(Len(chain) - Lookback, head)),
                            head, source, FALSE)
    /\ UNCHANGED <<chain, relay, cursor, history>>

WindowEnd == Smaller(scan.at + ScanWindow - 1, scan.head)

\* The bets of a range by the signing layer's own queries, and those a gap left out.
queryFilterChunked(from, to, got, missed) ==
    \E ns \in SUBSET (from..to) :
        /\ QueryLogs(from, to, ns)
        /\ got = Bets \cap {chain[n] : n \in ns}
        /\ missed = Bets \cap {chain[n] : n \in Logs(from, to) \ ns}

\* The rows of the window, or the chain's logs when the relay does not answer
fetchBetAuthorized ==
    /\ OfBets
    /\ scan.pc = "fetch"
    /\ \/ /\ scan.source = "index" /\ index.ready /\ NoFault
          /\ scan' = [scan EXCEPT !.pc = "handle",
                        !.todo = betAuthorizedEvents(scan.at, WindowEnd)]
          /\ UNCHANGED unread
       \/ /\ scan.source = "index" /\ index.ready /\ Fault("relayDown")
          /\ scan' = [scan EXCEPT !.pc = "handle",
                        !.todo = Bets \cap {chain[n] : n \in Logs(scan.at, WindowEnd)}]
          /\ UNCHANGED unread
       \/ /\ scan.source = "chain" \/ ~index.ready
          /\ \E got, missed \in SUBSET Bets :
                /\ queryFilterChunked(scan.at, WindowEnd, got, missed)
                /\ scan' = [scan EXCEPT !.pc = "handle", !.todo = got]
                /\ unread' = unread \cup missed
    /\ UNCHANGED <<chain, relay, cursor, handed, unindexed, deep>>

\* The query throws, and the scan ends where it is.
catchUpThrows ==
    /\ OfBets
    /\ scan.pc = "fetch" /\ (scan.source = "chain" \/ ~index.ready) /\ sendThrows
    /\ scan' = Idle
    /\ UNCHANGED <<chain, relay, cursor, history>>

\* One bet of the window; when the betRecords read throws, or finds no record of
\* a bet that a reorganisation took back, the bet is left.
handleBetRecord(b) ==
    /\ OfBets
    /\ scan.pc = "handle" /\ b \in scan.todo
    /\ scan' = [scan EXCEPT !.todo = @ \ {b}]
    /\ IF b \notin Range(chain)
       THEN NoFault /\ UNCHANGED <<handed, unread>>
       ELSE \/ NoFault /\ handed' = handed \cup {b} /\ UNCHANGED unread
            \/ Fault("readError") /\ unread' = unread \cup {b} /\ UNCHANGED handed
    /\ UNCHANGED <<chain, relay, cursor, unindexed, deep>>

\* The end of a window
saveLastBlock ==
    /\ OfBets
    /\ scan.pc = "handle" /\ scan.todo = {}
    /\ cursor' = IF scan.persist THEN WindowEnd ELSE cursor
    /\ scan' = Scanning(WindowEnd + 1, scan.head, scan.source, scan.persist)
    /\ UNCHANGED <<chain, faults, relay, history>>

-----------------------------------------------------------------------------
(* Restarts.                                                               *)

RelayRestarts ==
    /\ Quiet
    /\ Fault("restart")
    /\ cacheSync' = [pc |-> "start", target |-> 0, first |-> TRUE]
    /\ indexSync' = [pc |-> "start", target |-> 0]
    /\ cache' = [leaves |-> <<>>, last |-> 0, ready |-> FALSE, consistent |-> TRUE]
    /\ index' = [index EXCEPT !.ready = FALSE]
    /\ UNCHANGED <<chain, savedLeaves, savedLast, rows, signer, history>>

\* The cache has stopped for good: the script finds it inconsistent, and the operator
\* deletes the database and lets the relay build it from the chain.
resyncMerkle ==
    /\ OfTree /\ ~cache.consistent /\ Fault("restart")
    /\ cache' = [leaves |-> <<>>, last |-> 0, ready |-> FALSE, consistent |-> TRUE]
    /\ savedLeaves' = <<>> /\ savedLast' = 0
    /\ cacheSync' = [pc |-> "start", target |-> 0, first |-> TRUE]
    /\ index' = [last |-> 0, ready |-> FALSE] /\ rows' = {}
    /\ indexSync' = [pc |-> "start", target |-> 0]
    /\ deep' = FALSE
    /\ UNCHANGED <<chain, signer, handed, unread, unindexed>>

SignerRestarts ==
    /\ OfBets
    /\ Fault("restart")
    /\ scan.pc # "idle" /\ scan' = Idle
    /\ UNCHANGED <<chain, relay, cursor, history>>

-----------------------------------------------------------------------------
Next ==
    \/ \E b \in Contents : Mine(b)
    \/ Reorg
    \/ RelayRestarts \/ resyncMerkle \/ SignerRestarts
    \/ onActivity
    \/ cacheLoad \/ cacheSyncWindow \/ cacheSyncThrows
    \/ \E leaf \in Leaves : merklePath(leaf)
    \/ indexLoad \/ indexSyncWindow \/ indexSyncThrows
    \/ catchUpMissedBets \/ deepSweep \/ fetchBetAuthorized \/ catchUpThrows
    \/ \E b \in Bets : handleBetRecord(b)
    \/ saveLastBlock

Spec == Init /\ [][Next]_vars

\* Timers and nudges keep starting runs, awaits return, blocks keep coming.  The
\* index and the scan each do one thing at a time, so each is one task that goes on.
\* The sweep is skipped while a scan runs: that this is not so every time (a scan of
\* seconds, every 15 s, against a sweep every 30 min) is strong fairness.
IndexRuns == indexLoad \/ indexSyncStart \/ indexSyncWindow
ScanRuns ==
    \/ catchUpMissedBets \/ fetchBetAuthorized \/ saveLastBlock
    \/ \E b \in Bets : handleBetRecord(b)
Fairness ==
    /\ WF_vars(\E b \in Contents : Mine(b))
    /\ WF_vars(IndexRuns) /\ WF_vars(ScanRuns) /\ SF_vars(deepSweep)

FairSpec == Spec /\ Fairness

-----------------------------------------------------------------------------
(* A ready cache is a copy of the chain's tree at some earlier time, whatever *)
(* the log queries left out and wherever the relay was stopped: a path from   *)
(* it verifies against a root the Vault knows.  Only a reorganisation deeper  *)
(* than CONFIRMATIONS breaks it (merkleTree.ts sync, loadFromDb).             *)
CacheFollowsChain ==
    isReady(cache) => deep \/ IsPrefix(cache.leaves, ChainLeaves)

(* A cache that differs from the chain is never extended while it counts as   *)
(* consistent: the next leaf is refused or stops the cache, because its root  *)
(* is compared with the event's newRoot (merkleTree.ts sync).                 *)
DivergenceStops ==
    Len(cache'.leaves) > Len(cache.leaves) /\ cacheSync.pc = "scan"
        => ~cache'.consistent \/ IsPrefix(cache'.leaves, ChainLeaves)

(* A path served from the cache or computed from the logs is one of a root    *)
(* that the chain's tree has had, also when a query left logs out (api.ts     *)
(* /merkle-path, merkle.ts computeMerkleProof).                               *)
ServedRootKnown ==
    served'.leaf # Empty => deep \/ IsPrefix(served'.root, ChainLeaves)

(* No proof is wasted on a tree the contract never had: whatever the relay    *)
(* serves, and whatever it appends while it calls itself consistent.          *)
PathsSound == [][DivergenceStops /\ ServedRootKnown]_vars

(* The scan's cursor never passes a bet that was not handed to the order      *)
(* builder, other than one whose own read or row was lost: switching between  *)
(* the index, which lags, and the chain, which may be reorganised, skips      *)
(* nothing beyond SAFETY_BUFFER (eventListener.ts catchUpMissedBets).         *)
CursorCovers ==
    \A n \in 1..Len(chain) :
        chain[n] \in Bets /\ n <= cursor - SafetyBuffer
            => chain[n] \in handed \cup unread \cup unindexed

\* In a block that the index reaches within the bound on blocks
OnChain(b) == \E n \in 1..(MaxBlocks - Confirmations) : Mined(b, n)
Indexed(b) == \E r \in rows : r[1] = b

(* A bet on chain reaches the order builder, even when its betRecords read or *)
(* the scan's own log query failed once: the sweep comes back for it (unless  *)
(* the relay's index has no row of it and will never have one).               *)
EveryBetHanded ==
    part = "bets" => \A b \in Bets :
        OnChain(b) ~> (b \in handed \/ (b \in unindexed /\ ~Indexed(b)) \/ ~OnChain(b))

(* What eventListener.ts promises of the deep sweep: a bet that an incomplete *)
(* log query skipped is recovered, whoever asked for the logs.                *)
SweepRecovers ==
    part = "bets" => \A b \in Bets : OnChain(b) ~> (b \in handed \/ ~OnChain(b))
=============================================================================
