------------------------------- MODULE Nonces -------------------------------
(***************************************************************************)
(* How a process sends transactions from its one account: the nonce        *)
(* managers of the proof relay (relayer.ts) and of the signing layer       *)
(* (nonceManager.ts), and the relay endpoints of api.ts in front of the    *)
(* former.  The two differ in one thing: the relay takes numbers under a   *)
(* lock, the signing layer does not.                                       *)
(*                                                                         *)
(* The node (external) keeps the accepted transactions of the account and  *)
(* mines them in order of their nonces.  Nonces are counted from the       *)
(* account's next one, so mining lowers them all.  A worker of Workers is  *)
(* one request after another, without end.                                 *)
(*                                                                         *)
(* At most MaxFailures times in all: reading the transaction count throws  *)
(* (seed), gas estimation reverts (estimate), the same in the second       *)
(* attempt (retry), the node accepts a transaction and its answer is lost  *)
(* (lost), the provider sends an accepted transaction again after a 429    *)
(* and is told that it is known (known), or the process restarts           *)
(* (restart).                                                              *)
(***************************************************************************)
EXTENDS Integers, FiniteSets

CONSTANTS
    Workers,     \* requests in progress at a time
    None,
    MaxAhead,    \* bound on the nonces taken ahead of the account's
    MaxFailures,
    Failures

ASSUME NoncesAssumption ==
    /\ None \notin Int /\ None \notin Workers
    /\ MaxAhead \in Nat /\ MaxFailures \in Nat
    /\ Failures \subseteq {"seed", "estimate", "retry", "lost", "known", "restart"}

VARIABLES
    manager,   \* "relay" or "signing"
    nonce,     \* the manager's next number, or None
    lock,      \* relay: the worker inside the critical section, or None
    work,      \* what each worker is doing
    accepted,  \* external: the nonces of the accepted transactions, not yet mined
    failures,
    sent,      \* history: the transactions of a worker's call the node accepted
    known,     \* history: the workers in whose call an accepted transaction was "known"
    failed     \* history: an attempt has failed, or the process restarted

nonceVars == <<manager, nonce, lock, work, accepted, failures, sent, known, failed>>

Idle == [pc |-> "idle"]
\* A worker that asks for a number, or sends with the number n; `attempt` is 1, or
\* 2 after a nonce error.
Asks(pc, attempt) == [pc |-> pc, attempt |-> attempt]
Sends(n, attempt) == [pc |-> "send", n |-> n, attempt |-> attempt]
Asking == {Asks("preflight", 1)} \cup [pc : {"ask", "seed"}, attempt : {1, 2}]
Sending == [pc : {"send"}, n : Int, attempt : {1, 2}]

NoncesTypeOK ==
    /\ manager \in {"relay", "signing"}
    /\ nonce \in Int \cup {None}
    /\ lock \in Workers \cup {None}
    /\ work \in [Workers -> {Idle} \cup Asking \cup Sending]
    /\ accepted \subseteq Nat /\ IsFiniteSet(accepted)
    /\ failures \in 0..MaxFailures
    /\ sent \in [Workers -> 0..2]
    /\ known \subseteq Workers
    /\ failed \in BOOLEAN

NoncesInit ==
    /\ manager \in {"relay", "signing"}
    /\ nonce = None /\ lock = None
    /\ work = [w \in Workers |-> Idle]
    /\ accepted = {} /\ failures = 0
    /\ sent = [w \in Workers |-> 0] /\ known = {} /\ failed = FALSE

Fails(f) == f \in Failures /\ failures < MaxFailures /\ failures' = failures + 1
Succeeds == UNCHANGED failures
At(w, pc) == work[w].pc = pc
Moves(w, state) == work' = [work EXCEPT ![w] = state]

\* The account's pending transaction count: the first nonce without a transaction
PendingCount == CHOOSE n \in 0..Cardinality(accepted) :
                    n \notin accepted /\ 0..(n - 1) \subseteq accepted

\* Bound: no new request when the numbers run too far ahead.
Room == Cardinality(accepted) <= MaxAhead /\ (nonce # None => nonce <= MaxAhead)

-----------------------------------------------------------------------------
(* The endpoints.                                                          *)

\* relayAuthorizeBet, relayCreditSettlement, ..., relayConsolidate: each sends one
\* transaction, which first asks for a number.
relayCall(w) == Moves(w, Asks("ask", 1))

\* POST /relay/bet, /withdrawal, /bet-cancel, /na-cancel, /close, /partial-credit
\* and /consolidate, whose body is well formed; and a send of the signing layer.
relayRequest(w) ==
    /\ At(w, "idle")
    /\ Room
    /\ relayCall(w)
    /\ sent' = [sent EXCEPT ![w] = 0] /\ known' = known \ {w}
    /\ UNCHANGED <<manager, nonce, lock, accepted, failures, failed>>

\* POST /relay/settlement reads the bet's record before it takes a number ...
relaySettlement(w) ==
    /\ manager = "relay"
    /\ At(w, "idle")
    /\ Room
    /\ Moves(w, Asks("preflight", 1))
    /\ sent' = [sent EXCEPT ![w] = 0] /\ known' = known \ {w}
    /\ UNCHANGED <<manager, nonce, lock, accepted, failures, failed>>

\* ... and answers 409 when the bet is credited, failed, or active without an
\* attestation; a read that throws lets the request pass.
checkBetFilled(w) ==
    /\ At(w, "preflight")
    /\ Moves(w, Idle) \/ relayCall(w)
    /\ UNCHANGED <<manager, nonce, lock, accepted, failures, sent, known, failed>>

-----------------------------------------------------------------------------
(* Taking a number.                                                        *)

\* The end of a call that throws
Throws(w) == Moves(w, Idle) /\ failed' = TRUE

\* Mutant: no lock around the seeding.
takeNumberUnlocked(w) ==
    /\ At(w, "ask")
    /\ \/ /\ nonce # None
          /\ Moves(w, Sends(nonce, work[w].attempt))
          /\ nonce' = nonce + 1
       \/ /\ nonce = None
          /\ Moves(w, [work[w] EXCEPT !.pc = "seed"])
          /\ UNCHANGED nonce
    /\ UNCHANGED <<manager, lock, accepted, failures, sent, known, failed>>

\* The relay's getAndIncrement: one worker at a time between the check for null
\* and the increment
takeNumber(w) ==
    /\ At(w, "ask")
    /\ (manager = "relay" => lock = None)
    /\ \/ /\ nonce # None
          /\ Moves(w, Sends(nonce, work[w].attempt))
          /\ nonce' = nonce + 1
          /\ UNCHANGED lock
       \/ /\ nonce = None
          /\ Moves(w, [work[w] EXCEPT !.pc = "seed"])
          /\ lock' = IF manager = "relay" THEN w ELSE lock
          /\ UNCHANGED nonce
    /\ UNCHANGED <<manager, accepted, failures, sent, known, failed>>

\* The signing layer's getAndIncrement after its await: the count is written over
\* whatever number a worker has set in the meantime.
seedNumber(w) ==
    /\ At(w, "seed") /\ Succeeds
    /\ Moves(w, Sends(PendingCount, work[w].attempt))
    /\ nonce' = PendingCount + 1
    /\ lock' = IF lock = w THEN None ELSE lock
    /\ UNCHANGED <<manager, accepted, sent, known, failed>>

\* Mutant: the chain of the lock does not swallow the error.
seedThrowsLocked(w) ==
    /\ At(w, "seed") /\ Fails("seed")
    /\ Throws(w)
    /\ UNCHANGED <<manager, nonce, lock, accepted, sent, known>>

\* A read that throws ends the call and leaves the lock.
seedThrows(w) ==
    /\ At(w, "seed") /\ Fails("seed")
    /\ Throws(w)
    /\ lock' = IF lock = w THEN None ELSE lock
    /\ UNCHANGED <<manager, nonce, accepted, sent, known>>

-----------------------------------------------------------------------------
(* Sending.                                                                *)

decrement == IF nonce = None THEN None ELSE nonce - 1

\* An error that is not about the nonce: the first attempt gives its number back, the
\* second has no handler and its number stays taken.
OtherError(w) ==
    /\ Throws(w)
    /\ nonce' = IF work[w].attempt = 1 THEN decrement ELSE nonce

\* One of NONCE_ERROR_PATTERNS: the manager forgets its number and the call is tried
\* once more.
NonceError(w) ==
    /\ Moves(w, IF work[w].attempt = 1 THEN Asks("ask", 2) ELSE Idle)
    /\ nonce' = IF work[w].attempt = 1 THEN None ELSE nonce
    /\ failed' = TRUE

\* The first attempt fails before the broadcast, or the second.
estimateReverts(w) ==
    /\ At(w, "send")
    /\ Fails(IF work[w].attempt = 1 THEN "estimate" ELSE "retry")
    /\ OtherError(w)
    /\ UNCHANGED <<manager, lock, accepted, sent, known>>

\* The node takes any nonce that is free, also one behind a gap.
Free(n) == n >= 0 /\ n \notin accepted

\* Mutant: any error of the broadcast is retried with a fresh number.
broadcastRetried(w) ==
    /\ At(w, "send") /\ Free(work[w].n)
    /\ accepted' = accepted \cup {work[w].n}
    /\ sent' = [sent EXCEPT ![w] = @ + 1]
    /\ \/ Succeeds /\ Moves(w, Idle) /\ UNCHANGED <<nonce, known, failed>>
       \/ Fails("lost") /\ NonceError(w) /\ UNCHANGED known
    /\ UNCHANGED <<manager, lock>>

\* The hash is returned, or the answer is lost on its way, or the provider sends the
\* transaction again and the node knows it.
broadcast(w) ==
    /\ At(w, "send") /\ Free(work[w].n)
    /\ accepted' = accepted \cup {work[w].n}
    /\ sent' = [sent EXCEPT ![w] = @ + 1]
    /\ \/ Succeeds /\ Moves(w, Idle) /\ UNCHANGED <<nonce, known, failed>>
       \/ Fails("lost") /\ OtherError(w) /\ UNCHANGED known
       \/ Fails("known") /\ NonceError(w) /\ known' = known \cup {w}
    /\ UNCHANGED <<manager, lock>>

\* A nonce below the account's is refused with "nonce too low".
usedRefused(w) ==
    /\ At(w, "send") /\ work[w].n < 0
    /\ NonceError(w)
    /\ UNCHANGED <<manager, lock, accepted, failures, sent, known>>

\* A nonce of a pending transaction: a fee too low for a replacement is answered
\* "replacement transaction underpriced" (ethers: REPLACEMENT_UNDERPRICED), which has no
\* pattern of the list in it; the very same transaction, sent again by a caller whose
\* answer was lost, is "already known"; and after a rise of the fees it is replaced.
takenRefused(w) ==
    /\ At(w, "send") /\ work[w].n \in accepted
    /\ \/ OtherError(w) /\ UNCHANGED sent
       \/ failed /\ NonceError(w) /\ UNCHANGED sent
       \/ /\ Moves(w, Idle) /\ sent' = [sent EXCEPT ![w] = @ + 1]
          /\ UNCHANGED <<nonce, failed>>
    /\ UNCHANGED <<manager, lock, accepted, failures, known>>

-----------------------------------------------------------------------------
(* The node mines; every number is one nearer, a used one stays used.      *)
Nearer(n) == IF n < 0 THEN n ELSE n - 1

Mines ==
    /\ 0 \in accepted
    /\ accepted' = {n - 1 : n \in accepted \ {0}}
    /\ nonce' = IF nonce = None THEN None ELSE nonce - 1
    /\ work' = [w \in Workers |->
                  IF At(w, "send") THEN [work[w] EXCEPT !.n = Nearer(@)] ELSE work[w]]
    /\ UNCHANGED <<manager, lock, failures, sent, known, failed>>

\* initRelayer; the callers are gone.
Restarts ==
    /\ Fails("restart")
    /\ nonce' = None /\ lock' = None
    /\ work' = [w \in Workers |-> Idle]
    /\ failed' = TRUE
    /\ UNCHANGED <<manager, accepted, sent, known>>

NoncesNext ==
    \/ \E w \in Workers :
        \/ relayRequest(w) \/ relaySettlement(w) \/ checkBetFilled(w)
        \/ takeNumber(w) \/ seedNumber(w) \/ seedThrows(w)
        \/ estimateReverts(w) \/ broadcast(w) \/ usedRefused(w) \/ takenRefused(w)
    \/ Mines
    \/ Restarts

NoncesSpec == NoncesInit /\ [][NoncesNext]_nonceVars

\* Requests keep coming, every await returns, the node keeps mining.
NoncesFairness ==
    /\ WF_nonceVars(Mines)
    /\ \A w \in Workers :
        /\ SF_nonceVars(relayRequest(w)) /\ WF_nonceVars(checkBetFilled(w))
        /\ SF_nonceVars(takeNumber(w)) /\ WF_nonceVars(seedNumber(w))
        /\ WF_nonceVars(broadcast(w) \/ usedRefused(w) \/ takenRefused(w))

NoncesFairSpec == NoncesSpec /\ NoncesFairness

-----------------------------------------------------------------------------
(* One call of send puts at most one transaction on chain, whatever was      *)
(* refused, retried or lost: fundPolymarketWallet and acknowledge are not    *)
(* repeated by the nonce manager.  The exception is a call whose accepted    *)
(* transaction was sent again below it and answered "already known": the     *)
(* manager retries that with another number (relayer.ts sendWithNonce).      *)
SentOnce == \A w \in Workers : sent[w] <= 1 \/ w \in known

(* Under the relay's lock no two requests in progress hold the same number,  *)
(* as long as no number was given back: the first calls after a start do not *)
(* seed the manager twice (relayer.ts API-007).                              *)
NumbersDiffer ==
    manager = "relay" /\ ~failed
        => \A v, w \in Workers :
              v # w /\ At(v, "send") /\ At(w, "send") /\ work[v].attempt = 1
                    /\ work[w].attempt = 1
                => work[v].n # work[w].n

(* A call is always answered: a seeding that fails does not wedge the lock   *)
(* for the requests behind it, a second attempt gets the lock again, and two *)
(* workers do not keep each other from a number (relayer.ts lock).           *)
EveryCallEnds == \A w \in Workers : work[w].pc # "idle" ~> work[w].pc = "idle"

(* As relayer.ts says of decrement: the slot "can be reused by the next call *)
(* instead of leaving a gap".  A transaction behind a gap is mined once more *)
(* requests come, unless they run into the model's bound.                    *)
NoLastingGap ==
    (accepted # {} /\ 0 \notin accepted) ~> (accepted = {} \/ 0 \in accepted \/ ~Room)
=============================================================================
