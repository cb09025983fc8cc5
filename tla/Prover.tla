------------------------------- MODULE Prover -------------------------------
(***************************************************************************)
(* Proof generation in one tab: prover.ts and its Web Worker.               *)
(*                                                                         *)
(* Proofs run one at a time, in the order they were asked for.  A proof has *)
(* a worker of its own, with caches of its own; without a worker it runs on *)
(* the main thread, whose caches live as long as the page and keep the      *)
(* promise of a download that failed.  An action is what runs between two    *)
(* awaits; the modules that ask for proofs say what follows when one ends.   *)
(***************************************************************************)
EXTENDS Naturals, Sequences, FiniteSets

CONSTANTS
    Circuits,     \* the circuits in use
    Preloaded,    \* PRELOAD_CIRCUITS among them
    Undelivered,  \* the circuits whose download may fail
    MaxCached     \* bounds the circuits the main thread has assets of

ASSUME ProverAssumption == Preloaded \subseteq Circuits /\ Undelivered \subseteq Circuits

VARIABLES
    proofs,       \* _proofChain: the proofs asked for that have not settled, in order
    runner,       \* where the first of them runs
    assets        \* circuit -> the main thread's promise in wasmCache and zkeyCache, by
                  \* how it settles

proverVars == <<proofs, runner, assets>>

ProverTypeOK ==
    /\ \A k \in DOMAIN proofs : proofs[k].circuit \in Circuits
    /\ runner \in {"none", "worker", "mainThread"}
    /\ assets \in [Circuits -> {"none", "loaded", "rejected"}]

-----------------------------------------------------------------------------
(* The assets of the main thread.                                          *)

\* A download ends with the file, or the server, the connection or the timeout ends it.
fetchAsset(c) == {"loaded"} \cup (IF c \in Undelivered THEN {"rejected"} ELSE {})

\* It is begun unless there is a promise already, a rejected one included.
ensurePreloaded(cs, cached) ==
    {end \in [Circuits -> {"none", "loaded", "rejected"}] :
       \A c \in Circuits : IF c \in cs /\ cached[c] = "none" THEN end[c] \in fetchAsset(c)
                           ELSE end[c] = cached[c]}

\* A page is loaded: the app's layout calls initProver.
initProver == ensurePreloaded(Preloaded, [c \in Circuits |-> "none"])
ProverInit == proofs = <<>> /\ runner = "none" /\ assets \in initProver

-----------------------------------------------------------------------------
(* One proof at a time.                                                    *)

\* generateProofInWorker: the proof waits for the ones asked for before it
Asked(job) == proofs' = Append(proofs, job) /\ UNCHANGED <<runner, assets>>

\* runProofInWorker, once the proof before it has settled: a worker, or the main
\* thread when there can be none.
startsInWorker ==
    /\ proofs # <<>> /\ runner = "none"
    /\ runner' = "worker" /\ UNCHANGED <<proofs, assets>>

\* runProofMainThread and prove up to its awaits
MainThread(c) ==
    /\ Cardinality({d \in Circuits : assets[d] # "none"} \cup {c}) <= MaxCached
    /\ runner' = "mainThread" /\ assets' \in ensurePreloaded({c}, assets) /\ UNCHANGED proofs

startsOnMainThread ==
    /\ proofs # <<>> /\ runner = "none" /\ MainThread(Head(proofs).circuit)

\* worker.onerror: the worker ran out of memory or did not load
workerCrashes == runner = "worker" /\ MainThread(Head(proofs).circuit)

\* The chain goes on however the proof settled.
Advanced == proofs' = Tail(proofs) /\ runner' = "none"

\* On the main thread the assets are awaited before the proof is made.
prove(c, ok) == assets[c] = "rejected" => ~ok

\* The first proof settles: the worker answers "done" or "error" or is ended by its
\* timeout, or the main thread is done.
Settles(job, ok) ==
    /\ proofs # <<>> /\ job = Head(proofs)
    /\ runner = "worker" \/ (runner = "mainThread" /\ prove(job.circuit, ok))
    /\ Advanced
    /\ UNCHANGED assets

\* A reload: the proofs are gone with their page, and so are the caches.
ProverReset == proofs' = <<>> /\ runner' = "none" /\ assets' \in initProver
=============================================================================
