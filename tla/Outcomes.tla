------------------------------ MODULE Outcomes ------------------------------
(***************************************************************************)
(* What the signing layer promises the Vault and the bettor about a bet,   *)
(* whatever the machinery behind it does: shares are bought for the bet,   *)
(* and at most one outcome is ever signed for it.  The outcome is final,   *)
(* and it never stands for more shares than have been bought when it is    *)
(* signed (within DUST).  Orders implements this specification.            *)
(***************************************************************************)
EXTENDS Integers

CONSTANTS Bets, Shares, Dust

VARIABLES
    outcome,  \* bet -> the outcome signed for it, or Undecided
    bought    \* bet -> shares the pool has paid for

vars == <<outcome, bought>>

Undecided == [type |-> "none", shares |-> 0]
Outcome == [type : {"FILLED", "FAILED", "PARTIAL"}, shares : 0..Shares]

\* The bettor is credited for the shares an outcome stands for.
Supports(n, out) ==
    /\ out.type = "FILLED" => n + Dust >= Shares
    /\ out.type = "PARTIAL" => out.shares <= n

Init ==
    /\ outcome = [b \in Bets |-> Undecided]
    /\ bought = [b \in Bets |-> 0]

Buy(b) ==
    /\ \E n \in 1..Shares : bought' = [bought EXCEPT ![b] = @ + n]
    /\ UNCHANGED outcome

Decide(b) ==
    /\ outcome[b] = Undecided
    /\ \E out \in Outcome : /\ Supports(bought[b], out)
                            /\ outcome' = [outcome EXCEPT ![b] = out]
    /\ UNCHANGED bought

Next == \E b \in Bets : Buy(b) \/ Decide(b)

Spec == Init /\ [][Next]_vars
=============================================================================
