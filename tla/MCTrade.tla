------------------------------- MODULE MCTrade -------------------------------
(* The market and the books of the trade run.                              *)
EXTENDS Trade

Level(p, n) == [price |-> p, size |-> n]
\* A market whose outcomes have a YES side, listed the wrong way round.
MCListings == {<<"no", "yes">>}
MCPairs == {<<"yes", "no">>, <<"up", "down">>}
\* Two levels of YES that the stake walks through, one of NO.
MCBooks == {[asks |-> <<Level(4, 2), Level(5, 9)>>, bids |-> <<Level(5, 20)>>, mid |-> 4]}
=============================================================================
