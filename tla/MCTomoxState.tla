---------------------------- MODULE MCTomoxState ----------------------------
(***************************************************************************)
(* TomoxState for TLC: one order book, two prices, two order ids that      *)
(* share the number 1 with the prices, volumes up to 2.                    *)
(***************************************************************************)
EXTENDS TomoxState

MCPrices == {1, 2}
MCOrderIds == {1, 3}
MCMaxVolume == 2
=============================================================================
