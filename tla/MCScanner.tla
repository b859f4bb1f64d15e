----------------------------- MODULE MCScanner ------------------------------
(* Three tokens and five pools that may each have one of two prices.  The  *)
(* two Raydium pools of sol and usdc share a key of the price map.  A unit *)
(* of cost is a tenth: fees of 0 and 1 and a slippage of 1.                *)
EXTENDS Scanner

MCDexFee == [raydium |-> 1, orca |-> 1, phoenix |-> 0]

State(dex, address, a, b, price) ==
  [dex |-> dex, poolAddress |-> address, tokenA |-> a, tokenB |-> b,
   priceA |-> price, priceB |-> Reciprocal(price)]

\* sol and usdc on two DEXs, usdc and bonk, bonk and sol both ways round.
MCPoolStates ==
  {State("raydium", "r1", "sol", "usdc", Fraction(n, 1)) : n \in {2, 3}} \cup
  {State("raydium", "r2", "sol", "usdc", Fraction(n, 1)) : n \in {3}} \cup
  {State("orca", "o1", "usdc", "sol", Fraction(1, n)) : n \in {2, 4}} \cup
  {State("phoenix", "p1", "usdc", "bonk", Fraction(n, 1)) : n \in {1, 2}} \cup
  {State("orca", "o2", "bonk", "sol", Fraction(1, n)) : n \in {2, 4}}

MCMinProfit == Fraction(1, 10)
=============================================================================
