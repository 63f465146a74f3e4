---------------------------- MODULE MCPortfolio -----------------------------
(* Portfolio for TLC.                                                      *)
EXTENDS Portfolio, TLC

CONSTANTS a, b

\* The two wallets are interchangeable.
Wallets == Permutations({a, b})
=============================================================================
