---------------------------- MODULE MCPriceBuild ----------------------------
(* PriceBuild for TLC: every set of candles and every set of publications, *)
(* each of which may lack a symbol.                                        *)
EXTENDS PriceBuild

MCCandles == SUBSET Days
MCPublications == UNION {[S -> {Symbols, {"EUR"}}] : S \in SUBSET (1 .. Today)}
=============================================================================
