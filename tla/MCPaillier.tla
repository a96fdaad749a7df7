----------------------------- MODULE MCPaillier -----------------------------
(* Values for checking Paillier: n = 5 * 7.                                 *)
EXTENDS Paillier

TheSizes == {<<1, 1>>, <<3, 2>>, <<3, 3>>, <<4, 3>>}
SomeCoefficients == {0, 101}
SomeBlinding == {2, 12}
SomeRho == {3}
SomeSimulated == {<<1, 4>>, <<33, 6>>}
=============================================================================
