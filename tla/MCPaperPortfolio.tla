-------------------------- MODULE MCPaperPortfolio --------------------------
(* Model values for TLC.  Portfolios and robots are interchangeable: no     *)
(* action or property orders them other than by their creation.             *)
EXTENDS PaperPortfolio, TLC

Symmetry == Permutations(Portfolios) \cup Permutations(Robots)
=============================================================================
