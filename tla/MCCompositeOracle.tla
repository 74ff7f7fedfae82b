------------------------- MODULE MCCompositeOracle --------------------------
(* What the feeds may answer in TLC's runs of CompositeOracle *)
EXTENDS CompositeOracle

Up(p) == [price |-> p, protected |-> TRUE]
Unprotected(p) == [price |-> p, protected |-> FALSE]
Down == [price |-> 0, protected |-> TRUE]

AllAnswers == {Up(1), Up(2), Down, Unprotected(1)}
TwoAnswers == {Up(1), Up(2)}
UpOrDown == {Up(1), Down}
=============================================================================
