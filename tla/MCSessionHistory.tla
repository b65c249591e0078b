-------------------------- MODULE MCSessionHistory --------------------------
EXTENDS SessionHistory

\* No file of the instance is blank.
MCBlank == {}

\* An audit of the second day alone.
MCByHand == {<<2, 2>>}
=============================================================================
