--------------------------- MODULE MCRelayService ---------------------------
EXTENDS RelayService

\* Where a transaction was exposed or refused the properties say nothing of it,
\* nor anywhere after that.
SomethingToSay == Unexcepted = Tx
=============================================================================
