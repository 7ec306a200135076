-------------------------- MODULE MCRelaySubmission --------------------------
EXTENDS RelaySubmission
=============================================================================
