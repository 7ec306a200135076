------------------------------ MODULE MCSetupGlm ------------------------------
EXTENDS SetupGlm
=============================================================================
