---------------------------- MODULE MCProviderGate ----------------------------
EXTENDS ProviderGate
===============================================================================
