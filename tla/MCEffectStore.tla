---------------------------- MODULE MCEffectStore ----------------------------
EXTENDS EffectStore
===============================================================================
