---------------------------- MODULE MCEffectFabric ----------------------------
EXTENDS EffectFabric, TLC

\* Two workers that differ in nothing but their reconcile_owner.
WorkerSymmetry == Permutations(Owners)
===============================================================================
