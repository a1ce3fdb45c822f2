----------------------------- MODULE MCReconcile -----------------------------
EXTENDS Reconcile
=============================================================================
