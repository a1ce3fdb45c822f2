----------------------------- MODULE MCBackfill -----------------------------
EXTENDS Backfill
=============================================================================
