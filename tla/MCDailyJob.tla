----------------------------- MODULE MCDailyJob -----------------------------
EXTENDS DailyJob
=============================================================================
