----------------------------- MODULE MCCrontab -----------------------------
EXTENDS Crontab

MCEntries == {"e1", "e2"}
=============================================================================
