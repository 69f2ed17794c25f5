----------------------------- MODULE MCSession -----------------------------
EXTENDS LumalouSession
=============================================================================
