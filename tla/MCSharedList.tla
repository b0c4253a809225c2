---------------------------- MODULE MCSharedList -----------------------------
EXTENDS SharedList
MCItems == Producers \X (1 .. MaxPerThread)
=============================================================================
