----------------------------- MODULE MCPersist ------------------------------
\* Row lengths for Transfer: some batches end by count, others by size.
EXTENDS Persist

HostLengths == <<3, 5, 1, 1>>
ItemLengths == <<1, 1, 7, 3>>
=============================================================================
