--------------------------- MODULE MCPushChannel ---------------------------
EXTENDS PushChannel

\* "views": the message list windows, first read behind an open.  "identity": read
\* before the bootstrap's open, not again behind it, and without a lock.
MCTypes == {"identity", "views"}
MCIdentity == {"identity"}
MCViews == {"views"}
MCPriority == [t \in MCTypes |-> IF t = "identity" THEN 3 ELSE 5]
=============================================================================
