------------------------- MODULE MCReplyOperations -------------------------
\* Instances of ReplyOperations for TLC.
EXTENDS ReplyOperationsClaims

CONSTANTS r1, r2, r3, k1, c1, c2

\* Every request carries the same key.
OneKey == [r \in Requests |-> k1]

\* Honest retries: the same content under the same key.
SameContent == [r \in Requests |-> c1]

\* The last request reuses the key for something else.
OneStranger == [r \in Requests |-> IF r = r3 THEN c2 ELSE c1]
=============================================================================
