--------------------------- MODULE MCRequestCalls ---------------------------
\* Instances of RequestCalls for TLC.
EXTENDS RequestClaims, TLC

CONSTANTS r1, r2, t1, t2, k1, k2

\* A reply and a read, of different tenants.
OneOfEach == r1 :> "reply" @@ r2 :> "read"
TwoTenants == r1 :> t1 @@ r2 :> t2

TheCalls == {"claim", "record", "store", "complete", "settle", "find", "upsert", "save"}

\* A callback of one statement each is enough to fail before, in and after it.
OneStatement == [c \in TheCalls |-> 1]

\* A single reply.
OneReply == r1 :> "reply"
OneTenant == r1 :> t1

\* As many as the repositories run when they succeed: storePublishedReply and
\* upsertMany read back what they inserted.
AsInCode == [c \in TheCalls |-> IF c \in {"store", "upsert"} THEN 2 ELSE 1]
=============================================================================
