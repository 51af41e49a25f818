--------------------------- MODULE RequestClaims ---------------------------
(***************************************************************************)
(* A statement of the repository about its requests that its code does not *)
(* keep.  It is checked by a run that is expected to find it violated.     *)
(***************************************************************************)
EXTENDS RequestCalls

CONSTANT ReplyLease    \* REPLY_LEASE_MS

\* tests/comments/comment-service.test.ts: "What the lease actually has to outlast
\* is the work after the claim — one provider publish plus the three database
\* calls that follow it (Spec-033)."
LeaseOutlastsItsWork == \A r \in Requests : Active(r) => leased[r] <= ReplyLease
=============================================================================
