----------------------- MODULE ReplyOperationsClaims -----------------------
(***************************************************************************)
(* Statements of the repository about the reply path that its code does    *)
(* not keep.  Each is checked by a run that is expected to find it         *)
(* violated.                                                               *)
(***************************************************************************)
EXTENDS ReplyOperations

\* docs/operations.md: "Recovery is attempted before the lease is consulted,
\* so a live request is never resolved out from under itself."  That is, while
\* the handler that owns a pending row is at work, only its own steps settle
\* the row.
LiveRequestKeepsItsRow ==
    [][\A r \in Requests :
         RowOf(r).id = r /\ RowOf(r).status = "pending" /\ pc[r] \in Working
           => op'[KeyOf[r]].status = "pending" \/ pc'[r] # pc[r]]_vars

\* postgres.ts, on complete: "`unknown` is an accepted starting point on
\* purpose: reconciling an unknown operation to its stored reply is the
\* self-healing path".  That is, a retry that finds a row unknown whose reply
\* is recorded and stored resolves it, unless the retry fails.
UnknownReconcilesToItsReply ==
    \A r \in Requests :
        (/\ pc[r] = "find" /\ RowOf(r).status = "unknown"
         /\ RowOf(r).fingerprint = ContentOf[r]
         /\ RowOf(r).externalReplyId # None
         /\ comments[RowOf(r).externalReplyId] # "absent")
          ~> (RowOf(r).status = "completed" \/ pc[r] = "dead"
                \/ Answered(r, "internal_error"))
=============================================================================
