------------------------- MODULE ReplyOperationRows -------------------------
(***************************************************************************)
(* The rows of the table reply_operations and the transitions the          *)
(* repository allows on them.  A row binds one idempotency key to one      *)
(* request; every transition is a single UPDATE guarded by the statuses it *)
(* accepts, so it is written here as a guard and a new row.                *)
(*                                                                         *)
(* A row's identifier is a UUID drawn by the request that claims the key,  *)
(* and the identifier a platform gives a reply is unique to the publishing *)
(* call, so both are represented by the request they come from.            *)
(***************************************************************************)
CONSTANTS
    Requests,   \* HTTP calls of POST /comments/{id}/replies
    Contents,   \* what a fingerprint distinguishes: (commentId, body) pairs
    None        \* SQL null

ASSUME NoneIsNoRequest == None \notin Requests

ASSUME NoneIsNoContent == None \notin Contents

Statuses == {"absent", "pending", "completed", "failed", "unknown"}

OperationRows ==
    [ status : Statuses,
      id : Requests \union {None},
      fingerprint : Contents \union {None},
      externalReplyId : Requests \union {None},
      resultingCommentId : Requests \union {None} ]

\* The key has no row yet.
NoRow == [ status |-> "absent", id |-> None, fingerprint |-> None,
           externalReplyId |-> None, resultingCommentId |-> None ]

\* The unique index: only a key without a row can be claimed.
ClaimableIfUnresolved(row) == row.status \in {"absent", "pending"}  \* mutant: takeover
Claimable(row) == row.status = "absent"

\* The row a claim inserts.
ClaimedRow(r, content) ==
    [ status |-> "pending", id |-> r, fingerprint |-> content,
      externalReplyId |-> None, resultingCommentId |-> None ]

\* A row left by a release that still failed rate-limited keys: terminal, and
\* not owned by any request of today.
LegacyFailedRow(content) ==
    [ status |-> "failed", id |-> None, fingerprint |-> content,
      externalReplyId |-> None, resultingCommentId |-> None ]

\* recordPublished annotates a row that is still in flight.
Annotatable(row) == row.status = "pending"

AnnotatedRowWrongColumn(row, reply) ==                            \* mutant
    [row EXCEPT !.externalReplyId = row.fingerprint]
AnnotatedRowForgotten(row, reply) == row                           \* mutant
AnnotatedRow(row, reply) == [row EXCEPT !.externalReplyId = reply]

\* complete also accepts a row whose outcome was written off as unknown.
Completable(row) == row.status \in {"pending", "unknown"}

CompletedRow(row, comment) ==
    [row EXCEPT !.status = "completed", !.resultingCommentId = comment]

\* fail throws unless the row is pending, and clears the resulting comment.
Failable(row) == row.status = "pending"

FailedRow(row) == [row EXCEPT !.status = "failed", !.resultingCommentId = None]

\* markUnknown moves a pending row and silently leaves any other one alone.
UnknownRowUnguarded(row) == [row EXCEPT !.status = "unknown"]      \* mutant
UnknownRowReleased(row) == NoRow                                   \* mutant
UnknownRowFailed(row) ==                                           \* mutant
    IF row.status = "pending" THEN [row EXCEPT !.status = "failed"] ELSE row
UnknownRow(row) ==
    IF row.status = "pending" THEN [row EXCEPT !.status = "unknown"] ELSE row
=============================================================================
