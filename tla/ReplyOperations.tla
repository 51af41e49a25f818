-------------------------- MODULE ReplyOperations --------------------------
(***************************************************************************)
(* CommentService.replyToComment: an HTTP call that publishes a reply at a *)
(* social platform at most once per idempotency key.                       *)
(*                                                                         *)
(* Every call runs the same handler, on any replica.  The handler awaits   *)
(* the database and the platform, and each await is a point where other    *)
(* calls run, so there is one action per awaited call: it performs the     *)
(* call and the handler's code up to the next await.  pc[r] names the call *)
(* that r awaits next.                                                     *)
(*                                                                         *)
(* A database call is one transaction.  It succeeds ("ok"), fails without  *)
(* an effect ("failed"), or commits and loses the acknowledgement          *)
(* ("unacknowledged"): the handler sees an exception in the last two.      *)
(* A call that is cut off by its timeout is not cancelled, so the platform *)
(* may accept a reply long after the handler stopped waiting for it.       *)
(***************************************************************************)
EXTENDS ReplyOperationRows

CONSTANTS
    Keys,               \* idempotency keys of one account
    KeyOf,              \* the key each request carries
    ContentOf,          \* the content each request carries
    EarlierAccepted,    \* keys whose reply, sent by an earlier release, the platform accepted
    DbOutcomes,         \* the ways a database call may end
    LeaseCoversWork     \* does the lease outlive all the work it covers?

ASSUME KeyOfAssumption == KeyOf \in [Requests -> Keys]

ASSUME ContentOfAssumption == ContentOf \in [Requests -> Contents]

ASSUME EarlierAcceptedAssumption == EarlierAccepted \subseteq Keys

ASSUME DbOutcomesAssumption ==
    DbOutcomes \subseteq {"ok", "failed", "unacknowledged"} /\ "ok" \in DbOutcomes

ASSUME LeaseCoversWorkAssumption == LeaseCoversWork \in BOOLEAN

VARIABLES
    pc,         \* where each request is
    op,         \* the row of reply_operations of each key
    expired,    \* has the lease of each key's row run out?
    wire,       \* how far each request's publish got at the platform
    comments,   \* the comments row of each request's reply
    seen,       \* the row a request's replay is working from
    via,        \* which call site of replay a request came through
    outcome     \* what a request answers, or is about to

vars == <<pc, op, expired, wire, comments, seen, via, outcome>>

-----------------------------------------------------------------------------
\* The codes a failed publish carries, and the ones that prove nothing went
\* out.  The list is empty in the code, and kept as a list.
FailureCodes == {"PROVIDER_RATE_LIMITED", "PROVIDER_UNAVAILABLE", "PROVIDER_ERROR"}

RateLimitProvesRejection == {"PROVIDER_RATE_LIMITED"}              \* mutant
CodesProvingRejection == {}

ProvesRejection(code) == code \in CodesProvingRejection

Kinds == FailureCodes \union
    {"none", "reply", "in_flight", "body_mismatch", "key_failed", "unknown",
     "not_replyable", "internal_error"}

Outcomes == [kind : Kinds, comment : Requests \union {None}]

Nothing == [kind |-> "none", comment |-> None]

\* The pcs of a request that owns its key: after the claim, before the answer.
Working == {"publish", "publishing", "settle", "record", "store", "orphan", "complete"}

\* The pcs of a request that is resolving a row it did not claim.
Resolving == {"fetch", "lookup", "lease", "reconcile", "expire"}

Running == {"find", "preflight", "claim"} \union Working \union Resolving

RowOf(r) == op[KeyOf[r]]

\* The request that owns a key's row is still at work on it.
HolderAtWork(k) == \E r \in Requests : op[k].id = r /\ pc[r] \in Working

-----------------------------------------------------------------------------
\* A row failed by an earlier release: it sent its reply and was answered with
\* a rate limit, so the platform may show that reply (ADR-0015).
FailedEarlier(k) == op[k].status = "failed" /\ op[k].id = None

\* Before any call the table holds nothing for a key, or a row failed by an
\* earlier release.
Init ==
    /\ pc = [r \in Requests |-> "idle"]
    /\ op \in [Keys -> {NoRow} \union {LegacyFailedRow(c) : c \in Contents}]
    /\ expired = [k \in Keys |-> FALSE]
    /\ wire = [r \in Requests |-> "unsent"]
    /\ comments = [r \in Requests |-> "absent"]
    /\ seen = [r \in Requests |-> NoRow]
    /\ via = [r \in Requests |-> "find"]
    /\ outcome = [r \in Requests |-> Nothing]

Goto(r, l) == pc' = [pc EXCEPT ![r] = l] /\ UNCHANGED outcome

AnswerWith(r, kind, comment) ==
    /\ pc' = [pc EXCEPT ![r] = "answered"]
    /\ outcome' = [outcome EXCEPT ![r] = [kind |-> kind, comment |-> comment]]

Answer(r, kind) == AnswerWith(r, kind, None)

\* A repository call that throws outside every catch is a 500.
InternalError(r) == Answer(r, "internal_error")

\* The row of r's key becomes row, unless the transaction did not commit.
WriteRow(r, row, out) ==
    op' = IF out = "failed" THEN op ELSE [op EXCEPT ![KeyOf[r]] = row]

\* Replay gave no answer: the first call site falls through to the claim, the
\* second one, having lost the claim, tells the client to come back.
NoReplaySpinning(r, site) ==                                       \* mutant
    IF site = "find" THEN Goto(r, "preflight") ELSE Goto(r, "claim")
NoReplay(r, site) ==
    IF site = "find" THEN Goto(r, "preflight") ELSE Answer(r, "in_flight")

\* replay() on the row just read: the order of the cases is the code's.
Replay(r, row, site) ==
    /\ seen' = [seen EXCEPT ![r] = row]
    /\ via' = [via EXCEPT ![r] = site]
    /\ \/ row.fingerprint # ContentOf[r] /\ Answer(r, "body_mismatch")
       \/ /\ row.fingerprint = ContentOf[r]
          /\ \/ row.status = "completed" /\ Goto(r, "fetch")
             \/ row.status = "failed" /\ Answer(r, "key_failed")
             \/ row.status = "unknown" /\ Answer(r, "unknown")
             \/ row.status = "pending" /\ row.externalReplyId # None /\ Goto(r, "lookup")
             \/ row.status = "pending" /\ row.externalReplyId = None /\ Goto(r, "lease")

-----------------------------------------------------------------------------
\* The client sends the request, for the first time or as a retry.
Begin(r) ==
    /\ pc[r] = "idle"
    /\ Goto(r, "find")
    /\ UNCHANGED <<op, expired, wire, comments, seen, via>>

FindOperation(r, out) ==
    /\ pc[r] = "find"
    /\ \/ out # "ok" /\ InternalError(r) /\ UNCHANGED <<seen, via>>
       \/ out = "ok" /\ RowOf(r).status = "absent" /\ Goto(r, "preflight")
                     /\ UNCHANGED <<seen, via>>
       \/ out = "ok" /\ RowOf(r).status # "absent" /\ Replay(r, RowOf(r), "find")
    /\ UNCHANGED <<op, expired, wire, comments>>

\* The reads and checks between replay and claim: the comment exists, is top
\* level, has a published post and a capable provider.  They change nothing.
Preflight(r, out) ==
    /\ pc[r] = "preflight"
    /\ \/ out # "ok" /\ InternalError(r)
       \/ out = "ok" /\ Answer(r, "not_replyable")
       \/ out = "ok" /\ Goto(r, "claim")
    /\ UNCHANGED <<op, expired, wire, comments, seen, via>>

\* Insert on conflict do nothing: the unique index picks one owner per key.
Claim(r, out) ==
    /\ pc[r] = "claim"
    /\ \/ /\ Claimable(RowOf(r))
          /\ WriteRow(r, ClaimedRow(r, ContentOf[r]), out)
          /\ IF out = "ok" THEN Goto(r, "publish") ELSE InternalError(r)
          /\ UNCHANGED <<seen, via>>
       \/ /\ ~Claimable(RowOf(r))
          /\ IF out = "ok" THEN Replay(r, RowOf(r), "claim")
                           ELSE InternalError(r) /\ UNCHANGED <<seen, via>>
          /\ UNCHANGED op
    /\ UNCHANGED <<expired, wire, comments>>

\* The publish leaves the process.
SendReply(r) ==
    /\ pc[r] = "publish"
    /\ wire' = [wire EXCEPT ![r] = "sent"]
    /\ Goto(r, "publishing")
    /\ UNCHANGED <<op, expired, comments, seen, via>>

\* The platform accepts the publish, or it is lost on the way: at any time,
\* whether or not anyone still waits for the answer.
PlatformReceives(r) ==
    /\ wire[r] = "sent"
    /\ wire' \in {[wire EXCEPT ![r] = "published"], [wire EXCEPT ![r] = "lost"]}
    /\ UNCHANGED <<pc, op, expired, comments, seen, via, outcome>>

PublishSucceeds(r) ==
    /\ pc[r] = "publishing"
    /\ wire[r] = "published"
    /\ Goto(r, "record")
    /\ UNCHANGED <<op, expired, wire, comments, seen, via>>

\* The call failed: refused before it was sent, timed out, or answered with an
\* error, which proves nothing about what the platform did.  The code is kept
\* to be thrown again once the failure is recorded.
PublishFails(r, code) ==
    /\ pc[r] \in {"publish", "publishing"}
    /\ pc' = [pc EXCEPT ![r] = "settle"]
    /\ outcome' = [outcome EXCEPT ![r].kind = code]
    /\ UNCHANGED <<op, expired, wire, comments, seen, via>>

\* The catch around the publish: fail or markUnknown, then throw again.  The
\* write may throw too, and the client then gets a 500.
RecordFailure(r, out) ==
    LET rejected == ProvesRejection(outcome[r].kind)
        refused == rejected /\ ~Failable(RowOf(r))
    IN  /\ pc[r] = "settle"
        /\ WriteRow(r, CASE refused  -> RowOf(r)
                         [] rejected -> FailedRow(RowOf(r))
                         [] OTHER    -> UnknownRow(RowOf(r)), out)
        /\ IF out = "ok" /\ ~refused THEN Answer(r, outcome[r].kind) ELSE InternalError(r)
        /\ UNCHANGED <<expired, wire, comments, seen, via>>

RecordPublished(r, out) ==
    /\ pc[r] = "record"
    /\ IF Annotatable(RowOf(r))
       THEN /\ WriteRow(r, AnnotatedRow(RowOf(r), r), out)
            /\ Goto(r, IF out = "ok" THEN "store" ELSE "orphan")
       ELSE UNCHANGED op /\ Goto(r, "orphan")
    /\ UNCHANGED <<expired, wire, comments, seen, via>>

\* Insert on conflict do nothing: a row already there is the same reply when
\* its body is the same, and otherwise the reply cannot be stored.
StorePublishedReply(r, out) ==
    /\ pc[r] = "store"
    /\ comments' = IF out # "failed" /\ comments[r] = "absent"
                   THEN [comments EXCEPT ![r] = "same"] ELSE comments
    /\ Goto(r, IF out = "ok" /\ comments[r] # "other" THEN "complete" ELSE "orphan")
    /\ UNCHANGED <<op, expired, wire, seen, via>>

\* The catch around recording and storing: what markUnknown throws is dropped.
MarkOrphaned(r, out) ==
    /\ pc[r] = "orphan"
    /\ WriteRow(r, UnknownRow(RowOf(r)), out)
    /\ InternalError(r)
    /\ UNCHANGED <<expired, wire, comments, seen, via>>

\* operations.complete: throws when the row has left the accepted statuses.
CompleteWithUnchecked(r, comment, out) ==                          \* mutant
    /\ IF Completable(RowOf(r)) THEN WriteRow(r, CompletedRow(RowOf(r), comment), out)
                                ELSE UNCHANGED op
    /\ AnswerWith(r, "reply", comment)
CompleteWith(r, comment, out) ==
    IF Completable(RowOf(r))
    THEN /\ WriteRow(r, CompletedRow(RowOf(r), comment), out)
         /\ IF out = "ok" THEN AnswerWith(r, "reply", comment) ELSE InternalError(r)
    ELSE UNCHANGED op /\ InternalError(r)

Complete(r, out) ==
    /\ pc[r] = "complete"
    /\ CompleteWith(r, r, out)
    /\ UNCHANGED <<expired, wire, comments, seen, via>>

-----------------------------------------------------------------------------
\* A completed key: read the reply back.
FetchReply(r, out) ==
    LET comment == seen[r].resultingCommentId
    IN  /\ pc[r] = "fetch"
        /\ IF out # "ok" THEN InternalError(r)
           ELSE IF comment # None /\ comments[comment] # "absent"
                THEN AnswerWith(r, "reply", comment)
                ELSE NoReplay(r, via[r])
        /\ UNCHANGED <<op, expired, wire, comments, seen, via>>

\* recover() looks for the reply the row names before it consults the lease.
LookupReplySkipped(r, out) ==                                      \* mutant
    /\ pc[r] = "lookup"
    /\ Goto(r, "lease")
    /\ UNCHANGED <<op, expired, wire, comments, seen, via>>
LookupReply(r, out) ==
    /\ pc[r] = "lookup"
    /\ \/ out # "ok" /\ InternalError(r)
       \/ /\ out = "ok"
          /\ Goto(r, IF comments[seen[r].externalReplyId] # "absent"
                     THEN "reconcile" ELSE "lease")
    /\ UNCHANGED <<op, expired, wire, comments, seen, via>>

Reconcile(r, out) ==
    /\ pc[r] = "reconcile"
    /\ CompleteWith(r, seen[r].externalReplyId, out)
    /\ UNCHANGED <<expired, wire, comments, seen, via>>

\* The lease is the one of the row read earlier; the clock is read now.
LeaseGoneAlways(r) == TRUE                                         \* mutant
LeaseGoneNever(r) == FALSE                                         \* mutant
LeaseGone(r) == expired[KeyOf[r]]

ConsultLease(r) ==
    /\ pc[r] = "lease"
    /\ IF LeaseGone(r) THEN Goto(r, "expire") ELSE NoReplay(r, via[r])
    /\ UNCHANGED <<op, expired, wire, comments, seen, via>>

\* The lease is gone: give the operation up.  Whether markUnknown moved the
\* row is not looked at.
GiveUp(r, out) ==
    /\ pc[r] = "expire"
    /\ WriteRow(r, UnknownRow(RowOf(r)), out)
    /\ IF out = "ok" THEN Answer(r, "unknown") ELSE InternalError(r)
    /\ UNCHANGED <<expired, wire, comments, seen, via>>

-----------------------------------------------------------------------------
\* The process that runs r dies; nothing of the handler survives.
Crash(r) ==
    /\ pc[r] \in Running
    /\ pc' = [pc EXCEPT ![r] = "dead"]
    /\ outcome' = [outcome EXCEPT ![r] = Nothing]
    /\ UNCHANGED <<op, expired, wire, comments, seen, via>>

\* The lease runs out.  With LeaseCoversWork it does so only once its holder
\* has stopped, which is what the length of the lease is meant to ensure.
LeaseExpires(k) ==
    /\ op[k].id # None
    /\ ~expired[k]
    /\ LeaseCoversWork => ~HolderAtWork(k)
    /\ expired' = [expired EXCEPT ![k] = TRUE]
    /\ UNCHANGED <<pc, op, wire, comments, seen, via, outcome>>

\* Reading the post absorbs the published reply, possibly after its body was
\* edited at the platform; hydration overwrites the stored body.
Hydrate(r) ==
    /\ wire[r] = "published"
    /\ comments' \in {[comments EXCEPT ![r] = b] : b \in {"same", "other"}}
    /\ UNCHANGED <<pc, op, expired, wire, seen, via, outcome>>

\* One step of the handler of r.
Step(r) ==
    \/ SendReply(r) \/ PublishSucceeds(r) \/ ConsultLease(r)
    \/ \E code \in FailureCodes : PublishFails(r, code)
    \/ \E out \in DbOutcomes :
         \/ FindOperation(r, out) \/ Preflight(r, out) \/ Claim(r, out)
         \/ RecordFailure(r, out)
         \/ RecordPublished(r, out) \/ StorePublishedReply(r, out)
         \/ MarkOrphaned(r, out) \/ Complete(r, out)
         \/ FetchReply(r, out) \/ LookupReply(r, out) \/ Reconcile(r, out)
         \/ GiveUp(r, out)

\* Every call has been answered or has died, and nothing is on its way.
Quiet == \A r \in Requests : pc[r] \in {"answered", "dead"} /\ wire[r] # "sent"

Finished == Quiet /\ UNCHANGED vars

Next ==
    \/ \E r \in Requests :
         Begin(r) \/ Step(r) \/ PlatformReceives(r) \/ Crash(r) \/ Hydrate(r)
    \/ \E k \in Keys : LeaseExpires(k)
    \/ Finished

Spec == Init /\ [][Next]_vars

\* A handler that is not killed keeps running: every await settles, because
\* the pool and the provider call both have timeouts.
FairSpec == Spec /\ \A r \in Requests : WF_vars(Step(r))

-----------------------------------------------------------------------------
(***************************************************************************)
(* Properties                                                              *)
(***************************************************************************)
\* Types of the variables.
TypeOK ==
    /\ pc \in [Requests -> Running \union {"idle", "answered", "dead"}]
    /\ op \in [Keys -> OperationRows]
    /\ expired \in [Keys -> BOOLEAN]
    /\ wire \in [Requests -> {"unsent", "sent", "published", "lost"}]
    /\ comments \in [Requests -> {"absent", "same", "other"}]
    /\ seen \in [Requests -> OperationRows]
    /\ via \in [Requests -> {"find", "claim"}]
    /\ outcome \in [Requests -> Outcomes]

Answered(r, kind) == pc[r] = "answered" /\ outcome[r].kind = kind

\* However requests of one key interleave, fail and crash on however many
\* replicas, at most one of them ever contacts the platform with a publish.
AtMostOncePublished ==
    \A r, s \in Requests :
        KeyOf[r] = KeyOf[s] /\ wire[r] # "unsent" /\ wire[s] # "unsent" => r = s

\* A key is only completed with the reply its own request published and that
\* is in the store, whoever completed it: the live handler or a retry.
CompletedNamesItsReply ==
    \A k \in Keys : op[k].status = "completed" =>
        LET r == op[k].resultingCommentId
        IN  /\ r \in Requests
            /\ r = op[k].id /\ r = op[k].externalReplyId
            /\ wire[r] = "published"
            /\ comments[r] # "absent"

\* A client that is answered with a reply gets the one reply of its key, made
\* from exactly the content it sent, and the key stays resolved to it: every
\* other client of the key that is given a reply gets the same one.
AnsweredReplyIsTheKeys ==
    \A r \in Requests : Answered(r, "reply") =>
        /\ RowOf(r).status = "completed"
        /\ RowOf(r).resultingCommentId = outcome[r].comment
        /\ ContentOf[outcome[r].comment] = ContentOf[r]

\* idempotency_key_failed invites the client to publish under a new key.  No
\* failure of today's publishes ever leads to that answer, however late or
\* ambiguous: it is given only for a key an earlier release failed, and no
\* request of such a key contacts the platform.  The one reply that may be
\* visible all the same, and that the client may then duplicate, is the one
\* the earlier release sent.
InvitesAreOfEarlierReleases ==
    \A r, s \in Requests :
        Answered(r, "key_failed") /\ KeyOf[s] = KeyOf[r] =>
            FailedEarlier(KeyOf[r]) /\ wire[s] = "unsent"

\* A reply that may be visible at the platform is never off the record: its
\* key has a row that its own request claimed and that does not say failed.
PublishedIsOnRecord ==
    \A r \in Requests : wire[r] # "unsent" =>
        RowOf(r).id = r /\ RowOf(r).status \in {"pending", "unknown", "completed"}

\* What a row says of the outcome stands: a completed row and a failed one
\* never change, the reply a row names is never replaced, and an unknown row
\* can only be found to be completed.
OutcomesStand ==
    [][\A k \in Keys :
         /\ op[k].status \in {"completed", "failed"} => op'[k] = op[k]
         /\ op[k].status = "unknown" => op'[k].status \in {"unknown", "completed"}
         /\ op[k].externalReplyId # None =>
                op'[k].externalReplyId = op[k].externalReplyId]_vars

\* A retry decides from a row it read several awaits ago, and never writes an
\* operation off before its lease is over: until then only the owner, having
\* failed to publish, record or store, moves its pending row to unknown.
LeasedRowNotWrittenOff ==
    [][\A k \in Keys :
         op[k].status = "pending" /\ op'[k].status = "unknown" /\ ~expired[k]
           => \E r \in Requests : op[k].id = r /\ pc[r] \in Working /\ pc'[r] # pc[r]]_vars

\* Every request that is not killed is answered.
EveryRequestEnds ==
    \A r \in Requests : (pc[r] = "find") ~> (pc[r] \in {"answered", "dead"})

\* A key is not blocked for ever by a holder that died: a retry sent after the
\* lease has run out settles the row, unless that retry fails itself.
ExpiredLeaseIsSettled ==
    \A r \in Requests :
        (pc[r] = "find" /\ RowOf(r).status = "pending" /\ expired[KeyOf[r]])
          ~> (RowOf(r).status # "pending" \/ pc[r] = "dead"
                \/ Answered(r, "internal_error") \/ Answered(r, "body_mismatch"))

\* A pending row whose reply is published, recorded and stored heals: the next
\* retry with the same content completes it, even before the lease is over,
\* unless someone settles the row first or the retry fails itself.
LostCompletionHeals ==
    \A r \in Requests :
        (/\ pc[r] = "find" /\ RowOf(r).status = "pending"
         /\ RowOf(r).fingerprint = ContentOf[r]
         /\ RowOf(r).externalReplyId # None
         /\ comments[RowOf(r).externalReplyId] # "absent")
          ~> (RowOf(r).status # "pending" \/ pc[r] = "dead" \/ Answered(r, "internal_error"))

-----------------------------------------------------------------------------
(***************************************************************************)
(* The inductive invariant: why the properties hold.                       *)
(***************************************************************************)
\* A row belongs to the one request that claimed its key; it names only that
\* request's published reply, and names a comment exactly when completed.
RowIsCoherent(k) ==
    /\ op[k].status = "absent" => op[k] = NoRow
    /\ op[k].status = "failed" => op[k].id = None
    /\ op[k].status \in {"pending", "unknown", "completed"} =>
         /\ op[k].id \in Requests
         /\ KeyOf[op[k].id] = k
         /\ op[k].fingerprint = ContentOf[op[k].id]
    /\ op[k].externalReplyId # None =>
         op[k].externalReplyId = op[k].id /\ wire[op[k].id] = "published"
    /\ op[k].status # "completed" => op[k].resultingCommentId = None
    /\ op[k].status = "completed" =>
         /\ op[k].resultingCommentId = op[k].id
         /\ op[k].externalReplyId = op[k].id
         /\ comments[op[k].id] # "absent"

\* Only the owner of a key works on it or has contacted the platform for it,
\* and each stage of the work leaves its mark before the next one starts.
WorkIsOwned(r) ==
    /\ pc[r] \in Working \/ wire[r] # "unsent" => RowOf(r).id = r
    /\ pc[r] = "publish" => wire[r] = "unsent"
    /\ pc[r] \in {"record", "store", "orphan", "complete"} => wire[r] = "published"
    /\ pc[r] \in {"store", "complete"} => RowOf(r).externalReplyId = r
    /\ pc[r] = "complete" => comments[r] # "absent"
    /\ pc[r] = "settle" => outcome[r].kind \in FailureCodes

\* The row a replay works from may be stale, but it is a row of the same claim,
\* and the reply it names is still the one the table names.
ReplayIsCurrent(r) ==
    pc[r] \in Resolving =>
        /\ seen[r].fingerprint = ContentOf[r] /\ RowOf(r).fingerprint = ContentOf[r]
        /\ RowOf(r).status \in {"pending", "unknown", "completed"}
        /\ pc[r] = "fetch" => seen[r] = RowOf(r) /\ seen[r].status = "completed"
        /\ pc[r] \in {"lookup", "reconcile"} =>
             seen[r].externalReplyId # None /\ RowOf(r).externalReplyId = seen[r].externalReplyId
        /\ pc[r] = "reconcile" => comments[seen[r].externalReplyId] # "absent"

\* What a client was told is, and stays, backed by the row of its key.
AnswerIsBacked(r) ==
    /\ Answered(r, "reply") =>
         /\ RowOf(r).status = "completed"
         /\ outcome[r].comment = RowOf(r).resultingCommentId
         /\ RowOf(r).fingerprint = ContentOf[r]
    /\ Answered(r, "key_failed") => RowOf(r).status = "failed"
    /\ Answered(r, "unknown") => RowOf(r).status \in {"unknown", "completed"}

\* All of it together, which every step of the handlers preserves.
ReplyInvariant ==
    /\ TypeOK
    /\ \A k \in Keys : RowIsCoherent(k)
    /\ \A r \in Requests : WorkIsOwned(r) /\ ReplayIsCurrent(r) /\ AnswerIsBacked(r)

-----------------------------------------------------------------------------
(***************************************************************************)
(* The handler implements the contract.                                    *)
(***************************************************************************)
PhaseOf(status) ==
    CASE status = "absent"    -> "unused"
      [] status = "pending"   -> "open"
      [] status = "unknown"   -> "uncertain"
      [] status = "completed" -> "replied"
      [] status = "failed"    -> "failed"

keyPhase == [k \in Keys |-> PhaseOf(op[k].status)]

PostedToday(k) == {r \in Requests : KeyOf[r] = k /\ wire[r] = "published"}

PostedEarlier(k) == IF FailedEarlier(k) /\ k \in EarlierAccepted THEN {None} ELSE {}

keyPosted == [k \in Keys |-> PostedToday(k) \union PostedEarlier(k)]

keyTold ==
    [k \in Keys |-> {v \in {"reply", "unknown", "key_failed"} :
                       \E r \in Requests : KeyOf[r] = k /\ Answered(r, v)}]

Contract == INSTANCE ReplyContract WITH
    Replies <- Requests, EarlierReply <- None,
    phase <- keyPhase, posted <- keyPosted, told <- keyTold

\* Every behaviour of the handlers is one the contract allows: one reply per
\* key at the platform, none after the key was failed, verdicts that match what became of the key, and no
\* change of mind other than from unknown to replied.
ImplementsContract == Contract!ContractSpec
=============================================================================
