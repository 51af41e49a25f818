----------------------- MODULE ReplyOperationsProofs -----------------------
(***************************************************************************)
(* Proofs about ReplyOperations, for any number of requests, keys and      *)
(* contents, with or without database failures, and whether or not the     *)
(* lease covers the work.                                                  *)
(***************************************************************************)
EXTENDS ReplyOperations, TLAPS

-----------------------------------------------------------------------------
(***************************************************************************)
(* Lemmas about rows and answers                                           *)
(***************************************************************************)
\* Every transition of the repository yields a row of the table.
LEMMA NewRowTypes ==
    ASSUME NEW r \in Requests, NEW c \in Contents
    PROVE  ClaimedRow(r, c) \in OperationRows /\ LegacyFailedRow(c) \in OperationRows
BY DEF OperationRows, Statuses, ClaimedRow, LegacyFailedRow

\* The same of the transitions that start from a row.
LEMMA RowTypes ==
    ASSUME NEW row \in OperationRows, NEW c \in Requests \union {None}
    PROVE  /\ AnnotatedRow(row, c) \in OperationRows
           /\ CompletedRow(row, c) \in OperationRows
           /\ UnknownRow(row) \in OperationRows
BY DEF OperationRows, Statuses, AnnotatedRow, CompletedRow, UnknownRow

\* No failure code proves a rejection, so a failed publish is never recorded
\* as failed.
LEMMA NothingProvesRejection == ASSUME NEW code PROVE ~ProvesRejection(code)
BY DEF ProvesRejection, CodesProvingRejection

\* The pcs a request goes to or is answered in are pcs of the type invariant.
LEMMA ControlTypes ==
    ASSUME TypeOK, NEW r \in Requests
    PROVE  /\ \A l \in Running : Goto(r, l) =>
                 /\ pc' \in [Requests -> Running \union {"idle", "answered", "dead"}]
                 /\ outcome' \in [Requests -> Outcomes]
           /\ \A kind \in Kinds, c \in Requests \union {None} : AnswerWith(r, kind, c) =>
                 /\ pc' \in [Requests -> Running \union {"idle", "answered", "dead"}]
                 /\ outcome' \in [Requests -> Outcomes]
BY DEF TypeOK, Goto, AnswerWith, Outcomes

\* A committed or uncommitted write leaves a table of rows.
LEMMA WriteTypes ==
    ASSUME TypeOK, NEW r \in Requests, NEW row \in OperationRows, NEW out,
           WriteRow(r, row, out)
    PROVE  op' \in [Keys -> OperationRows]
BY KeyOfAssumption DEF TypeOK, WriteRow

\* The row of a request's key is a row.
LEMMA RowOfType == ASSUME TypeOK, NEW r \in Requests PROVE RowOf(r) \in OperationRows
BY KeyOfAssumption DEF TypeOK, RowOf

\* Whatever replay decides from a row keeps the types.
LEMMA ReplayTypes ==
    ASSUME TypeOK, NEW r \in Requests, NEW site \in {"find", "claim"},
           Replay(r, RowOf(r), site)
    PROVE  /\ pc' \in [Requests -> Running \union {"idle", "answered", "dead"}]
           /\ outcome' \in [Requests -> Outcomes]
           /\ seen' \in [Requests -> OperationRows]
           /\ via' \in [Requests -> {"find", "claim"}]
<1>1. seen' \in [Requests -> OperationRows] /\ via' \in [Requests -> {"find", "claim"}]
  BY RowOfType DEF Replay, TypeOK
<1>2. PICK kind \in Kinds, l \in Running :
         Answer(r, kind) \/ Goto(r, l)
  BY DEF Replay, Kinds, Running, Resolving
<1>3. QED
  BY <1>1, <1>2, ControlTypes DEF Answer

-----------------------------------------------------------------------------
(***************************************************************************)
(* Type correctness                                                        *)
(***************************************************************************)
\* The initial states are well typed.
LEMMA InitTypes == Init => TypeOK
<1> SUFFICES ASSUME Init PROVE TypeOK
  OBVIOUS
<1>1. op \in [Keys -> OperationRows]
  <2>1. {NoRow} \union {LegacyFailedRow(c) : c \in Contents} \subseteq OperationRows
    BY DEF OperationRows, Statuses, NoRow, LegacyFailedRow
  <2>2. QED
    BY <2>1 DEF Init
<1>2. NoRow \in OperationRows /\ Nothing \in Outcomes
  BY DEF OperationRows, Statuses, NoRow, Nothing, Outcomes, Kinds
<1>3. QED
  BY <1>1, <1>2 DEF Init, TypeOK

\* Each step of a handler keeps the types.
LEMMA StepTypes ==
    ASSUME TypeOK, NEW r \in Requests, Step(r)
    PROVE  TypeOK'
<1> USE DEF TypeOK
<1> DEFINE PcType == pc' \in [Requests -> Running \union {"idle", "answered", "dead"}]
           OutcomeType == outcome' \in [Requests -> Outcomes]
<1>a. ASSUME NEW l \in Running, Goto(r, l) PROVE PcType /\ OutcomeType
  BY <1>a, ControlTypes
<1>b. ASSUME NEW kind \in Kinds, Answer(r, kind) PROVE PcType /\ OutcomeType
  BY <1>b, ControlTypes DEF Answer
<1>c. RowOf(r) \in OperationRows
  BY RowOfType
<1>d. UnknownRow(RowOf(r)) \in OperationRows
  BY <1>c, RowTypes
<1>e. ASSUME NEW site \in {"find", "claim"}, NoReplay(r, site) PROVE PcType /\ OutcomeType
  BY <1>a, <1>b, <1>e DEF NoReplay, Running, Kinds
<1>f. ASSUME InternalError(r) PROVE PcType /\ OutcomeType
  BY <1>b, <1>f DEF InternalError, Kinds
<1>g. ASSUME NEW comment \in Requests \union {None}, NEW out, CompleteWith(r, comment, out)
      PROVE  PcType /\ OutcomeType /\ op' \in [Keys -> OperationRows]
  <2>1. CompletedRow(RowOf(r), comment) \in OperationRows
    BY <1>c, RowTypes
  <2>2. "reply" \in Kinds
    BY DEF Kinds
  <2>3. QED
    BY <1>f, <1>g, <2>1, <2>2, WriteTypes, ControlTypes DEF CompleteWith
<1>1. CASE SendReply(r)
  BY <1>1, <1>a DEF SendReply, Running, Working
<1>2. CASE PublishSucceeds(r)
  BY <1>2, <1>a DEF PublishSucceeds, Running, Working
<1>3. CASE ConsultLease(r)
  <2>1. via[r] \in {"find", "claim"} /\ "expire" \in Running
    BY DEF Running, Resolving
  <2>2. PcType /\ OutcomeType
    BY <1>3, <1>a, <1>e, <2>1 DEF ConsultLease
  <2>3. QED
    BY <1>3, <2>2 DEF ConsultLease
<1>4. ASSUME NEW code \in FailureCodes, PublishFails(r, code) PROVE TypeOK'
  BY <1>4 DEF PublishFails, Running, Working, Outcomes, Kinds
<1>5. ASSUME NEW out \in DbOutcomes, FindOperation(r, out) PROVE TypeOK'
  BY <1>5, <1>a, <1>f, ReplayTypes DEF FindOperation, Running
<1>6. ASSUME NEW out \in DbOutcomes, Preflight(r, out) PROVE TypeOK'
  BY <1>6, <1>a, <1>b, <1>f DEF Preflight, Running, Kinds
<1>7. ASSUME NEW out \in DbOutcomes, Claim(r, out) PROVE TypeOK'
  <2>1. ClaimedRow(r, ContentOf[r]) \in OperationRows /\ "publish" \in Running
    BY ContentOfAssumption, NewRowTypes DEF Running, Working
  <2>2. QED
    BY <1>7, <1>a, <1>f, <2>1, WriteTypes, ReplayTypes DEF Claim
<1>8. ASSUME NEW out \in DbOutcomes, RecordFailure(r, out) PROVE TypeOK'
  <2>1. outcome[r].kind \in Kinds
    BY DEF Outcomes
  <2>2. WriteRow(r, UnknownRow(RowOf(r)), out)
    BY <1>8, NothingProvesRejection DEF RecordFailure
  <2>3. QED
    BY <1>8, <1>b, <1>d, <1>f, <2>1, <2>2, WriteTypes DEF RecordFailure
<1>9. ASSUME NEW out \in DbOutcomes, RecordPublished(r, out) PROVE TypeOK'
  <2>1. AnnotatedRow(RowOf(r), r) \in OperationRows
    BY <1>c, RowTypes
  <2>2. QED
    BY <1>9, <1>a, <2>1, WriteTypes DEF RecordPublished, Running, Working
<1>10. ASSUME NEW out \in DbOutcomes, StorePublishedReply(r, out) PROVE TypeOK'
  BY <1>10, <1>a DEF StorePublishedReply, Running, Working
<1>11. ASSUME NEW out \in DbOutcomes, MarkOrphaned(r, out) PROVE TypeOK'
  BY <1>11, <1>d, <1>f, WriteTypes DEF MarkOrphaned
<1>12. ASSUME NEW out \in DbOutcomes, Complete(r, out) PROVE TypeOK'
  BY <1>12, <1>g DEF Complete
<1>13. ASSUME NEW out \in DbOutcomes, FetchReply(r, out) PROVE TypeOK'
  <2>1. PcType /\ OutcomeType
    <3>1. CASE out # "ok"
      BY <1>13, <3>1, <1>f DEF FetchReply
    <3>2. CASE out = "ok" /\ NoReplay(r, via[r])
      BY <3>2, <1>e
    <3>3. CASE AnswerWith(r, "reply", seen[r].resultingCommentId)
      BY <3>3, ControlTypes DEF OperationRows, Kinds
    <3>4. QED
      BY <1>13, <3>1, <3>2, <3>3 DEF FetchReply
  <2>2. QED
    BY <1>13, <2>1 DEF FetchReply
<1>14. ASSUME NEW out \in DbOutcomes, LookupReply(r, out) PROVE TypeOK'
  BY <1>14, <1>a, <1>f DEF LookupReply, Running, Resolving
<1>15. ASSUME NEW out \in DbOutcomes, Reconcile(r, out) PROVE TypeOK'
  <2>1. seen[r].externalReplyId \in Requests \union {None}
    BY DEF OperationRows
  <2>2. QED
    BY <1>15, <2>1, <1>g DEF Reconcile
<1>16. ASSUME NEW out \in DbOutcomes, GiveUp(r, out) PROVE TypeOK'
  BY <1>16, <1>b, <1>d, <1>f, WriteTypes DEF GiveUp, Kinds
<1>17. QED
  BY <1>1, <1>2, <1>3, <1>4, <1>5, <1>6, <1>7, <1>8, <1>9, <1>10, <1>11,
     <1>12, <1>13, <1>14, <1>15, <1>16 DEF Step

\* Every step of the system keeps the types.
LEMMA NextTypes == TypeOK /\ [Next]_vars => TypeOK'
<1> SUFFICES ASSUME TypeOK, [Next]_vars PROVE TypeOK'
  OBVIOUS
<1>1. ASSUME NEW r \in Requests, Begin(r) PROVE TypeOK'
  BY <1>1, ControlTypes DEF Begin, TypeOK, Running
<1>2. ASSUME NEW r \in Requests, PlatformReceives(r) PROVE TypeOK'
  BY <1>2 DEF PlatformReceives, TypeOK
<1>3. ASSUME NEW r \in Requests, Crash(r) PROVE TypeOK'
  BY <1>3 DEF Crash, TypeOK, Nothing, Outcomes, Kinds
<1>4. ASSUME NEW r \in Requests, Hydrate(r) PROVE TypeOK'
  BY <1>4 DEF Hydrate, TypeOK
<1>5. ASSUME NEW k \in Keys, LeaseExpires(k) PROVE TypeOK'
  BY <1>5 DEF LeaseExpires, TypeOK
<1>6. CASE UNCHANGED vars
  BY <1>6 DEF vars, TypeOK
<1>7. QED
  BY <1>1, <1>2, <1>3, <1>4, <1>5, <1>6, StepTypes DEF Next, Finished

\* The types hold in every behaviour.
THEOREM TypeCorrectness == Spec => []TypeOK
<1>1. Init => TypeOK
  BY InitTypes
<1>2. TypeOK /\ [Next]_vars => TypeOK'
  BY NextTypes
<1>3. QED
  BY <1>1, <1>2, PTL DEF Spec

-----------------------------------------------------------------------------
(***************************************************************************)
(* The inductive invariant                                                 *)
(*                                                                         *)
(* A step of a request moves the row of its key only forward (Advances),   *)
(* loses neither a stored nor a published reply (NothingIsForgotten), and  *)
(* leaves every other request where it was (Untouched).  What the          *)
(* invariant says of the others then still holds (UntouchedKeep), and each *)
(* step has to be followed only for the request that takes it.             *)
(***************************************************************************)
\* What every step may do to the row of k: create it, or move it forward.
Advances(k) ==
    /\ op[k].status = "absent" => op'[k].status \in {"absent", "pending"}
    /\ op[k].status # "absent" =>
         op'[k].id = op[k].id /\ op'[k].fingerprint = op[k].fingerprint
    /\ op[k].status \in {"failed", "completed"} => op'[k] = op[k]
    /\ op[k].status \in {"pending", "unknown"} =>
         op'[k].status \in {"pending", "unknown", "completed"}
    /\ op[k].status = "unknown" => op'[k].status # "pending"
    /\ op[k].externalReplyId # None => op'[k].externalReplyId = op[k].externalReplyId

\* A stored comment stays stored, and a published reply stays published.
NothingIsForgotten ==
    \A r \in Requests :
        /\ comments[r] # "absent" => comments'[r] # "absent"
        /\ wire[r] = "published" => wire'[r] = "published"

\* The step is not one of r's own.
Untouched(r) ==
    /\ pc'[r] = pc[r] /\ outcome'[r] = outcome[r] /\ seen'[r] = seen[r]
    /\ wire'[r] = "unsent" <=> wire[r] = "unsent"

\* A request that the step does not touch keeps its part of the invariant.
LEMMA UntouchedKeep ==
    ASSUME ReplyInvariant, TypeOK', NEW r \in Requests, Advances(KeyOf[r]), NothingIsForgotten, Untouched(r)
    PROVE  WorkIsOwned(r)' /\ ReplayIsCurrent(r)' /\ AnswerIsBacked(r)'
<1> DEFINE k == KeyOf[r]
<1>0. k \in Keys /\ k = KeyOf[r] /\ RowOf(r) = op[k] /\ RowOf(r)' = op'[k]
  BY KeyOfAssumption DEF RowOf
<1>1. RowIsCoherent(k) /\ WorkIsOwned(r) /\ ReplayIsCurrent(r) /\ AnswerIsBacked(r) /\ TypeOK
  BY <1>0 DEF ReplyInvariant
<1>2. op[k].status = "absent" => op[k].id = None /\ op[k].externalReplyId = None
  BY <1>1 DEF RowIsCoherent, NoRow
<1>3. op[k] \in OperationRows /\ op'[k] \in OperationRows /\ seen[r] \in OperationRows
  BY <1>0, <1>1 DEF TypeOK
<1> HIDE DEF k
<1>4. WorkIsOwned(r)'
  BY <1>0, <1>1, <1>2, NoneIsNoRequest DEF WorkIsOwned, Advances, NothingIsForgotten, Untouched
<1>5. ReplayIsCurrent(r)'
  <2> SUFFICES ASSUME pc[r] \in Resolving
      PROVE ReplayIsCurrent(r)'
    BY <1>1, <1>0 DEF ReplayIsCurrent, Untouched
  <2>1. seen[r].externalReplyId # None => seen[r].externalReplyId \in Requests
    BY <1>3 DEF OperationRows
  <2>2. QED
    BY <1>0, <1>1, <2>1 DEF ReplayIsCurrent, Advances, NothingIsForgotten, Untouched
<1>6. AnswerIsBacked(r)'
  BY <1>0, <1>1 DEF AnswerIsBacked, Answered, Advances, Untouched
<1>7. QED
  BY <1>4, <1>5, <1>6

\* A step that leaves the table alone keeps the rows coherent.
LEMMA NoWrite ==
    ASSUME ReplyInvariant, NothingIsForgotten, UNCHANGED op
    PROVE  \A k \in Keys : Advances(k) /\ RowIsCoherent(k)'
<1> TAKE k \in Keys
<1>1. RowIsCoherent(k) /\ op[k] \in OperationRows
  BY DEF ReplyInvariant, TypeOK
<1>2. Advances(k)
  BY DEF Advances
<1>3. op[k].externalReplyId # None => op[k].externalReplyId \in Requests
  BY <1>1 DEF OperationRows
<1>4. QED
  BY <1>1, <1>2, <1>3 DEF RowIsCoherent, NothingIsForgotten

\* markUnknown, whoever calls it.
LEMMA UnknownWrite ==
    ASSUME ReplyInvariant, UNCHANGED <<wire, comments>>, NEW r \in Requests, NEW out,
           WriteRow(r, UnknownRow(RowOf(r)), out)
    PROVE  \A k \in Keys : Advances(k) /\ RowIsCoherent(k)'
<1> TAKE k \in Keys
<1>1. RowIsCoherent(k) /\ op[k] \in OperationRows /\ op \in [Keys -> OperationRows]
  BY DEF ReplyInvariant, TypeOK
<1>2. op'[k] = op[k] \/ (op[k].status = "pending" /\ op'[k] = [op[k] EXCEPT !.status = "unknown"])
  BY <1>1, KeyOfAssumption DEF WriteRow, UnknownRow, RowOf
<1>3. QED
  BY <1>1, <1>2 DEF RowIsCoherent, Advances, OperationRows

\* recordPublished by the owner, once the platform shows its reply.
LEMMA AnnotateWrite ==
    ASSUME ReplyInvariant, UNCHANGED <<wire, comments>>, NEW r \in Requests, NEW out,
           RowOf(r).id = r, wire[r] = "published", Annotatable(RowOf(r)),
           WriteRow(r, AnnotatedRow(RowOf(r), r), out)
    PROVE  \A k \in Keys : Advances(k) /\ RowIsCoherent(k)'
<1> TAKE k \in Keys
<1>1. RowIsCoherent(k) /\ op[k] \in OperationRows /\ op \in [Keys -> OperationRows]
  BY DEF ReplyInvariant, TypeOK
<1>2. \/ op'[k] = op[k]
      \/ /\ op[k].id = r /\ op[k].status = "pending"
         /\ op'[k] = [op[k] EXCEPT !.externalReplyId = r]
  BY <1>1, KeyOfAssumption DEF WriteRow, AnnotatedRow, Annotatable, RowOf
<1>3. QED
  BY <1>1, <1>2 DEF RowIsCoherent, Advances, OperationRows

\* complete with the stored reply that the row names, by anyone.
LEMMA CompleteWrite ==
    ASSUME ReplyInvariant, UNCHANGED <<wire, comments>>, NEW r \in Requests, NEW out,
           NEW c \in Requests, RowOf(r).externalReplyId = c, comments[c] # "absent",
           Completable(RowOf(r)), WriteRow(r, CompletedRow(RowOf(r), c), out)
    PROVE  \A k \in Keys : Advances(k) /\ RowIsCoherent(k)'
<1> TAKE k \in Keys
<1>1. RowIsCoherent(k) /\ op[k] \in OperationRows /\ op \in [Keys -> OperationRows]
  BY DEF ReplyInvariant, TypeOK
<1>2. \/ op'[k] = op[k]
      \/ /\ op[k].externalReplyId = c /\ op[k].status \in {"pending", "unknown"}
         /\ op'[k] = [op[k] EXCEPT !.status = "completed", !.resultingCommentId = c]
  BY <1>1, KeyOfAssumption DEF WriteRow, CompletedRow, Completable, RowOf
<1>3. QED
  BY <1>1, <1>2, NoneIsNoRequest DEF RowIsCoherent, Advances, OperationRows

\* The write that creates a row.
LEMMA ClaimWrite ==
    ASSUME ReplyInvariant, UNCHANGED <<wire, comments>>, NEW r \in Requests, NEW out,
           Claimable(RowOf(r)), WriteRow(r, ClaimedRow(r, ContentOf[r]), out)
    PROVE  \A k \in Keys : Advances(k) /\ RowIsCoherent(k)'
<1> TAKE k \in Keys
<1>1. RowIsCoherent(k) /\ op[k] \in OperationRows /\ op \in [Keys -> OperationRows]
  BY DEF ReplyInvariant, TypeOK
<1>2. \/ op'[k] = op[k]
      \/ op[k] = NoRow /\ k = KeyOf[r] /\ op'[k] = ClaimedRow(r, ContentOf[r])
  BY <1>1, KeyOfAssumption DEF WriteRow, Claimable, RowOf, RowIsCoherent
<1>3. QED
  BY <1>1, <1>2, NoneIsNoRequest DEF RowIsCoherent, Advances, OperationRows, ClaimedRow, NoRow

\* What every step of the system does: keep the invariant, and move each row
\* only forward.
Sound == ReplyInvariant' /\ \A k \in Keys : Advances(k)

\* What is left to show of a step of r once its write is accounted for.
LEMMA StepOf ==
    ASSUME ReplyInvariant, TypeOK', NEW r \in Requests,
           \A k \in Keys : Advances(k) /\ RowIsCoherent(k)',
           NothingIsForgotten,
           \A s \in Requests \ {r} : Untouched(s),
           WorkIsOwned(r)', ReplayIsCurrent(r)', AnswerIsBacked(r)'
    PROVE  Sound
<1>1. ASSUME NEW s \in Requests
      PROVE  WorkIsOwned(s)' /\ ReplayIsCurrent(s)' /\ AnswerIsBacked(s)'
  BY <1>1, KeyOfAssumption, UntouchedKeep
<1>2. QED
  BY <1>1 DEF ReplyInvariant, Sound

\* An owner stays the owner, and its reply stays on the row.
LEMMA OwnersStay ==
    ASSUME ReplyInvariant, NEW r \in Requests, Advances(KeyOf[r])
    PROVE  /\ RowOf(r).id = r => RowOf(r)'.id = r
           /\ RowOf(r).externalReplyId = r => RowOf(r)'.externalReplyId = r
           /\ pc[r] \in Working \/ wire[r] # "unsent" => RowOf(r)'.id = r
<1>1. KeyOf[r] \in Keys
  BY KeyOfAssumption
<1>2. RowIsCoherent(KeyOf[r]) /\ WorkIsOwned(r)
  BY <1>1 DEF ReplyInvariant
<1>3. QED
  BY <1>2, NoneIsNoRequest DEF RowIsCoherent, WorkIsOwned, Advances, RowOf, NoRow

\* An answer that says nothing of the fate of the key needs no backing.
LEMMA PlainAnswer ==
    ASSUME ReplyInvariant, NEW r \in Requests, Advances(KeyOf[r]),
           wire'[r] = wire[r], pc'[r] \in {"answered", "dead"},
           outcome'[r].kind \notin {"reply", "key_failed", "unknown"}
    PROVE  WorkIsOwned(r)' /\ ReplayIsCurrent(r)' /\ AnswerIsBacked(r)'
<1>1. WorkIsOwned(r)'
  BY OwnersStay DEF WorkIsOwned, Working
<1>2. QED
  BY <1>1 DEF ReplayIsCurrent, AnswerIsBacked, Answered, Resolving

\* A step of r that writes neither the table nor the store and touches only r.
LEMMA LocalStep ==
    ASSUME ReplyInvariant, TypeOK', NEW r \in Requests,
           UNCHANGED <<op, comments>>, NothingIsForgotten,
           \A s \in Requests \ {r} : Untouched(s),
           WorkIsOwned(r)', ReplayIsCurrent(r)', AnswerIsBacked(r)'
    PROVE  Sound
BY NoWrite, StepOf

\* A request that goes on or is answered does not disturb the others.
LEMMA OthersUntouched ==
    ASSUME TypeOK, NEW r \in Requests, wire' = wire,
           seen' = seen \/ (\E row : seen' = [seen EXCEPT ![r] = row]),
           \/ \E l : Goto(r, l)
           \/ \E kind, c : AnswerWith(r, kind, c)
    PROVE  \A s \in Requests \ {r} : Untouched(s)
BY DEF TypeOK, Goto, AnswerWith, Untouched

\* Replaying the current row: the request learns what the row says, or goes on
\* to resolve it.
LEMMA ReplayStep ==
    ASSUME ReplyInvariant, TypeOK', NEW r \in Requests, NEW site,
           UNCHANGED <<op, expired, wire, comments>>,
           RowOf(r).status # "absent", pc[r] \notin Working, Replay(r, RowOf(r), site)
    PROVE  Sound
<1> DEFINE row == RowOf(r)
<1>1. TypeOK /\ KeyOf[r] \in Keys /\ row \in OperationRows
  BY KeyOfAssumption, RowOfType DEF ReplyInvariant
<1>2. RowIsCoherent(KeyOf[r]) /\ WorkIsOwned(r)
  BY <1>1 DEF ReplyInvariant
<1>3. row.status \in {"pending", "completed", "failed", "unknown"}
  BY <1>1 DEF OperationRows, Statuses
<1>4. RowOf(r)' = row /\ seen'[r] = row
  BY <1>1 DEF Replay, RowOf, TypeOK
<1>5. \A s \in Requests \ {r} : Untouched(s)
  BY <1>1, OthersUntouched DEF Replay, Answer
<1>6. NothingIsForgotten
  BY DEF NothingIsForgotten
<1> HIDE DEF row
<1>7. CASE row.fingerprint # ContentOf[r]
  <2>1. pc'[r] = "answered" /\ outcome'[r].kind = "body_mismatch"
    BY <1>1, <1>7 DEF Replay, Answer, AnswerWith, TypeOK, row
  <2>2. WorkIsOwned(r)' /\ ReplayIsCurrent(r)' /\ AnswerIsBacked(r)'
    BY <1>1, <1>6, <2>1, NoWrite, PlainAnswer
  <2>3. QED
    BY <1>5, <1>6, <2>2, LocalStep
<1>8. CASE row.fingerprint = ContentOf[r]
  <2>1. \/ row.status = "completed" /\ Goto(r, "fetch")
        \/ row.status = "failed" /\ Answer(r, "key_failed")
        \/ row.status = "unknown" /\ Answer(r, "unknown")
        \/ row.status = "pending" /\ row.externalReplyId # None /\ Goto(r, "lookup")
        \/ row.status = "pending" /\ row.externalReplyId = None /\ Goto(r, "lease")
    BY <1>8 DEF Replay, row
  <2>2. WorkIsOwned(r)'
    BY <1>1, <1>2, <1>4, <2>1 DEF WorkIsOwned, Working, TypeOK, Goto, Answer, AnswerWith, row
  <2>3. ReplayIsCurrent(r)'
    BY <1>1, <1>4, <1>8, <2>1 DEF ReplayIsCurrent, Resolving, TypeOK, Goto, Answer, AnswerWith
  <2>4. AnswerIsBacked(r)'
    BY <1>1, <1>4, <2>1 DEF AnswerIsBacked, Answered, TypeOK, Goto, Answer, AnswerWith
  <2>5. WorkIsOwned(r)' /\ ReplayIsCurrent(r)' /\ AnswerIsBacked(r)'
    BY <2>2, <2>3, <2>4
  <2>6. QED
    BY <1>5, <1>6, <2>5, LocalStep
<1>9. QED
  BY <1>7, <1>8

\* Falling through to the claim, or having lost it.
LEMMA NoReplayStep ==
    ASSUME ReplyInvariant, TypeOK', NEW r \in Requests, NEW site \in {"find", "claim"},
           UNCHANGED <<op, wire, comments, seen>>, NoReplay(r, site)
    PROVE  Sound
<1>1. TypeOK /\ KeyOf[r] \in Keys /\ WorkIsOwned(r)
  BY KeyOfAssumption DEF ReplyInvariant
<1>2. \A s \in Requests \ {r} : Untouched(s)
  BY <1>1, OthersUntouched DEF NoReplay, Answer
<1>3. NothingIsForgotten
  BY DEF NothingIsForgotten
<1>4. pc'[r] = "preflight" \/ (pc'[r] = "answered" /\ outcome'[r].kind = "in_flight")
  BY <1>1 DEF NoReplay, Goto, Answer, AnswerWith, TypeOK
<1>5. WorkIsOwned(r)' /\ ReplayIsCurrent(r)' /\ AnswerIsBacked(r)'
  BY <1>1, <1>4 DEF WorkIsOwned, ReplayIsCurrent, AnswerIsBacked, Answered,
                    Working, Resolving, RowOf
<1>6. QED
  BY <1>2, <1>3, <1>5, LocalStep

\* An answer that says nothing of the fate of the key, after any write that
\* moves the table forward.
LEMMA PlainAnswerStep ==
    ASSUME ReplyInvariant, TypeOK', NEW r \in Requests, NEW kind,
           UNCHANGED <<wire, comments, seen>>,
           \A k \in Keys : Advances(k) /\ RowIsCoherent(k)',
           kind \notin {"reply", "key_failed", "unknown"}, Answer(r, kind)
    PROVE  Sound
<1>1. TypeOK /\ KeyOf[r] \in Keys
  BY KeyOfAssumption DEF ReplyInvariant
<1>2. \A s \in Requests \ {r} : Untouched(s)
  BY <1>1, OthersUntouched DEF Answer
<1>3. NothingIsForgotten
  BY DEF NothingIsForgotten
<1>4. pc'[r] = "answered" /\ outcome'[r].kind = kind
  BY <1>1 DEF Answer, AnswerWith, TypeOK
<1>5. WorkIsOwned(r)' /\ ReplayIsCurrent(r)' /\ AnswerIsBacked(r)'
  BY <1>1, <1>4, PlainAnswer
<1>6. QED
  BY <1>2, <1>3, <1>5, StepOf

\* operations.complete with the reply the row names, by its owner or a retry.
LEMMA CompleteStep ==
    ASSUME ReplyInvariant, TypeOK', NEW r \in Requests, NEW c \in Requests, NEW out,
           UNCHANGED <<expired, wire, comments, seen, via>>,
           RowOf(r).externalReplyId = c, comments[c] # "absent",
           RowOf(r).fingerprint = ContentOf[r], CompleteWith(r, c, out)
    PROVE  Sound
<1>1. TypeOK /\ KeyOf[r] \in Keys /\ NothingIsForgotten
  BY KeyOfAssumption DEF ReplyInvariant, NothingIsForgotten
<1>2. \A k \in Keys : Advances(k) /\ RowIsCoherent(k)'
  BY <1>1, CompleteWrite, NoWrite DEF CompleteWith
<1>3. CASE InternalError(r)
  <2>1. Answer(r, "internal_error")
    BY <1>3 DEF InternalError
  <2>2. UNCHANGED <<wire, comments, seen>>
    OBVIOUS
  <2>3. QED
    BY <1>2, <2>1, <2>2, PlainAnswerStep
<1>4. CASE ~InternalError(r)
  <2>1. /\ Completable(RowOf(r)) /\ out = "ok"
        /\ WriteRow(r, CompletedRow(RowOf(r), c), out) /\ AnswerWith(r, "reply", c)
    BY <1>4 DEF CompleteWith
  <2>2. RowOf(r)' = [RowOf(r) EXCEPT !.status = "completed", !.resultingCommentId = c]
    BY <1>1, <2>1 DEF WriteRow, CompletedRow, RowOf, TypeOK
  <2>3. pc'[r] = "answered" /\ outcome'[r] = [kind |-> "reply", comment |-> c]
    BY <1>1, <2>1 DEF AnswerWith, TypeOK
  <2>4. RowOf(r) \in OperationRows
    BY <1>1, RowOfType
  <2>5. WorkIsOwned(r)'
    BY <1>1, <1>2, <2>3, OwnersStay DEF WorkIsOwned, Working
  <2>6. ReplayIsCurrent(r)' /\ AnswerIsBacked(r)'
    BY <2>2, <2>3, <2>4 DEF ReplayIsCurrent, AnswerIsBacked, Answered, Resolving, OperationRows
  <2>7. \A s \in Requests \ {r} : Untouched(s)
    BY <1>1, <2>1, OthersUntouched
  <2>8. QED
    BY <1>1, <1>2, <2>5, <2>6, <2>7, StepOf
<1>5. QED
  BY <1>3, <1>4

-----------------------------------------------------------------------------
(***************************************************************************)
(* The steps, one by one                                                   *)
(***************************************************************************)
\* Steps that change nothing but where r is, and r is not yet at work.
LEMMA GotoStep ==
    ASSUME ReplyInvariant, TypeOK', NEW r \in Requests,
           NEW l \in {"find", "preflight", "claim"},
           UNCHANGED <<op, wire, comments, seen>>, Goto(r, l)
    PROVE  Sound
<1>1. TypeOK /\ KeyOf[r] \in Keys /\ WorkIsOwned(r) /\ NothingIsForgotten
  BY KeyOfAssumption DEF ReplyInvariant, NothingIsForgotten
<1>2. pc'[r] = l
  BY <1>1 DEF Goto, TypeOK
<1>3. WorkIsOwned(r)' /\ ReplayIsCurrent(r)' /\ AnswerIsBacked(r)'
  BY <1>1, <1>2 DEF WorkIsOwned, ReplayIsCurrent, AnswerIsBacked, Answered,
                    Working, Resolving, RowOf
<1>4. \A s \in Requests \ {r} : Untouched(s)
  BY <1>1, OthersUntouched
<1>5. QED
  BY <1>1, <1>3, <1>4, LocalStep

\* A 500 after a step that wrote nothing.
LEMMA InternalErrorStep ==
    ASSUME ReplyInvariant, TypeOK', NEW r \in Requests,
           UNCHANGED <<op, wire, comments, seen>>, InternalError(r)
    PROVE  Sound
<1>1. \A k \in Keys : Advances(k) /\ RowIsCoherent(k)'
  BY NoWrite DEF NothingIsForgotten
<1>2. Answer(r, "internal_error") /\ UNCHANGED <<wire, comments, seen>>
  BY DEF InternalError
<1>3. QED
  BY <1>1, <1>2, PlainAnswerStep

\* The reads before the claim.
LEMMA ReadingSteps ==
    ASSUME ReplyInvariant, TypeOK', NEW r \in Requests, NEW out,
           FindOperation(r, out) \/ Preflight(r, out)
    PROVE  Sound
<1>1. CASE FindOperation(r, out)
  <2>1. CASE InternalError(r) /\ UNCHANGED <<op, wire, comments, seen>>
    BY <2>1, InternalErrorStep
  <2>2. CASE Goto(r, "preflight") /\ UNCHANGED <<op, wire, comments, seen>>
    BY <2>2, GotoStep
  <2>3. CASE RowOf(r).status # "absent" /\ Replay(r, RowOf(r), "find")
    BY <1>1, <2>3, ReplayStep DEF FindOperation, Working
  <2>4. QED
    BY <1>1, <2>1, <2>2, <2>3 DEF FindOperation
<1>2. CASE Preflight(r, out)
  <2>1. CASE InternalError(r)
    BY <1>2, <2>1, InternalErrorStep DEF Preflight
  <2>2. CASE Goto(r, "claim")
    BY <1>2, <2>2, GotoStep DEF Preflight
  <2>3. CASE Answer(r, "not_replyable")
    <3>1. UNCHANGED <<op, wire, comments, seen>>
      BY <1>2 DEF Preflight
    <3>2. \A k \in Keys : Advances(k) /\ RowIsCoherent(k)'
      BY <3>1, NoWrite DEF NothingIsForgotten
    <3>3. QED
      BY <2>3, <3>1, <3>2, PlainAnswerStep
  <2>4. QED
    BY <1>2, <2>1, <2>2, <2>3 DEF Preflight
<1>3. QED
  BY <1>1, <1>2

\* The claim, won or lost.
LEMMA ClaimStep ==
    ASSUME ReplyInvariant, TypeOK', NEW r \in Requests, NEW out, Claim(r, out)
    PROVE  Sound
<1>1. TypeOK /\ KeyOf[r] \in Keys /\ WorkIsOwned(r) /\ RowIsCoherent(KeyOf[r])
  BY KeyOfAssumption DEF ReplyInvariant
<1>2. UNCHANGED <<expired, wire, comments>> /\ pc[r] \notin Working /\ NothingIsForgotten
  BY DEF Claim, Working, NothingIsForgotten
<1>3. CASE ~Claimable(RowOf(r)) /\ Replay(r, RowOf(r), "claim")
  BY <1>2, <1>3, ReplayStep DEF Claim, Claimable
<1>4. CASE ~Claimable(RowOf(r)) /\ ~Replay(r, RowOf(r), "claim")
  BY <1>2, <1>4, InternalErrorStep DEF Claim
<1>5. CASE Claimable(RowOf(r))
  <2>1. WriteRow(r, ClaimedRow(r, ContentOf[r]), out) /\ UNCHANGED <<seen, via>>
    BY <1>5 DEF Claim
  <2>2. \A k \in Keys : Advances(k) /\ RowIsCoherent(k)'
    BY <1>2, <1>5, <2>1, ClaimWrite
  <2>3. CASE InternalError(r)
    <3>1. Answer(r, "internal_error") /\ UNCHANGED <<wire, comments, seen>>
      BY <1>2, <2>1, <2>3 DEF InternalError
    <3>2. QED
      BY <2>2, <3>1, PlainAnswerStep
  <2>4. CASE out = "ok" /\ Goto(r, "publish")
    <3>1. RowOf(r)'.id = r /\ pc'[r] = "publish"
      BY <1>1, <2>1, <2>4 DEF WriteRow, RowOf, ClaimedRow, Goto, TypeOK
    <3>0. wire'[r] = "unsent"
      BY <1>1, <1>2, <1>5, NoneIsNoRequest DEF Claimable, RowIsCoherent, WorkIsOwned, RowOf, NoRow
    <3>2. WorkIsOwned(r)' /\ ReplayIsCurrent(r)' /\ AnswerIsBacked(r)'
      BY <3>0, <3>1 DEF WorkIsOwned, ReplayIsCurrent, AnswerIsBacked, Answered, Working, Resolving
    <3>3. \A s \in Requests \ {r} : Untouched(s)
      BY <1>1, <1>2, <2>1, <2>4, OthersUntouched
    <3>4. QED
      BY <1>2, <2>2, <3>2, <3>3, StepOf
  <2>5. QED
    BY <1>5, <2>3, <2>4 DEF Claim
<1>6. QED
  BY <1>3, <1>4, <1>5

\* The owner sends its reply and learns, or does not learn, what became of it.
LEMMA PublishSteps ==
    ASSUME ReplyInvariant, TypeOK', NEW r \in Requests,
           \/ SendReply(r) \/ PublishSucceeds(r)
           \/ \E code \in FailureCodes : PublishFails(r, code)
    PROVE  Sound
<1>1. TypeOK /\ KeyOf[r] \in Keys /\ WorkIsOwned(r)
  BY KeyOfAssumption DEF ReplyInvariant
<1>2. pc[r] \in Working /\ RowOf(r)' = RowOf(r) /\ UNCHANGED <<op, comments, seen>>
  BY DEF SendReply, PublishSucceeds, PublishFails, Working, RowOf
<1>3. NothingIsForgotten
  <2>1. CASE SendReply(r)
    <3>1. wire[r] = "unsent"
      BY <1>1, <2>1 DEF SendReply, WorkIsOwned
    <3>2. QED
      BY <1>1, <2>1, <3>1 DEF SendReply, NothingIsForgotten, TypeOK
  <2>2. QED
    BY <2>1 DEF PublishSucceeds, PublishFails, NothingIsForgotten
<1>4. WorkIsOwned(r)'
  BY <1>1, <1>2 DEF SendReply, PublishSucceeds, PublishFails, Goto, WorkIsOwned, Working, TypeOK, Outcomes
<1>5. ReplayIsCurrent(r)' /\ AnswerIsBacked(r)'
  BY <1>1 DEF SendReply, PublishSucceeds, PublishFails, Goto, ReplayIsCurrent,
              AnswerIsBacked, Answered, Resolving, TypeOK
<1>6. \A s \in Requests \ {r} : Untouched(s)
  BY <1>1 DEF SendReply, PublishSucceeds, PublishFails, Goto, Untouched, TypeOK
<1>7. WorkIsOwned(r)' /\ ReplayIsCurrent(r)' /\ AnswerIsBacked(r)'
  BY <1>4, <1>5
<1>8. QED
  BY <1>2, <1>3, <1>6, <1>7, LocalStep

\* The failed publish, the orphan and the expired lease: markUnknown.
LEMMA WriteOffSteps ==
    ASSUME ReplyInvariant, TypeOK', NEW r \in Requests, NEW out,
           RecordFailure(r, out) \/ MarkOrphaned(r, out) \/ GiveUp(r, out)
    PROVE  Sound
<1>1. TypeOK /\ KeyOf[r] \in Keys /\ WorkIsOwned(r) /\ ReplayIsCurrent(r) /\ NothingIsForgotten
  BY KeyOfAssumption DEF ReplyInvariant, RecordFailure, MarkOrphaned, GiveUp, NothingIsForgotten
<1>2. WriteRow(r, UnknownRow(RowOf(r)), out) /\ UNCHANGED <<wire, comments, seen>>
  BY NothingProvesRejection DEF RecordFailure, MarkOrphaned, GiveUp
<1>3. \A k \in Keys : Advances(k) /\ RowIsCoherent(k)'
  BY <1>2, UnknownWrite
<1>4. ASSUME NEW kind \in FailureCodes \union {"internal_error"}, Answer(r, kind)
      PROVE  Sound
  <2>1. kind \notin {"reply", "key_failed", "unknown"}
    BY DEF FailureCodes
  <2>2. QED
    BY <1>2, <1>3, <1>4, <2>1, PlainAnswerStep
<1>5. CASE RecordFailure(r, out)
  <2>1. outcome[r].kind \in FailureCodes
    BY <1>1, <1>5 DEF WorkIsOwned, RecordFailure
  <2>2. QED
    BY <1>4, <1>5, <2>1 DEF RecordFailure, InternalError
<1>6. CASE MarkOrphaned(r, out)
  BY <1>4, <1>6 DEF MarkOrphaned, InternalError
<1>7. CASE GiveUp(r, out) /\ InternalError(r)
  BY <1>4, <1>7 DEF InternalError
<1>8. CASE GiveUp(r, out) /\ ~InternalError(r)
  <2>1. out = "ok" /\ Answer(r, "unknown")
    BY <1>8 DEF GiveUp
  <2>2. RowOf(r).status \in {"pending", "unknown", "completed"}
    BY <1>1, <1>8 DEF GiveUp, ReplayIsCurrent, Resolving
  <2>3. RowOf(r)'.status \in {"unknown", "completed"}
    BY <1>1, <1>2, <2>1, <2>2, RowOfType DEF WriteRow, UnknownRow, RowOf, TypeOK, OperationRows
  <2>4. pc'[r] = "answered" /\ outcome'[r].kind = "unknown"
    BY <1>1, <2>1 DEF Answer, AnswerWith, TypeOK
  <2>5. WorkIsOwned(r)'
    BY <1>1, <1>2, <1>3, <2>4, OwnersStay DEF WorkIsOwned, Working
  <2>6. WorkIsOwned(r)' /\ ReplayIsCurrent(r)' /\ AnswerIsBacked(r)'
    BY <2>3, <2>4, <2>5 DEF ReplayIsCurrent, AnswerIsBacked, Answered, Resolving
  <2>7. \A s \in Requests \ {r} : Untouched(s)
    BY <1>1, <1>2, <2>1, OthersUntouched DEF Answer
  <2>8. QED
    BY <1>1, <1>3, <2>6, <2>7, StepOf
<1>9. QED
  BY <1>5, <1>6, <1>7, <1>8

\* The owner records where the reply is.
LEMMA RecordPublishedStep ==
    ASSUME ReplyInvariant, TypeOK', NEW r \in Requests, NEW out, RecordPublished(r, out)
    PROVE  Sound
<1>1. TypeOK /\ KeyOf[r] \in Keys /\ WorkIsOwned(r) /\ NothingIsForgotten
  BY KeyOfAssumption DEF ReplyInvariant, RecordPublished, NothingIsForgotten
<1>2. UNCHANGED <<wire, comments, seen>> /\ RowOf(r).id = r /\ wire[r] = "published"
  BY <1>1 DEF RecordPublished, WorkIsOwned, Working
<1>3. \A k \in Keys : Advances(k) /\ RowIsCoherent(k)'
  BY <1>1, <1>2, AnnotateWrite, NoWrite DEF RecordPublished
<1>4. RowOf(r)'.id = r
  BY <1>1, <1>2, <1>3, OwnersStay
<1>5. \/ pc'[r] = "orphan"
      \/ pc'[r] = "store" /\ WriteRow(r, AnnotatedRow(RowOf(r), r), out) /\ out = "ok"
  BY <1>1 DEF RecordPublished, Goto, TypeOK
<1>6. pc'[r] = "store" => RowOf(r)'.externalReplyId = r
  BY <1>1, <1>5, RowOfType DEF WriteRow, AnnotatedRow, RowOf, TypeOK, OperationRows
<1>7. WorkIsOwned(r)' /\ ReplayIsCurrent(r)' /\ AnswerIsBacked(r)'
  BY <1>2, <1>4, <1>5, <1>6 DEF WorkIsOwned, ReplayIsCurrent, AnswerIsBacked, Answered, Resolving
<1>8. \A s \in Requests \ {r} : Untouched(s)
  BY <1>1, <1>2, OthersUntouched DEF RecordPublished
<1>9. QED
  BY <1>1, <1>3, <1>7, <1>8, StepOf

\* The owner stores the reply.
LEMMA StorePublishedReplyStep ==
    ASSUME ReplyInvariant, TypeOK', NEW r \in Requests, NEW out, StorePublishedReply(r, out)
    PROVE  Sound
<1>1. TypeOK /\ KeyOf[r] \in Keys /\ WorkIsOwned(r)
  BY KeyOfAssumption DEF ReplyInvariant
<1>2. UNCHANGED <<op, wire, seen>> /\ RowOf(r)' = RowOf(r) /\ pc[r] = "store"
  BY DEF StorePublishedReply, RowOf
<1>3. NothingIsForgotten
  BY <1>1 DEF StorePublishedReply, NothingIsForgotten, TypeOK
<1>4. \A k \in Keys : Advances(k) /\ RowIsCoherent(k)'
  BY <1>2, <1>3, NoWrite
<1>5. pc'[r] = "orphan" \/ (pc'[r] = "complete" /\ comments'[r] # "absent")
  BY <1>1 DEF StorePublishedReply, Goto, TypeOK
<1>6. WorkIsOwned(r)' /\ ReplayIsCurrent(r)' /\ AnswerIsBacked(r)'
  BY <1>1, <1>2, <1>5 DEF WorkIsOwned, ReplayIsCurrent, AnswerIsBacked, Answered, Resolving, Working
<1>7. \A s \in Requests \ {r} : Untouched(s)
  BY <1>1, <1>2, OthersUntouched DEF StorePublishedReply
<1>8. QED
  BY <1>3, <1>4, <1>6, <1>7, StepOf

\* The owner or a retry completes the row.
LEMMA CompletingSteps ==
    ASSUME ReplyInvariant, TypeOK', NEW r \in Requests, NEW out,
           Complete(r, out) \/ Reconcile(r, out)
    PROVE  Sound
<1>1. KeyOf[r] \in Keys
  BY KeyOfAssumption
<1>2. TypeOK /\ WorkIsOwned(r) /\ ReplayIsCurrent(r) /\ RowIsCoherent(KeyOf[r])
  BY <1>1 DEF ReplyInvariant
<1>3. UNCHANGED <<expired, wire, comments, seen, via>>
  BY DEF Complete, Reconcile
<1>4. CASE Complete(r, out)
  <2>1. /\ CompleteWith(r, r, out) /\ RowOf(r).id = r
        /\ RowOf(r).externalReplyId = r /\ comments[r] # "absent"
    BY <1>2, <1>4 DEF Complete, WorkIsOwned, Working
  <2>2. RowOf(r).fingerprint = ContentOf[r] \/ RowOf(r).status = "failed"
    BY <1>1, <1>2, <2>1, NoneIsNoRequest, RowOfType
       DEF RowIsCoherent, RowOf, NoRow, OperationRows, Statuses
  <2>3. RowOf(r).status # "failed"
    BY <1>2, <2>1, NoneIsNoRequest DEF RowIsCoherent, RowOf
  <2>4. QED
    BY <1>3, <2>1, <2>2, <2>3, CompleteStep
<1>5. CASE Reconcile(r, out)
  <2> DEFINE c == seen[r].externalReplyId
  <2>1. CompleteWith(r, c, out)
    BY <1>5 DEF Reconcile
  <2>2. /\ c # None /\ RowOf(r).externalReplyId = c
        /\ RowOf(r).fingerprint = ContentOf[r] /\ comments[c] # "absent"
    BY <1>2, <1>5 DEF Reconcile, ReplayIsCurrent, Resolving
  <2>3. c \in Requests
    BY <1>2, <2>2 DEF TypeOK, OperationRows
  <2> HIDE DEF c
  <2>4. QED
    BY <1>3, <2>1, <2>2, <2>3, CompleteStep
<1>6. QED
  BY <1>4, <1>5

\* Reading a completed reply back.
LEMMA FetchReplyStep ==
    ASSUME ReplyInvariant, TypeOK', NEW r \in Requests, NEW out, FetchReply(r, out)
    PROVE  Sound
<1> DEFINE c == seen[r].resultingCommentId
<1>1. TypeOK /\ WorkIsOwned(r) /\ ReplayIsCurrent(r) /\ NothingIsForgotten
  BY DEF ReplyInvariant, FetchReply, NothingIsForgotten
<1>2. UNCHANGED <<op, expired, wire, comments, seen, via>> /\ RowOf(r)' = RowOf(r)
  BY DEF FetchReply, RowOf
<1>3. CASE InternalError(r)
  BY <1>2, <1>3, InternalErrorStep
<1>4. CASE NoReplay(r, via[r])
  BY <1>1, <1>2, <1>4, NoReplayStep DEF TypeOK
<1>5. CASE AnswerWith(r, "reply", c)
  <2>1. pc'[r] = "answered" /\ outcome'[r] = [kind |-> "reply", comment |-> c]
    BY <1>1, <1>5 DEF AnswerWith, TypeOK
  <2>2. /\ RowOf(r).status = "completed" /\ c = RowOf(r).resultingCommentId
        /\ RowOf(r).fingerprint = ContentOf[r]
    BY <1>1 DEF FetchReply, ReplayIsCurrent, Resolving
  <2>3. WorkIsOwned(r)'
    BY <1>1, <1>2, <2>1 DEF WorkIsOwned, Working
  <2>4. WorkIsOwned(r)' /\ ReplayIsCurrent(r)' /\ AnswerIsBacked(r)'
    BY <1>2, <2>1, <2>2, <2>3 DEF ReplayIsCurrent, AnswerIsBacked, Answered, Resolving
  <2>5. \A s \in Requests \ {r} : Untouched(s)
    BY <1>1, <1>2, <1>5, OthersUntouched
  <2>6. QED
    BY <1>1, <1>2, <2>4, <2>5, LocalStep
<1>6. QED
  BY <1>3, <1>4, <1>5 DEF FetchReply

\* Looking for the reply, then at the lease.
LEMMA RecoverSteps ==
    ASSUME ReplyInvariant, TypeOK', NEW r \in Requests,
           ConsultLease(r) \/ \E out \in DbOutcomes : LookupReply(r, out)
    PROVE  Sound
<1>1. TypeOK /\ WorkIsOwned(r) /\ ReplayIsCurrent(r) /\ NothingIsForgotten
  BY DEF ReplyInvariant, ConsultLease, LookupReply, NothingIsForgotten
<1>2. UNCHANGED <<op, expired, wire, comments, seen, via>> /\ RowOf(r)' = RowOf(r)
  BY DEF ConsultLease, LookupReply, RowOf
<1>3. CASE InternalError(r)
  BY <1>2, <1>3, InternalErrorStep
<1>4. CASE NoReplay(r, via[r])
  BY <1>1, <1>2, <1>4, NoReplayStep DEF TypeOK
<1>5. ASSUME NEW l \in {"expire", "lease", "reconcile"}, Goto(r, l),
             l = "reconcile" => pc[r] = "lookup" /\ comments[seen[r].externalReplyId] # "absent"
      PROVE  Sound
  <2>1. pc'[r] = l /\ pc[r] \in {"lease", "lookup"}
    BY <1>1, <1>5 DEF Goto, TypeOK, ConsultLease, LookupReply
  <2>2. WorkIsOwned(r)'
    BY <1>1, <1>2, <2>1 DEF WorkIsOwned, Working
  <2>3. ReplayIsCurrent(r)' /\ AnswerIsBacked(r)'
    BY <1>1, <1>2, <1>5, <2>1 DEF ReplayIsCurrent, AnswerIsBacked, Answered, Resolving
  <2>4. WorkIsOwned(r)' /\ ReplayIsCurrent(r)' /\ AnswerIsBacked(r)'
    BY <2>2, <2>3
  <2>5. \A s \in Requests \ {r} : Untouched(s)
    BY <1>1, <1>2, <1>5, OthersUntouched
  <2>6. QED
    BY <1>1, <1>2, <2>4, <2>5, LocalStep
<1>6. CASE ConsultLease(r)
  BY <1>4, <1>5, <1>6 DEF ConsultLease
<1>7. CASE \E out \in DbOutcomes : LookupReply(r, out)
  BY <1>3, <1>5, <1>7 DEF LookupReply
<1>8. QED
  BY <1>6, <1>7

\* What happens around the handlers.
LEMMA EnvironmentSteps ==
    ASSUME ReplyInvariant, TypeOK', NEW r \in Requests,
           Begin(r) \/ PlatformReceives(r) \/ Crash(r) \/ Hydrate(r)
    PROVE  Sound
<1>1. TypeOK /\ WorkIsOwned(r) /\ ReplayIsCurrent(r) /\ AnswerIsBacked(r) /\ KeyOf[r] \in Keys
  BY KeyOfAssumption DEF ReplyInvariant
<1>2. op' = op /\ seen' = seen /\ RowOf(r)' = RowOf(r)
  BY DEF Begin, PlatformReceives, Crash, Hydrate, RowOf
<1>3. CASE Begin(r)
  BY <1>3, GotoStep DEF Begin
<1>4. CASE PlatformReceives(r)
  <2>1. NothingIsForgotten /\ \A s \in Requests \ {r} : Untouched(s)
    BY <1>1, <1>4 DEF PlatformReceives, NothingIsForgotten, Untouched, TypeOK
  <2>2. pc' = pc /\ comments' = comments /\ outcome' = outcome
        /\ wire[r] = "sent" /\ wire'[r] \in {"published", "lost"}
    BY <1>1, <1>4 DEF PlatformReceives, TypeOK
  <2>3. WorkIsOwned(r)'
    BY <1>1, <1>2, <2>2 DEF WorkIsOwned
  <2>4. WorkIsOwned(r)' /\ ReplayIsCurrent(r)' /\ AnswerIsBacked(r)'
    BY <1>1, <1>2, <2>2, <2>3 DEF ReplayIsCurrent, AnswerIsBacked, Answered
  <2>5. QED
    BY <1>2, <2>1, <2>2, <2>4, LocalStep
<1>5. CASE Crash(r)
  <2>1. NothingIsForgotten /\ UNCHANGED <<op, comments>>
    BY <1>5 DEF Crash, NothingIsForgotten
  <2>2. \A s \in Requests \ {r} : Untouched(s)
    BY <1>1, <1>5 DEF Crash, Untouched, TypeOK
  <2>3. pc'[r] = "dead" /\ outcome'[r].kind = "none" /\ wire'[r] = wire[r]
    BY <1>1, <1>5 DEF Crash, TypeOK, Nothing
  <2>4. Advances(KeyOf[r])
    BY <1>1, <2>1, NoWrite
  <2>5. WorkIsOwned(r)' /\ ReplayIsCurrent(r)' /\ AnswerIsBacked(r)'
    BY <2>3, <2>4, PlainAnswer
  <2>6. QED
    BY <2>1, <2>2, <2>5, LocalStep
<1>6. CASE Hydrate(r)
  <2>1. NothingIsForgotten /\ \A s \in Requests : Untouched(s)
    BY <1>1, <1>6 DEF Hydrate, NothingIsForgotten, Untouched, TypeOK
  <2>2. \A k \in Keys : Advances(k) /\ RowIsCoherent(k)'
    BY <1>2, <2>1, NoWrite
  <2>3. WorkIsOwned(r)' /\ ReplayIsCurrent(r)' /\ AnswerIsBacked(r)'
    BY <1>1, <2>1, <2>2, UntouchedKeep
  <2>4. QED
    BY <2>1, <2>2, <2>3, StepOf
<1>7. QED
  BY <1>3, <1>4, <1>5, <1>6

\* Nothing but the clock moves, or nothing at all.
LEMMA IdleSteps ==
    ASSUME ReplyInvariant, TypeOK', (\E k \in Keys : LeaseExpires(k)) \/ UNCHANGED vars
    PROVE  Sound
<1>1. ReplyInvariant'
  BY DEF ReplyInvariant, LeaseExpires, vars, RowIsCoherent, WorkIsOwned, ReplayIsCurrent,
         AnswerIsBacked, Answered, RowOf
<1>2. NothingIsForgotten /\ UNCHANGED op
  BY DEF LeaseExpires, vars, NothingIsForgotten
<1>3. QED
  BY <1>1, <1>2, NoWrite DEF Sound

-----------------------------------------------------------------------------
(***************************************************************************)
(* The theorems                                                            *)
(***************************************************************************)
\* The invariant holds at first.
LEMMA InvariantInitially == Init => ReplyInvariant
<1> SUFFICES ASSUME Init PROVE ReplyInvariant
  OBVIOUS
<1>1. TypeOK
  BY InitTypes
<1>2. ASSUME NEW k \in Keys PROVE RowIsCoherent(k)
  BY <1>2, NoneIsNoRequest DEF Init, RowIsCoherent, NoRow, LegacyFailedRow
<1>3. ASSUME NEW r \in Requests PROVE WorkIsOwned(r) /\ ReplayIsCurrent(r) /\ AnswerIsBacked(r)
  BY <1>3 DEF Init, WorkIsOwned, ReplayIsCurrent, AnswerIsBacked, Answered, Working, Resolving
<1>4. QED
  BY <1>1, <1>2, <1>3 DEF ReplyInvariant

\* Every step of the system is sound.
LEMMA StepsAreSound == ReplyInvariant /\ [Next]_vars => Sound
<1> SUFFICES ASSUME ReplyInvariant, [Next]_vars PROVE Sound
  OBVIOUS
<1>1. TypeOK'
  BY NextTypes DEF ReplyInvariant
<1>2. ASSUME NEW r \in Requests, Step(r) PROVE Sound
  BY <1>1, <1>2, ReadingSteps, ClaimStep, PublishSteps, WriteOffSteps, RecordPublishedStep,
     StorePublishedReplyStep, CompletingSteps, FetchReplyStep, RecoverSteps DEF Step
<1>3. QED
  BY <1>1, <1>2, EnvironmentSteps, IdleSteps DEF Next, Finished

\* The invariant holds in every behaviour.
THEOREM InvariantHolds == Spec => []ReplyInvariant
<1>1. Init => ReplyInvariant
  BY InvariantInitially
<1>2. ReplyInvariant /\ [Next]_vars => ReplyInvariant'
  BY StepsAreSound DEF Sound
<1>3. QED
  BY <1>1, <1>2, PTL DEF Spec

\* At most one request per key ever contacts the platform with a publish: a
\* row has one owner, and only the owner publishes.
THEOREM AtMostOnce == Spec => []AtMostOncePublished
<1>1. ReplyInvariant => AtMostOncePublished
  BY DEF ReplyInvariant, WorkIsOwned, RowOf, AtMostOncePublished
<1>2. QED
  BY <1>1, InvariantHolds, PTL

\* A completed key names the reply its own request published, and the reply is
\* in the store.
THEOREM CompletionIsReal == Spec => []CompletedNamesItsReply
<1>1. ReplyInvariant => CompletedNamesItsReply
  <2> SUFFICES ASSUME ReplyInvariant, NEW k \in Keys, op[k].status = "completed"
               PROVE  LET r == op[k].resultingCommentId
                      IN  /\ r \in Requests /\ r = op[k].id /\ r = op[k].externalReplyId
                          /\ wire[r] = "published" /\ comments[r] # "absent"
    BY DEF CompletedNamesItsReply
  <2>1. RowIsCoherent(k)
    BY DEF ReplyInvariant
  <2>2. QED
    BY <2>1, NoneIsNoRequest DEF RowIsCoherent
<1>2. QED
  BY <1>1, InvariantHolds, PTL

\* Whoever is answered with a reply gets the one reply of the key, made from
\* the content it sent.
THEOREM AnswersAgree == Spec => []AnsweredReplyIsTheKeys
<1>1. ReplyInvariant => AnsweredReplyIsTheKeys
  <2> SUFFICES ASSUME ReplyInvariant, NEW r \in Requests, Answered(r, "reply")
               PROVE  /\ RowOf(r).status = "completed"
                      /\ RowOf(r).resultingCommentId = outcome[r].comment
                      /\ ContentOf[outcome[r].comment] = ContentOf[r]
    BY DEF AnsweredReplyIsTheKeys
  <2>1. AnswerIsBacked(r) /\ RowIsCoherent(KeyOf[r])
    BY KeyOfAssumption DEF ReplyInvariant
  <2>2. QED
    BY <2>1 DEF AnswerIsBacked, RowIsCoherent, RowOf
<1>2. QED
  BY <1>1, InvariantHolds, PTL

\* A client is invited to use a new key only for one that an earlier release
\* failed, and under which no request of today sends anything.
THEOREM InvitesAreEarlier == Spec => []InvitesAreOfEarlierReleases
<1>1. ReplyInvariant => InvitesAreOfEarlierReleases
  <2> SUFFICES ASSUME ReplyInvariant, NEW r \in Requests, NEW s \in Requests,
                      Answered(r, "key_failed"), KeyOf[s] = KeyOf[r]
               PROVE  FailedEarlier(KeyOf[r]) /\ wire[s] = "unsent"
    BY DEF InvitesAreOfEarlierReleases
  <2>1. AnswerIsBacked(r) /\ RowIsCoherent(KeyOf[r]) /\ WorkIsOwned(s)
    BY KeyOfAssumption DEF ReplyInvariant
  <2>2. QED
    BY <2>1, NoneIsNoRequest DEF AnswerIsBacked, RowIsCoherent, WorkIsOwned, RowOf, FailedEarlier
<1>2. QED
  BY <1>1, InvariantHolds, PTL

\* A reply that may be visible at the platform has a row of its own request
\* that does not deny it.
THEOREM NothingOffTheRecord == Spec => []PublishedIsOnRecord
<1>1. ReplyInvariant => PublishedIsOnRecord
  <2> SUFFICES ASSUME ReplyInvariant, NEW r \in Requests, wire[r] # "unsent"
               PROVE  RowOf(r).id = r /\ RowOf(r).status \in {"pending", "unknown", "completed"}
    BY DEF PublishedIsOnRecord
  <2>1. RowIsCoherent(KeyOf[r]) /\ WorkIsOwned(r)
    BY KeyOfAssumption DEF ReplyInvariant
  <2>2. RowOf(r) \in OperationRows
    BY RowOfType DEF ReplyInvariant
  <2>3. QED
    BY <2>1, <2>2, NoneIsNoRequest
       DEF RowIsCoherent, WorkIsOwned, RowOf, NoRow, OperationRows, Statuses
<1>2. QED
  BY <1>1, InvariantHolds, PTL

\* What a row says of an outcome stands.
THEOREM OutcomesAreFinal == Spec => OutcomesStand
<1> DEFINE Stands == \A k \in Keys :
         /\ op[k].status \in {"completed", "failed"} => op'[k] = op[k]
         /\ op[k].status = "unknown" => op'[k].status \in {"unknown", "completed"}
         /\ op[k].externalReplyId # None => op'[k].externalReplyId = op[k].externalReplyId
<1>1. ReplyInvariant /\ [Next]_vars => [Stands]_vars
  BY StepsAreSound DEF Sound, Advances
<1>2. QED
  BY <1>1, InvariantHolds, PTL DEF Spec, OutcomesStand

\* A request that gives an operation up has seen its lease over, and a lease
\* that is over stays over.
ExpireIsLate == \A r \in Requests : pc[r] = "expire" => expired[KeyOf[r]]

\* Every step keeps it.
LEMMA ExpireIsLateKept ==
    ASSUME TypeOK, ExpireIsLate, [Next]_vars PROVE ExpireIsLate'
<1>1. ASSUME NEW r \in Requests, Step(r) PROVE ExpireIsLate'
  <2>1. expired' = expired
    BY <1>1 DEF Step, SendReply, PublishSucceeds, ConsultLease, PublishFails, FindOperation,
       Preflight, Claim, RecordFailure, RecordPublished, StorePublishedReply, MarkOrphaned,
       Complete, FetchReply, LookupReply, Reconcile, GiveUp
  <2>2. \A s \in Requests \ {r} : pc'[s] = pc[s]
    BY <1>1 DEF TypeOK, Step, SendReply, PublishSucceeds, ConsultLease, PublishFails,
       FindOperation, Preflight, Claim, RecordFailure, RecordPublished, StorePublishedReply,
       MarkOrphaned, Complete, FetchReply, LookupReply, Reconcile, GiveUp, Goto, AnswerWith,
       Answer, InternalError, Replay, NoReplay, CompleteWith
  <2>3. pc'[r] = "expire" => LeaseGone(r)
    BY <1>1 DEF TypeOK, Step, SendReply, PublishSucceeds, ConsultLease, PublishFails,
       FindOperation, Preflight, Claim, RecordFailure, RecordPublished, StorePublishedReply,
       MarkOrphaned, Complete, FetchReply, LookupReply, Reconcile, GiveUp, Goto, AnswerWith,
       Answer, InternalError, Replay, NoReplay, CompleteWith
  <2>4. QED
    BY <2>1, <2>2, <2>3 DEF ExpireIsLate, LeaseGone
<1>2. ASSUME NEW k \in Keys, LeaseExpires(k) PROVE ExpireIsLate'
  BY <1>2 DEF LeaseExpires, ExpireIsLate, TypeOK
<1>3. ASSUME NEW r \in Requests, Begin(r) \/ PlatformReceives(r) \/ Crash(r) \/ Hydrate(r)
      PROVE  ExpireIsLate'
  BY <1>3 DEF Begin, PlatformReceives, Crash, Hydrate, Goto, ExpireIsLate, TypeOK
<1>4. QED
  BY <1>1, <1>2, <1>3 DEF Next, Finished, vars, ExpireIsLate

\* No retry writes an operation off before its lease is over.
THEOREM LeasesAreHonoured == Spec => LeasedRowNotWrittenOff
<1> DEFINE Honoured == \A k \in Keys :
         op[k].status = "pending" /\ op'[k].status = "unknown" /\ ~expired[k]
           => \E r \in Requests : op[k].id = r /\ pc[r] \in Working /\ pc'[r] # pc[r]
<1>1. Init => ExpireIsLate
  BY DEF Init, ExpireIsLate
<1>2. ReplyInvariant /\ ExpireIsLate /\ [Next]_vars => ExpireIsLate'
  BY ExpireIsLateKept DEF ReplyInvariant
<1>3. ReplyInvariant /\ ExpireIsLate /\ [Next]_vars => [Honoured]_vars
  <2> SUFFICES ASSUME ReplyInvariant, ExpireIsLate, Next, NEW k \in Keys,
                      op[k].status = "pending", op'[k].status = "unknown", ~expired[k]
               PROVE  \E r \in Requests : op[k].id = r /\ pc[r] \in Working /\ pc'[r] # pc[r]
    BY DEF Next, Finished
  <2>1. TypeOK /\ op' # op
    BY DEF ReplyInvariant
  <2>2. PICK r \in Requests : Step(r)
    BY <2>1 DEF Next, Finished, vars, Begin, PlatformReceives, Crash, Hydrate, LeaseExpires
  <2>3. WorkIsOwned(r) /\ KeyOf[r] \in Keys /\ RowOf(r) \in OperationRows
    BY KeyOfAssumption, RowOfType DEF ReplyInvariant
  <2>4. PICK out \in DbOutcomes :
           \/ Claim(r, out) \/ RecordFailure(r, out) \/ RecordPublished(r, out)
           \/ MarkOrphaned(r, out) \/ Complete(r, out) \/ Reconcile(r, out) \/ GiveUp(r, out)
    BY <2>1, <2>2 DEF Step, SendReply, PublishSucceeds, ConsultLease, PublishFails,
       FindOperation, Preflight, StorePublishedReply, FetchReply, LookupReply
  <2>5. CASE Claim(r, out)
    BY <2>1, <2>3, <2>5 DEF Claim, WriteRow, ClaimedRow, TypeOK
  <2>6. CASE RecordPublished(r, out)
    BY <2>1, <2>3, <2>6 DEF RecordPublished, WriteRow, AnnotatedRow, Annotatable, RowOf, TypeOK,
       OperationRows
  <2>7. CASE Complete(r, out) \/ Reconcile(r, out)
    <3>1. PICK comment : op' = op \/ op' = [op EXCEPT ![KeyOf[r]] = CompletedRow(RowOf(r), comment)]
      BY <2>7 DEF Complete, Reconcile, CompleteWith, WriteRow
    <3>2. CompletedRow(RowOf(r), comment).status = "completed"
      BY <2>3 DEF CompletedRow, OperationRows
    <3>3. op'[k].status \in {op[k].status, "completed"}
      BY <2>1, <2>3, <3>1, <3>2 DEF TypeOK
    <3>4. QED
      BY <3>3
  <2>8. CASE GiveUp(r, out)
    BY <2>1, <2>3, <2>8 DEF GiveUp, WriteRow, ExpireIsLate, TypeOK
  <2>9. CASE RecordFailure(r, out) \/ MarkOrphaned(r, out)
    <3>1. pc[r] \in Working /\ pc'[r] = "answered"
      BY <2>1, <2>9 DEF RecordFailure, MarkOrphaned, Answer, AnswerWith, InternalError,
         Working, TypeOK
    <3>2. KeyOf[r] = k
      BY <2>1, <2>9 DEF RecordFailure, MarkOrphaned, WriteRow, TypeOK
    <3>3. op[k].id = r /\ pc[r] # "answered"
      BY <2>3, <3>1, <3>2 DEF WorkIsOwned, RowOf, Working
    <3>4. QED
      BY <3>1, <3>3
  <2>10. QED
    BY <2>4, <2>5, <2>6, <2>7, <2>8, <2>9
<1>4. QED
  BY <1>1, <1>2, <1>3, InvariantHolds, PTL DEF Spec, LeasedRowNotWrittenOff
=============================================================================
