------------------------ MODULE ReplyContractProofs ------------------------
(***************************************************************************)
(* The reply handlers implement ReplyContract: every step of theirs is a   *)
(* step of the contract or changes nothing the contract speaks of.         *)
(***************************************************************************)
EXTENDS ReplyOperationsProofs

\* A handler writes no row but its own key's.
LEMMA OnlyOwnRow ==
    ASSUME TypeOK, NEW r \in Requests, Step(r), NEW k \in Keys, k # KeyOf[r]
    PROVE  op'[k] = op[k]
BY KeyOfAssumption
   DEF TypeOK, Step, SendReply, PublishSucceeds, ConsultLease, PublishFails, FindOperation,
       Preflight, Claim, RecordFailure, RecordPublished, StorePublishedReply, MarkOrphaned,
       Complete, FetchReply, LookupReply, Reconcile, GiveUp, CompleteWith, WriteRow

\* A handler that has not answered yet moves itself and nobody else, and the
\* platform's replies stay as they are.
LEMMA OnlyOwnAnswer ==
    ASSUME TypeOK, NEW r \in Requests, Step(r)
    PROVE  /\ pc[r] # "answered"
           /\ \A s \in Requests \ {r} : pc'[s] = pc[s] /\ outcome'[s] = outcome[s]
<1>1. pc[r] # "answered"
  BY DEF Step, SendReply, PublishSucceeds, ConsultLease, PublishFails, FindOperation,
         Preflight, Claim, RecordFailure, RecordPublished, StorePublishedReply, MarkOrphaned,
         Complete, FetchReply, LookupReply, Reconcile, GiveUp
<1>2. CASE \E code \in FailureCodes : PublishFails(r, code)
  BY <1>1, <1>2 DEF PublishFails, TypeOK
<1>3. CASE (\E l : Goto(r, l)) \/ (\E kind, c : AnswerWith(r, kind, c))
  BY <1>1, <1>3 DEF Goto, AnswerWith, TypeOK
<1>4. QED
  BY <1>2, <1>3
     DEF Step, SendReply, PublishSucceeds, ConsultLease, FindOperation,
         Preflight, Claim, RecordFailure, RecordPublished, StorePublishedReply, MarkOrphaned,
         Complete, FetchReply, LookupReply, Reconcile, GiveUp, CompleteWith, NoReplay, Replay,
         Answer, InternalError

\* A handler's step does not change what the platform shows.
LEMMA PlatformUnmoved ==
    ASSUME TypeOK, NEW r \in Requests, Step(r), WorkIsOwned(r)
    PROVE  \A s \in Requests : wire'[s] = "published" <=> wire[s] = "published"
<1>1. CASE SendReply(r)
  BY <1>1 DEF SendReply, WorkIsOwned, TypeOK
<1>2. CASE wire' = wire
  BY <1>2
<1>3. QED
  BY <1>1, <1>2
     DEF Step, PublishSucceeds, ConsultLease, PublishFails, FindOperation,
         Preflight, Claim, RecordFailure, RecordPublished, StorePublishedReply, MarkOrphaned,
         Complete, FetchReply, LookupReply, Reconcile, GiveUp

\* Whoever completes a row does not say that its outcome is unknown.
LEMMA CompletersKnow ==
    ASSUME TypeOK, NEW r \in Requests, Step(r),
           RowOf(r).status # "completed", RowOf(r)'.status = "completed"
    PROVE  ~Answered(r, "unknown")'
<1>1. KeyOf[r] \in Keys /\ RowOf(r) \in OperationRows
  BY KeyOfAssumption, RowOfType
<1>2. ASSUME op' = op PROVE FALSE
  BY <1>2 DEF RowOf
<1>3. ASSUME NEW out, WriteRow(r, UnknownRow(RowOf(r)), out) PROVE FALSE
  BY <1>1, <1>3 DEF WriteRow, UnknownRow, RowOf, TypeOK, OperationRows
<1>4. ASSUME NEW out, NEW c, CompleteWith(r, c, out) PROVE ~Answered(r, "unknown")'
  BY <1>4 DEF CompleteWith, InternalError, Answer, AnswerWith, Answered, TypeOK
<1>5. ASSUME NEW out, Claim(r, out) PROVE FALSE
  BY <1>1, <1>2, <1>5 DEF Claim, WriteRow, ClaimedRow, RowOf, TypeOK
<1>6. ASSUME NEW out, RecordPublished(r, out) PROVE FALSE
  BY <1>1, <1>2, <1>6 DEF RecordPublished, WriteRow, AnnotatedRow, RowOf, TypeOK, OperationRows
<1>7. QED
  BY <1>2, <1>3, <1>4, <1>5, <1>6, NothingProvesRejection
     DEF Step, SendReply, PublishSucceeds, ConsultLease, PublishFails, FindOperation,
         Preflight, RecordFailure, StorePublishedReply, MarkOrphaned,
         Complete, FetchReply, LookupReply, Reconcile, GiveUp

-----------------------------------------------------------------------------
\* What one request's answer adds to the verdicts given for the keys.
LEMMA ToldAfter ==
    ASSUME NEW r \in Requests, KeyOf[r] \in Keys, pc[r] # "answered",
           \A s \in Requests \ {r} : pc'[s] = pc[s] /\ outcome'[s] = outcome[s]
    PROVE  \/ /\ keyTold' = keyTold
              /\ \A v \in {"reply", "unknown", "key_failed"} : ~Answered(r, v)'
           \/ \E v \in {"reply", "unknown", "key_failed"} :
                /\ Answered(r, v)'
                /\ keyTold' = [keyTold EXCEPT ![KeyOf[r]] = @ \union {v}]
<1> DEFINE V == {"reply", "unknown", "key_failed"}
           T(k) == {v \in V : \E s \in Requests : KeyOf[s] = k /\ Answered(s, v)}
<1>1. \A s \in Requests \ {r}, v \in V : Answered(s, v)' <=> Answered(s, v)
  BY DEF Answered
<1>2. \A v \in V : ~Answered(r, v)
  BY DEF Answered
<1>3. keyTold = [k \in Keys |-> T(k)] /\ keyTold' = [k \in Keys |-> T(k)']
  BY DEF keyTold
<1>4. CASE \A v \in V : ~Answered(r, v)'
  <2>1. \A k \in Keys : T(k)' = T(k)
    BY <1>1, <1>2, <1>4
  <2>2. QED
    BY <1>3, <1>4, <2>1
<1>5. CASE \E v \in V : Answered(r, v)'
  <2>1. PICK v \in V : Answered(r, v)'
    BY <1>5
  <2>2. \A w \in V : Answered(r, w)' => w = v
    BY <2>1 DEF Answered
  <2>3. \A k \in Keys : T(k)' = IF k = KeyOf[r] THEN T(k) \union {v} ELSE T(k)
    BY <1>1, <1>2, <2>1, <2>2
  <2> HIDE DEF T
  <2>4. keyTold' = [keyTold EXCEPT ![KeyOf[r]] = @ \union {v}]
    BY <1>3, <2>3
  <2>5. QED
    BY <2>1, <2>4
<1>6. QED
  BY <1>4, <1>5

\* A handler's step is a step of the contract on its key, or nothing.
LEMMA StepRefines ==
    ASSUME ReplyInvariant, NEW r \in Requests, Step(r)
    PROVE  [Contract!ContractNext]_Contract!contractVars
<1> DEFINE k == KeyOf[r]
<1>1. k \in Keys /\ TypeOK /\ WorkIsOwned(r)
  BY KeyOfAssumption DEF ReplyInvariant
<1>2. ReplyInvariant' /\ Advances(k)
  BY <1>1, StepsAreSound DEF Sound, Next
<1>3. AnswerIsBacked(r)' /\ RowIsCoherent(k)' /\ TypeOK'
  BY <1>1, <1>2 DEF ReplyInvariant
<1>4. op[k] \in OperationRows /\ op'[k] \in OperationRows
  BY <1>1, <1>3 DEF TypeOK
<1>6. \A j \in Keys : j # k => op'[j] = op[j]
  BY <1>1, OnlyOwnRow
<1>5. keyPosted' = keyPosted
  <2>1. \A j \in Keys : PostedToday(j)' = PostedToday(j)
    BY <1>1, PlatformUnmoved DEF PostedToday
  <2>2. FailedEarlier(k)' <=> FailedEarlier(k)
    BY <1>2, <1>3, <1>4 DEF Advances, FailedEarlier, OperationRows, Statuses
  <2>3. \A j \in Keys : PostedEarlier(j)' = PostedEarlier(j)
    BY <1>6, <2>2 DEF PostedEarlier, FailedEarlier
  <2>4. QED
    BY <2>1, <2>3 DEF keyPosted
<1>7. keyPhase' = [keyPhase EXCEPT ![k] = PhaseOf(op'[k].status)]
  BY <1>1, <1>6 DEF keyPhase
<1>8. \/ /\ keyTold' = keyTold
         /\ \A v \in {"reply", "unknown", "key_failed"} : ~Answered(r, v)'
      \/ \E v \in {"reply", "unknown", "key_failed"} :
           /\ Answered(r, v)'
           /\ keyTold' = [keyTold EXCEPT ![k] = @ \union {v}]
  BY <1>1, OnlyOwnAnswer, ToldAfter
<1>9. RowOf(r) = op[k] /\ RowOf(r)' = op'[k] /\ keyPhase[k] = PhaseOf(op[k].status)
  BY <1>1 DEF RowOf, keyPhase
<1> HIDE DEF k
<1>10. CASE op'[k].status = op[k].status
  <2>1. keyPhase' = keyPhase
    BY <1>7, <1>9, <1>10 DEF keyPhase
  <2>2. CASE keyTold' = keyTold
    BY <1>5, <2>1, <2>2 DEF Contract!contractVars
  <2>3. ASSUME NEW v \in {"reply", "unknown", "key_failed"}, Answered(r, v)',
               keyTold' = [keyTold EXCEPT ![k] = @ \union {v}]
        PROVE  Contract!Tell(k, v)
    BY <1>3, <1>5, <1>9, <1>10, <2>1, <2>3 DEF AnswerIsBacked, PhaseOf, Contract!Tell
  <2>4. QED
    BY <1>1, <1>8, <2>2, <2>3 DEF Contract!ContractNext, Contract!Verdicts
<1>11. CASE op[k].status = "absent" /\ op'[k].status = "pending"
  <2>1. keyTold' = keyTold
    BY <1>3, <1>8, <1>9, <1>11 DEF AnswerIsBacked
  <2>2. Contract!Open(k)
    BY <1>5, <1>7, <1>9, <1>11, <2>1 DEF PhaseOf, Contract!Open, Contract!Enter
  <2>3. QED
    BY <1>1, <2>2 DEF Contract!ContractNext
<1>12. CASE op[k].status = "pending" /\ op'[k].status = "unknown"
  <2>1. Contract!MayTell(k, "unknown")
    BY <1>3, <1>8, <1>9, <1>12 DEF AnswerIsBacked, Contract!MayTell
  <2>2. Contract!WriteOff(k)
    BY <1>5, <1>7, <1>9, <1>12, <2>1 DEF PhaseOf, Contract!WriteOff, Contract!Enter
  <2>3. QED
    BY <1>1, <2>2 DEF Contract!ContractNext
<1>13. CASE op[k].status \in {"pending", "unknown"} /\ op'[k].status = "completed"
  <2>1. ~Answered(r, "unknown")'
    BY <1>1, <1>9, <1>13, CompletersKnow
  <2>2. Contract!MayTell(k, "reply")
    BY <1>3, <1>8, <1>9, <1>13, <2>1 DEF AnswerIsBacked, Contract!MayTell
  <2>3. op'[k].id \in Requests /\ KeyOf[op'[k].id] = k /\ wire'[op'[k].id] = "published"
    BY <1>3, <1>13, NoneIsNoRequest DEF RowIsCoherent
  <2>4. keyPosted[k] # {}
    <3>1. op'[k].id \in keyPosted'[k]
      BY <1>1, <2>3 DEF keyPosted, PostedToday
    <3>2. QED
      BY <1>5, <3>1
  <2>5. Contract!Resolve(k)
    BY <1>5, <1>7, <1>9, <1>13, <2>2, <2>4 DEF PhaseOf, Contract!Resolve, Contract!Enter
  <2>6. QED
    BY <1>1, <2>5 DEF Contract!ContractNext
<1>14. QED
  <2>1. op[k].status \in {"absent", "pending", "completed", "failed", "unknown"}
    BY <1>4 DEF OperationRows, Statuses
  <2>2. QED
    BY <1>2, <1>10, <1>11, <1>12, <1>13, <2>1 DEF Advances

\* The platform accepting a reply posts the only reply of its key.
LEMMA PlatformRefines ==
    ASSUME ReplyInvariant, NEW r \in Requests, PlatformReceives(r)
    PROVE  [Contract!ContractNext]_Contract!contractVars
<1> DEFINE k == KeyOf[r]
<1>1. k \in Keys /\ TypeOK /\ WorkIsOwned(r) /\ RowIsCoherent(k) /\ op[k] \in OperationRows
  BY KeyOfAssumption DEF ReplyInvariant, TypeOK
<1>2. keyPhase' = keyPhase /\ keyTold' = keyTold
  BY DEF PlatformReceives, keyPhase, keyTold, Answered
<1>3. wire[r] = "sent" /\ op[k].id = r
  BY <1>1 DEF PlatformReceives, WorkIsOwned, RowOf
<1>4. \A s \in Requests : KeyOf[s] = k /\ wire[s] # "unsent" => s = r
  <2>1. \A s \in Requests : WorkIsOwned(s)
    BY DEF ReplyInvariant
  <2>2. QED
    BY <1>3, <2>1 DEF WorkIsOwned, RowOf
<1>5. CASE wire' = [wire EXCEPT ![r] = "published"]
  <2>1. op[k].status \in {"pending", "unknown"}
    BY <1>1, <1>3, NoneIsNoRequest DEF RowIsCoherent, NoRow, OperationRows, Statuses
  <2>2. keyPhase[k] \in {"open", "uncertain"}
    BY <1>1, <2>1 DEF keyPhase, PhaseOf
  <2>3. keyPosted[k] = {}
    BY <1>1, <1>3, <1>4, <2>1 DEF keyPosted, PostedToday, PostedEarlier, FailedEarlier
  <2>4. keyPosted' = [keyPosted EXCEPT ![k] = {r}]
    <3>1. \A s \in Requests : wire'[s] = IF s = r THEN "published" ELSE wire[s]
      BY <1>1, <1>5 DEF TypeOK
    <3>2. \A j \in Keys : PostedToday(j)' = IF j = k THEN {r} ELSE PostedToday(j)
      BY <1>3, <1>4, <3>1 DEF PostedToday
    <3>3. PostedEarlier(k) = {} /\ \A j \in Keys : PostedEarlier(j)' = PostedEarlier(j)
      BY <2>1 DEF PlatformReceives, PostedEarlier, FailedEarlier
    <3>4. QED
      BY <1>1, <3>2, <3>3 DEF keyPosted
  <2>5. Contract!Post(k)
    BY <1>2, <2>2, <2>3, <2>4 DEF Contract!Post
  <2>6. QED
    BY <1>1, <2>5 DEF Contract!ContractNext
<1>6. CASE wire' = [wire EXCEPT ![r] = "lost"]
  <2>1. keyPosted' = keyPosted
    BY <1>1, <1>3, <1>6 DEF PlatformReceives, keyPosted, PostedToday, PostedEarlier, FailedEarlier, TypeOK
  <2>2. QED
    BY <1>2, <2>1 DEF Contract!contractVars
<1>7. QED
  BY <1>5, <1>6 DEF PlatformReceives

\* Everything else is invisible to the contract.
LEMMA OthersStutter ==
    ASSUME ReplyInvariant,
           \/ \E r \in Requests : Begin(r) \/ Crash(r) \/ Hydrate(r)
           \/ \E k \in Keys : LeaseExpires(k)
           \/ UNCHANGED vars
    PROVE  UNCHANGED Contract!contractVars
<1>1. TypeOK
  BY DEF ReplyInvariant
<1>2. UNCHANGED <<op, wire>>
  BY DEF Begin, Crash, Hydrate, LeaseExpires, vars
<1>3. \A s \in Requests : \A v : Answered(s, v)' <=> Answered(s, v)
  BY <1>1 DEF Begin, Crash, Hydrate, LeaseExpires, vars, Goto, Answered, TypeOK, Running,
              Working, Resolving
<1>4. keyPhase' = keyPhase /\ keyPosted' = keyPosted
  BY <1>2 DEF keyPhase, keyPosted, PostedToday, PostedEarlier, FailedEarlier
<1>5. keyTold' = keyTold
  BY <1>3 DEF keyTold
<1>6. QED
  BY <1>4, <1>5 DEF Contract!contractVars

\* Initial states of the handlers are initial states of the contract.
LEMMA InitRefines == Init => Contract!ContractInit
<1> SUFFICES ASSUME Init PROVE Contract!ContractInit
  OBVIOUS
<1>1. keyPhase \in [Keys -> {"unused", "failed"}]
  <2>1. \A k \in Keys : op[k].status \in {"absent", "failed"}
    BY DEF Init, NoRow, LegacyFailedRow
  <2>2. QED
    BY <2>1 DEF keyPhase, PhaseOf
<1>2. /\ keyPosted \in [Keys -> {{}, {None}}]
      /\ \A k \in Keys : keyPhase[k] = "unused" => keyPosted[k] = {}
  <2>1. \A k \in Keys : PostedToday(k) = {}
    BY DEF Init, PostedToday
  <2>2. \A k \in Keys : PostedEarlier(k) \in {{}, {None}}
    BY DEF PostedEarlier
  <2>3. \A k \in Keys : keyPhase[k] = "unused" => PostedEarlier(k) = {}
    BY DEF keyPhase, PhaseOf, PostedEarlier, FailedEarlier
  <2>4. QED
    BY <2>1, <2>2, <2>3 DEF keyPosted
<1>3. keyTold = [k \in Keys |-> {}]
  BY DEF Init, keyTold, Answered
<1>4. QED
  BY <1>1, <1>2, <1>3 DEF Contract!ContractInit

\* The handlers implement the contract.
THEOREM ContractImplemented == Spec => ImplementsContract
<1>1. Init => Contract!ContractInit
  BY InitRefines
<1>2. ReplyInvariant /\ [Next]_vars => [Contract!ContractNext]_Contract!contractVars
  <2> SUFFICES ASSUME ReplyInvariant, [Next]_vars
               PROVE  [Contract!ContractNext]_Contract!contractVars
    OBVIOUS
  <2>1. QED
    BY StepRefines, PlatformRefines, OthersStutter DEF Next, Finished
<1>3. QED
  BY <1>1, <1>2, InvariantHolds, PTL DEF Spec, ImplementsContract, Contract!ContractSpec
=============================================================================
