---------------------------- MODULE RequestCalls ----------------------------
(***************************************************************************)
(* The requests of one process as sequences of database calls and calls to *)
(* the platform: what they hold while they wait, how long they may take,   *)
(* and what becomes of them when the process is told to stop.              *)
(*                                                                         *)
(* A client may go away, or be cut off by the server's request timeout.    *)
(* Its handler is not stopped, and goes on with nobody to answer.          *)
(***************************************************************************)
EXTENDS TenantTransaction, ProviderCall

CONSTANT Program    \* per request, "reply" or "read"

ASSUME ProgramAssumption ==
    /\ Program \in [Requests -> {"reply", "read"}]
    /\ Callers = Requests
    /\ CallNames = {"claim", "record", "store", "complete", "settle", "find", "upsert", "save"}

VARIABLES
    at,              \* per request, the call it is making
    abandoned,       \* the requests under way whose client is gone
    leased,          \* per reply, the time since it took its lease, at most
    closing          \* application.close() was called

requestVars == <<at, abandoned, leased, closing>>
vars == <<txVars, providerVars, requestVars>>

ProviderCalls == {"publish", "fetch"}
Stages == CallNames \union ProviderCalls \union {"idle", "ended"}

Init ==
    /\ TxInit /\ ProviderInit
    /\ at = [r \in Requests |-> "idle"]
    /\ abandoned = {}
    /\ leased = [r \in Requests |-> 0]
    /\ closing = FALSE

-----------------------------------------------------------------------------
(***************************************************************************)
(* The handlers.                                                           *)
(***************************************************************************)
FirstCall(r) == IF Program[r] = "reply" THEN "claim" ELSE "find"

\* replyToComment from its claim on; a read that hydrates one page.
AfterSuccess(call) ==
    CASE call = "claim"   -> "publish"
      [] call = "publish" -> "record"
      [] call = "record"  -> "store"
      [] call = "store"   -> "complete"
      [] call = "find"    -> "fetch"
      [] call = "fetch"   -> "upsert"
      [] call = "upsert"  -> "save"
      [] OTHER            -> "ended"

\* A reply whose fate is in doubt is marked so.
AfterFailureInsists(call) ==                                       \* mutant
    IF call \in {"publish", "record", "store", "settle"} THEN "settle" ELSE "ended"
AfterFailure(call) == IF call \in {"publish", "record", "store"} THEN "settle" ELSE "ended"

\* The handler runs up to its next call.
GoOn(r, next) ==
    /\ at' = [at EXCEPT ![r] = next]
    /\ abandoned' = IF next = "ended" THEN abandoned \ {r} ELSE abandoned
    /\ IF next \in CallNames THEN Enter(r, next)
       ELSE tx' = [tx EXCEPT ![r] = NoTx] /\ UNCHANGED <<conn, fate, committed, ended, faults>>
    /\ IF next \in ProviderCalls THEN StartCall(r, IF next = "publish" THEN "write" ELSE "read")
       ELSE calling' = [calling EXCEPT ![r] = NoCallUnderWay] /\ UNCHANGED sent
    /\ UNCHANGED closing

\* Nothing is accepted once the server is closing.
Begin(r) ==
    /\ at[r] = "idle"
    /\ ~closing
    /\ GoOn(r, FirstCall(r))
    /\ UNCHANGED leased

\* The lease is taken when the claim is sent.
Continue(r, succeeded, took) ==
    /\ GoOn(r, IF succeeded THEN AfterSuccess(at[r]) ELSE AfterFailure(at[r]))
    /\ leased' = [leased EXCEPT ![r] = IF Program[r] = "reply" THEN @ + took ELSE @]

DatabaseCallReturns(r) ==
    /\ at[r] \in CallNames
    /\ tx[r].step = "none"
    /\ Continue(r, fate[<<r, at[r]>>] = "acknowledged", tx[r].spent)

ProviderCallReturns(r) ==
    /\ at[r] \in ProviderCalls
    /\ calling[r].step \in {"answered", "failed"}
    /\ Continue(r, calling[r].step = "answered", calling[r].took)

InTransactionStep(r) ==
    /\ at[r] \in CallNames
    /\ CallStep(r)
    /\ UNCHANGED <<providerVars, requestVars>>

AtProviderStep(r) ==
    /\ at[r] \in ProviderCalls
    /\ ProviderStep(r)
    /\ UNCHANGED <<txVars, requestVars>>

Step(r) ==
    \/ Begin(r) \/ DatabaseCallReturns(r) \/ ProviderCallReturns(r)
    \/ InTransactionStep(r) \/ AtProviderStep(r)

-----------------------------------------------------------------------------
(***************************************************************************)
(* Clients, the server and the process.                                    *)
(***************************************************************************)
Active(r) == at[r] \notin {"idle", "ended"}

\* Whether a client is there makes no difference before the server is closing.
ClientGoes(r) ==
    /\ closing
    /\ Active(r) /\ r \notin abandoned
    /\ abandoned' = abandoned \union {r}
    /\ UNCHANGED <<txVars, providerVars, at, leased, closing>>

\* SIGTERM.
Shutdown ==
    /\ ~closing
    /\ closing' = TRUE
    /\ UNCHANGED <<txVars, providerVars, at, abandoned, leased>>

\* application.close() waits for the connections that have a request under way.
ServerDoesNotWait == TRUE                                          \* mutant
ServerMayClose == \A r \in Requests : Active(r) => r \in abandoned

\* Once the server is closed, the pool is ended.
DatabaseCloses ==
    /\ closing /\ ServerMayClose
    /\ EndPool
    /\ UNCHANGED <<providerVars, requestVars>>

ServerEnds(k) ==
    /\ \E how \in {"done", "error", "lost"} : LateEnds(k, how)
    /\ UNCHANGED <<providerVars, requestVars>>

Finished == ended /\ (\A r \in Requests : ~Active(r)) /\ UNCHANGED vars

Next ==
    \/ \E r \in Requests : Step(r) \/ ClientGoes(r)
    \/ \E k \in Connections : ServerEnds(k)
    \/ Shutdown \/ DatabaseCloses
    \/ Finished

Spec == Init /\ [][Next]_vars

\* Every wait of a handler has a time limit, and the server, once told to, closes
\* as soon as it may.
FairSpec ==
    /\ Spec
    /\ \A r \in Requests : WF_vars(Step(r))
    /\ WF_vars(DatabaseCloses)

-----------------------------------------------------------------------------
(***************************************************************************)
(* Properties                                                              *)
(***************************************************************************)
\* Types of the variables.
TypeOK ==
    /\ conn \in [Connections ->
          [owner : Requests \union {None}, alive : BOOLEAN,
           session : {"clean", "open", "aborted"},
           tenant : {TenantOf[r] : r \in Requests} \union {None},
           writes : SUBSET Calls,
           late : [kind : InTransaction, call : Calls] \union {None}]]
    /\ tx \in [Requests ->
          [step : InTransaction \union {"none", "connect"}, name : CallNames \union {None},
           left : Nat, asked : BOOLEAN, spent : Nat]]
    /\ fate \in [Calls -> {"none", "acknowledged", "failed", "doubtful"}]
    /\ committed \subseteq Calls
    /\ ended \in BOOLEAN
    /\ faults \in 0 .. MaxFaults
    /\ calling \in [Requests ->
          [step : {"none", "attempt", "sleep", "answered", "failed"}, policy : Policies,
           attempt : 0 .. MaxAttempts, took : Nat]]
    /\ sent \in [Requests -> 0 .. MaxAttempts]
    /\ at \in [Requests -> Stages]
    /\ abandoned \subseteq Requests
    /\ leased \in [Requests -> Nat]
    /\ closing \in BOOLEAN

\* A statement of a handler only ever runs in a transaction scoped to the
\* handler's own tenant, whatever an earlier holder of the connection left
\* behind on it, an unanswered rollback included (withTenant's set_config).
StatementsRunAsTheirTenant ==
    \A r \in Requests : tx[r].step \in {"work", "commit"} =>
        LET k == ConnectionOf(r)
        IN  conn[k].session = "open" => conn[k].tenant = TenantOf[r]

\* A connection belongs to one transaction at a time and is given back on every
\* way out of it: no request holds one while it is at the platform, or after.
ConnectionsAreReturned ==
    /\ \A k \in Connections :
         conn[k].owner # None => tx[conn[k].owner].step \in InTransaction
    /\ \A r \in Requests : tx[r].step \in InTransaction =>
         \E k \in Connections : \A j \in Connections : conn[j].owner = r <=> j = k

\* What a handler learns of a call is true: one that is acknowledged is
\* committed, and one whose failure was settled by an answered rollback is not,
\* and never will be by what it left on the connection.
AnswersMatchTheDatabase ==
    \A c \in Calls :
        /\ fate[c] = "acknowledged" => c \in committed
        /\ fate[c] = "failed" => c \notin committed

\* A reply is sent to the platform only once its claim is committed, and at most
\* once: no failure, a rate limit included, makes callProvider replay a write.
PublishedOnceUnderItsClaim ==
    \A r \in Requests : Program[r] = "reply" /\ sent[r] > 0 =>
        sent[r] = 1 /\ <<r, "claim">> \in committed

\* A read of the platform ends within what its policy allows: so many attempts of
\* limited length, and delays no longer than the longest, whatever the
\* platform asks for.
ReadsKeepToTheirBudget ==
    \A r \in Requests :
        calling[r].took <= MaxAttempts * ProviderTimeout + (MaxAttempts - 1) * MaxDelay

\* A database call is refused, or left in doubt, for one of three reasons: the
\* database or the network has failed somebody; the pool was ended, which no
\* client is there to see; or other requests hold all the connections.  As long
\* as the database works, shutting down fails no request that has a client
\* (application.close before database.close), and nothing that an earlier
\* transaction leaves behind on a connection fails a later one.
CallsFailForAReason ==
    [][\A r \in Requests, name \in CallNames :
         /\ fate'[<<r, name>>] # fate[<<r, name>>]
         /\ fate'[<<r, name>>] \in {"failed", "doubtful"}
         => \/ faults > 0
            \/ ended /\ r \in abandoned
            \/ \A k \in Connections : conn[k].owner \notin {None, r}]_vars

\* A process that is told to stop comes to rest: every handler ends, those with
\* nobody to answer included, although the pool may be gone before them.
ShutdownEnds == closing ~> (ended /\ \A r \in Requests : ~Active(r))
=============================================================================
