------------------------- MODULE TenantTransaction -------------------------
(***************************************************************************)
(* PostgresDatabase.withTenant: a call takes a connection from the pool,   *)
(* runs begin, set_config, its statements and commit on it, rolls back on  *)
(* an error, and gives the connection back whatever happened.              *)
(*                                                                         *)
(* The server's side of a connection is external.  A statement that times  *)
(* out at the client may still be running at the server: the connection is *)
(* busy until it ends, and what is sent meanwhile waits and may time out   *)
(* without having been sent.                                               *)
(***************************************************************************)
EXTENDS Naturals, FiniteSets

CONSTANTS
    Requests, Connections,
    TenantOf,            \* the tenant of each request
    CallNames,           \* the database calls a request makes
    Statements,          \* per call, how many statements its callback runs
    ConnectionTimeout, QueryTimeout,   \* connectionTimeoutMillis, query_timeout
    MaxFaults,           \* bound: statements refused, given up on, or cut off
    None

ASSUME TenantAssumptions ==
    /\ None \notin Requests
    /\ None \notin {TenantOf[r] : r \in Requests}
    /\ Statements \in [CallNames -> Nat \ {0}]
    /\ ConnectionTimeout \in Nat /\ QueryTimeout \in Nat
    /\ MaxFaults \in Nat

Calls == Requests \X CallNames

VARIABLES
    conn,        \* per slot of the pool, its connection
    tx,          \* per request, the call it is in
    fate,        \* per call, what its caller knows of it
    committed,   \* the calls whose writes are committed
    ended,       \* pool.end() was called
    faults       \* how many faults there were

txVars == <<conn, tx, fate, committed, ended, faults>>

\* owner: who holds the connection.  session: the state of its transaction,
\* with app.account_id and the uncommitted writes.  late: the statement that
\* the client gave up on and the server has not finished.
Fresh == [owner |-> None, alive |-> TRUE, session |-> "clean", tenant |-> None,
          writes |-> {}, late |-> None]

NoTx == [step |-> "none", name |-> None, left |-> 0, asked |-> FALSE, spent |-> 0]

InTransaction == {"begin", "scope", "work", "commit", "rollback"}

TxInit ==
    /\ conn = [k \in Connections |-> Fresh]
    /\ tx = [r \in Requests |-> NoTx]
    /\ fate = [c \in Calls |-> "none"]
    /\ committed = {}
    /\ ended = FALSE
    /\ faults = 0

CallOf(r) == <<r, tx[r].name>>
ConnectionOf(r) == CHOOSE k \in Connections : conn[k].owner = r

-----------------------------------------------------------------------------
(***************************************************************************)
(* The server: what a statement does to the session of its connection.     *)
(***************************************************************************)
\* A transaction-local setting ends with its transaction.
Closed(k) == [k EXCEPT !.session = "clean", !.tenant = None, !.writes = {}]
Aborted(k) == [k EXCEPT !.session = IF @ = "clean" THEN "clean" ELSE "aborted"]
Dead(k) == [Closed(k) EXCEPT !.alive = FALSE, !.late = None]

\* begin inside a transaction only warns.
ExecutedScopedOnce(k, kind, call) ==                               \* mutant
    CASE kind = "begin" -> [k EXCEPT !.session = "open"]
      [] kind = "scope" -> [k EXCEPT !.tenant = IF @ = None THEN TenantOf[call[1]] ELSE @]
      [] kind = "work" -> [k EXCEPT !.writes = @ \union {call}]
      [] kind \in {"commit", "rollback"} -> Closed(k)
Executed(k, kind, call) ==
    CASE kind = "begin" -> [k EXCEPT !.session = "open"]
      [] kind = "scope" ->
           [k EXCEPT !.tenant = IF k.session = "open" THEN TenantOf[call[1]] ELSE None]
      [] kind = "work" -> [k EXCEPT !.writes = @ \union {call}]
      [] kind \in {"commit", "rollback"} -> Closed(k)

\* An aborted transaction accepts nothing but its end.
Accepts(k, kind) == k.session = "aborted" => kind \in {"commit", "rollback"}

\* What a statement that runs to its end commits.
Commits(k, kind) == IF kind = "commit" /\ k.session = "open" THEN k.writes ELSE {}

\* The statement the client gave up on ends: as it would have, cancelled by
\* statement_timeout, or with the connection.
LateEnds(k, how) ==
    /\ conn[k].late # None
    /\ LET kind == conn[k].late.kind
           call == conn[k].late.call
           idle == [conn[k] EXCEPT !.late = None]
       IN  CASE how = "done" ->
                  /\ Accepts(idle, kind)
                  /\ conn' = [conn EXCEPT ![k] = Executed(idle, kind, call)]
                  /\ committed' = committed \union Commits(idle, kind)
             [] how = "error" ->
                  /\ conn' = [conn EXCEPT ![k] = Aborted(idle)]
                  /\ UNCHANGED committed
             [] how = "lost" ->
                  /\ conn' = [conn EXCEPT ![k] = IF idle.owner = None THEN Fresh ELSE Dead(idle)]
                  /\ UNCHANGED committed
    /\ UNCHANGED <<tx, fate, ended, faults>>

-----------------------------------------------------------------------------
(***************************************************************************)
(* The client: withTenant.                                                 *)
(***************************************************************************)
Enter(r, name) ==
    /\ tx[r].step = "none"
    /\ tx' = [tx EXCEPT ![r] = [step |-> "connect", name |-> name, left |-> Statements[name],
                                asked |-> FALSE, spent |-> 0]]
    /\ UNCHANGED <<conn, fate, committed, ended, faults>>

\* spent is the time a call may take up to the answer it now waits for, each wait
\* at its limit.
Then(r, step, left, asked, time) ==
    tx' = [tx EXCEPT ![r].step = step, ![r].left = left, ![r].asked = asked,
                     ![r].spent = @ + time]

Leave(r, result) ==
    /\ tx' = [tx EXCEPT ![r].step = "none"]
    /\ fate' = [fate EXCEPT ![CallOf(r)] = result]

\* pool.connect(): a connection that is free.
Connect(r, k) ==
    /\ tx[r].step = "connect"
    /\ ~ended
    /\ conn[k].owner = None
    /\ conn' = [conn EXCEPT ![k].owner = r]
    /\ Then(r, "begin", tx[r].left, FALSE, ConnectionTimeout + QueryTimeout)
    /\ UNCHANGED <<fate, committed, ended, faults>>

\* None came free in time, or the pool is closed: nothing was begun.
ConnectFails(r) ==
    /\ tx[r].step = "connect"
    /\ \/ ended
       \/ \A k \in Connections : conn[k].owner # None
    /\ Leave(r, "failed")
    /\ UNCHANGED <<conn, committed, ended, faults>>

\* After a statement: the next one.
Following(r) ==
    CASE tx[r].step = "begin" -> "scope"
      [] tx[r].step = "scope" -> "work"
      [] tx[r].step = "work"  -> IF tx[r].left = 1 THEN "commit" ELSE "work"

Asks(r) == tx[r].asked \/ tx[r].step = "commit"

\* A connection that died is dropped from the pool when it is released.
Released(k) == IF k.alive THEN [k EXCEPT !.owner = None] ELSE Fresh

\* The statement is answered.
StatementDone(r) ==
    LET k == ConnectionOf(r)
        kind == tx[r].step
        after == Executed(conn[k], kind, CallOf(r))
    IN  /\ kind \in InTransaction
        /\ conn[k].alive /\ conn[k].late = None
        /\ Accepts(conn[k], kind)
        /\ committed' = committed \union Commits(conn[k], kind)
        /\ CASE kind = "commit" ->
                  /\ conn' = [conn EXCEPT ![k] = Released(after)]
                  /\ Leave(r, "acknowledged")
             [] kind = "rollback" ->
                  /\ conn' = [conn EXCEPT ![k] = Released(after)]
                  /\ Leave(r, IF tx[r].asked THEN "doubtful" ELSE "failed")
             [] OTHER ->
                  /\ conn' = [conn EXCEPT ![k] = after]
                  /\ Then(r, Following(r), IF kind = "work" THEN tx[r].left - 1 ELSE tx[r].left,
                          FALSE, QueryTimeout)
                  /\ UNCHANGED fate
        /\ UNCHANGED <<ended, faults>>

\* A statement fails: withTenant rolls back.
RollBackSwallowed(r, asked) ==                                     \* mutant
    /\ Then(r, IF tx[r].step = "work" THEN "commit" ELSE "rollback", 0, asked, QueryTimeout)
    /\ UNCHANGED <<fate, ended>>
RollBack(r, asked) ==
    /\ Then(r, "rollback", 0, asked, QueryTimeout)
    /\ UNCHANGED <<fate, ended>>

\* The rollback fails: the error is swallowed, and the connection released as
\* if nothing had happened.
GiveUpUnreleased(r, k) ==                                          \* mutant
    /\ Leave(r, "doubtful")
    /\ UNCHANGED <<conn, committed, ended>>
GiveUp(r, k) ==
    /\ conn' = [conn EXCEPT ![k] = Released(@)]
    /\ Leave(r, IF conn[k].alive \/ tx[r].asked THEN "doubtful" ELSE "failed")
    /\ UNCHANGED <<committed, ended>>

Fault == faults < MaxFaults /\ faults' = faults + 1

\* The server refuses the statement.
StatementFails(r) ==
    LET k == ConnectionOf(r)
        kind == tx[r].step
    IN  /\ kind \in InTransaction \ {"rollback"}
        /\ conn[k].alive /\ conn[k].late = None
        /\ IF Accepts(conn[k], kind) THEN Fault ELSE UNCHANGED faults
        /\ conn' = [conn EXCEPT ![k] = IF kind = "commit" THEN Closed(@) ELSE Aborted(@)]
        /\ RollBack(r, FALSE)
        /\ UNCHANGED committed

\* The client gives up on a statement the server is still at.
StatementLate(r) ==
    LET k == ConnectionOf(r)
        late == [kind |-> tx[r].step, call |-> CallOf(r)]
    IN  /\ tx[r].step \in InTransaction
        /\ conn[k].alive /\ conn[k].late = None
        /\ Fault
        /\ IF tx[r].step = "rollback"
           THEN /\ conn' = [conn EXCEPT ![k] = Released([@ EXCEPT !.late = late])]
                /\ Leave(r, "doubtful")
                /\ UNCHANGED ended
           ELSE /\ conn' = [conn EXCEPT ![k].late = late]
                /\ RollBack(r, Asks(r))
        /\ UNCHANGED committed

\* The connection breaks under a statement; a commit may have been heard.
ConnectionLost(r) ==
    LET k == ConnectionOf(r)
        kind == tx[r].step
    IN  /\ kind \in InTransaction \ {"rollback"}
        /\ conn[k].alive /\ conn[k].late = None
        /\ Fault
        /\ conn' = [conn EXCEPT ![k] = Dead(@)]
        /\ committed' \in {committed, committed \union Commits(conn[k], kind)}
        /\ RollBack(r, Asks(r))

\* Behind a late statement, or on a dead connection, a statement is not sent.
StatementUnsent(r) ==
    LET k == ConnectionOf(r)
    IN  /\ tx[r].step \in InTransaction
        /\ conn[k].late # None \/ ~conn[k].alive
        /\ IF tx[r].step = "rollback" THEN GiveUp(r, k)
           ELSE RollBack(r, tx[r].asked) /\ UNCHANGED <<conn, committed>>
        /\ UNCHANGED faults

CallStep(r) ==
    \/ \E k \in Connections : Connect(r, k)
    \/ ConnectFails(r)
    \/ StatementDone(r) \/ StatementFails(r) \/ StatementLate(r)
    \/ ConnectionLost(r) \/ StatementUnsent(r)

\* pool.end(): connections are closed as they come back.
EndPool ==
    /\ ~ended
    /\ ended' = TRUE
    /\ UNCHANGED <<conn, tx, fate, committed, faults>>
=============================================================================
