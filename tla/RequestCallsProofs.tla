------------------------- MODULE RequestCallsProofs -------------------------
(***************************************************************************)
(* Proofs about RequestCalls, for any number of requests, tenants,         *)
(* connections, statements and faults: connections are accounted for,      *)
(* statements run as their tenant, what a handler learns of a call is      *)
(* true, a call that fails has a reason, a reply is published once, and no *)
(* call takes longer than its parts may.                                   *)
(***************************************************************************)
EXTENDS RequestCalls, Integers, LeastNumber, TLAPS

-----------------------------------------------------------------------------
(***************************************************************************)
(* The invariant.                                                          *)
(***************************************************************************)
LateStatements == [kind : InTransaction, call : Calls]
Sessions ==
    [owner : Requests \union {None}, alive : BOOLEAN, session : {"clean", "open", "aborted"},
     tenant : {TenantOf[r] : r \in Requests} \union {None},
     writes : SUBSET Calls, late : LateStatements \union {None}]

TxRecords ==
    [step : InTransaction \union {"none", "connect"}, name : CallNames \union {None},
     left : Int, asked : BOOLEAN, spent : Nat]

Shape ==
    /\ conn \in [Connections -> Sessions]
    /\ tx \in [Requests -> TxRecords]
    /\ fate \in [Calls -> {"none", "acknowledged", "failed", "doubtful"}]
    /\ committed \subseteq Calls
    /\ at \in [Requests -> Stages]

\* The calls a request makes after the one it is making.
ToCome(stage) ==
    CASE stage = "idle"    -> CallNames
      [] stage = "claim"   -> {"record", "store", "complete", "settle"}
      [] stage = "publish" -> {"record", "store", "complete", "settle"}
      [] stage = "record"  -> {"store", "complete", "settle"}
      [] stage = "store"   -> {"complete", "settle"}
      [] stage = "find"    -> {"upsert", "save"}
      [] stage = "fetch"   -> {"upsert", "save"}
      [] stage = "upsert"  -> {"save"}
      [] OTHER             -> {}

\* A session has nothing of a call, neither written nor to be.
Without(k, c) ==
    /\ c \notin conn[k].writes
    /\ conn[k].late # None => conn[k].late.call # c

\* The database has nothing of a call, and nothing will become of it.
Gone(c) == c \notin committed /\ \A k \in Connections : Without(k, c)

\* What the caller of a call was told is true.
Answers(c) ==
    /\ fate[c] = "acknowledged" => c \in committed
    /\ fate[c] = "failed" => Gone(c)

\* A request is in the call it is at, and has not made those to come.
InOrder(r) ==
    /\ at[r] \notin CallNames => tx[r].step = "none"
    /\ tx[r].step # "none" => tx[r].name = at[r] /\ fate[<<r, at[r]>>] = "none"
    /\ \A n \in ToCome(at[r]) : fate[<<r, n>>] = "none" /\ Gone(<<r, n>>)

\* A connection that broke has lost its transaction, and is never free.
DeadIsEmpty ==
    \A k \in Connections :
        ~conn[k].alive => conn[k].owner # None /\ conn[k].writes = {} /\ conn[k].late = None

\* Between set_config and the commit, the transaction is the request's own.
InOwnTransaction(k) ==
    conn[k].alive /\ conn[k].late = None /\ conn[k].session = "open"

\* A request at a statement: what its connection, and only that, has of its call.
AtStatement(r, k) ==
    /\ tx[r].step \in {"scope", "work", "commit"} => InOwnTransaction(k)
    /\ tx[r].step \in {"work", "commit"} => conn[k].tenant = TenantOf[r]
    /\ tx[r].step \in {"begin", "scope"} => Without(k, CallOf(r))
    /\ tx[r].step = "commit" => CallOf(r) \in conn[k].writes
    /\ tx[r].step # "rollback" => ~tx[r].asked
    /\ ~tx[r].asked => CallOf(r) \notin committed
    /\ \A j \in Connections \ {k} : Without(j, CallOf(r))
    /\ tx[r].step = "rollback" /\ ~tx[r].asked =>
          \/ Without(k, CallOf(r))
          \/ conn[k].late = None
          \/ conn[k].late.call = CallOf(r) /\ conn[k].late.kind # "commit"

\* A request in a transaction has one connection, and nobody else has any.
Transaction(r) ==
    /\ tx[r].step = "connect" => Gone(CallOf(r)) /\ ~tx[r].asked
    /\ tx[r].step \in InTransaction =>
          \E k \in Connections : conn[k].owner = r /\ AtStatement(r, k)
    /\ \A j, k \in Connections : conn[j].owner = r /\ conn[k].owner = r => j = k
    /\ \A k \in Connections : conn[k].owner = r => tx[r].step \in InTransaction

CallsInvariant ==
    /\ Shape
    /\ DeadIsEmpty
    /\ \A r \in Requests : InOrder(r) /\ Transaction(r)
    /\ \A c \in Calls : Answers(c)

-----------------------------------------------------------------------------
(***************************************************************************)
(* What the operators on records do.                                       *)
(***************************************************************************)
\* A request goes on to another statement of its transaction.
LEMMA ThenIs ==
    ASSUME Shape, NEW q \in Requests, NEW step \in InTransaction, NEW left \in Int,
           NEW asked \in BOOLEAN, NEW time \in Nat, Then(q, step, left, asked, time)
    PROVE  /\ tx' \in [Requests -> TxRecords]
           /\ tx'[q].step = step /\ tx'[q].asked = asked
           /\ tx'[q].name = tx[q].name
           /\ tx'[q].left = left /\ tx'[q].spent = tx[q].spent + time
           /\ \A r \in Requests \ {q} : tx'[r] = tx[r]
<1> DEFINE total == tx[q].spent + time
           r1 == [tx[q] EXCEPT !.step = step]
           r2 == [r1 EXCEPT !.left = left]
           r3 == [r2 EXCEPT !.asked = asked]
           r4 == [r3 EXCEPT !.spent = total]
<1>1. tx[q] \in TxRecords /\ DOMAIN tx = Requests
  BY DEF Shape
<1>2. total \in Nat
  BY <1>1 DEF TxRecords
<1> HIDE DEF total
<1>3. r1 \in TxRecords /\ r1.step = step /\ r1.name = tx[q].name
  BY <1>1 DEF TxRecords
<1>4. r2 \in TxRecords /\ r2.step = step /\ r2.name = tx[q].name /\ r2.left = left
  <2> HIDE DEF r1
  <2>1. QED
    BY <1>3 DEF TxRecords
<1>5. /\ r3 \in TxRecords /\ r3.step = step /\ r3.name = tx[q].name
      /\ r3.left = left /\ r3.asked = asked
  <2> HIDE DEF r2
  <2>1. QED
    BY <1>4 DEF TxRecords
<1>6. /\ r4 \in TxRecords /\ r4.step = step /\ r4.name = tx[q].name
      /\ r4.left = left /\ r4.asked = asked /\ r4.spent = total
  <2> HIDE DEF r3
  <2>1. QED
    BY <1>2, <1>5 DEF TxRecords
<1>7. tx'[q] = r4 /\ \A r \in Requests \ {q} : tx'[r] = tx[r]
  BY <1>1 DEF Then, total
<1>8. tx' \in [Requests -> TxRecords]
  <2>1. \A r \in Requests : tx'[r] \in TxRecords
    BY <1>6, <1>7 DEF Shape
  <2>2. tx' = [r \in Requests |-> tx'[r]]
    BY <1>1 DEF Then
  <2>3. QED
    BY <2>1, <2>2
<1>9. QED
  <2>1. total = tx[q].spent + time
    BY DEF total
  <2> HIDE DEF r4
  <2>2. QED
    BY <1>6, <1>7, <1>8, <2>1

\* A request leaves its transaction, with what its caller is told.
LEMMA LeaveIs ==
    ASSUME Shape, NEW q \in Requests, NEW result \in {"acknowledged", "failed", "doubtful"},
           CallOf(q) \in Calls, Leave(q, result)
    PROVE  /\ tx' \in [Requests -> TxRecords]
           /\ tx'[q].step = "none"
           /\ \A r \in Requests \ {q} : tx'[r] = tx[r]
           /\ fate' \in [Calls -> {"none", "acknowledged", "failed", "doubtful"}]
           /\ fate'[CallOf(q)] = result
           /\ \A c \in Calls : c # CallOf(q) => fate'[c] = fate[c]
<1>1. tx' \in [Requests -> TxRecords] /\ tx'[q].step = "none"
      /\ \A r \in Requests \ {q} : tx'[r] = tx[r]
  BY DEF Leave, Shape, TxRecords
<1>2. /\ fate' \in [Calls -> {"none", "acknowledged", "failed", "doubtful"}]
      /\ fate'[CallOf(q)] = result
      /\ \A c \in Calls : c # CallOf(q) => fate'[c] = fate[c]
  BY DEF Leave, Shape
<1>3. QED
  BY <1>1, <1>2

\* A statement leaves the holder and the state of a connection, and writes for its
\* own call alone.
LEMMA ExecutedIs ==
    ASSUME NEW k \in Sessions, NEW kind \in InTransaction, NEW c \in Calls
    PROVE  LET e == Executed(k, kind, c)
           IN  /\ e \in Sessions
               /\ e.owner = k.owner /\ e.alive = k.alive /\ e.late = k.late
               /\ e.writes \subseteq k.writes \union {c}
               /\ kind \in {"begin", "scope"} => e.writes = k.writes
               /\ kind = "begin" => e.session = "open"
               /\ kind \in {"scope", "work"} => e.session = k.session
               /\ kind = "scope" /\ k.session = "open" => e.tenant = TenantOf[c[1]]
               /\ kind = "work" => e.tenant = k.tenant /\ c \in e.writes
               /\ kind \in {"commit", "rollback"} => e.writes = {}
<1>1. c[1] \in Requests
  BY DEF Calls
<1>2. CASE kind = "begin"
  BY <1>2 DEF Executed, Sessions
<1>3. CASE kind = "scope"
  BY <1>1, <1>3 DEF Executed, Sessions
<1>4. CASE kind = "work"
  BY <1>4 DEF Executed, Sessions
<1>5. CASE kind \in {"commit", "rollback"}
  BY <1>5 DEF Executed, Closed, Sessions
<1>6. QED
  BY <1>2, <1>3, <1>4, <1>5 DEF InTransaction

\* What is left of a session whose transaction ended, failed, or was cut off.
LEMMA EndedIs ==
    ASSUME NEW k \in Sessions
    PROVE  /\ Closed(k) \in Sessions /\ Aborted(k) \in Sessions /\ Dead(k) \in Sessions
           /\ Closed(k).owner = k.owner /\ Closed(k).alive = k.alive
           /\ Closed(k).late = k.late /\ Closed(k).writes = {}
           /\ Aborted(k).owner = k.owner /\ Aborted(k).alive = k.alive
           /\ Aborted(k).late = k.late /\ Aborted(k).writes = k.writes
           /\ Dead(k).owner = k.owner /\ ~Dead(k).alive
           /\ Dead(k).late = None /\ Dead(k).writes = {}
<1>1. Closed(k) \in Sessions /\ Closed(k).owner = k.owner /\ Closed(k).alive = k.alive
      /\ Closed(k).late = k.late /\ Closed(k).writes = {}
  BY DEF Closed, Sessions
<1>2. Aborted(k) \in Sessions /\ Aborted(k).owner = k.owner /\ Aborted(k).alive = k.alive
      /\ Aborted(k).late = k.late /\ Aborted(k).writes = k.writes
  BY DEF Aborted, Sessions
<1>3. Dead(k) \in Sessions /\ Dead(k).owner = k.owner /\ ~Dead(k).alive
      /\ Dead(k).late = None /\ Dead(k).writes = {}
  BY DEF Dead, Closed, Sessions
<1>4. QED
  BY <1>1, <1>2, <1>3

\* What is left of a session when its connection goes back to the pool.
LEMMA ReleasedIs ==
    ASSUME NEW k \in Sessions
    PROVE  /\ Released(k) \in Sessions
           /\ Released(k).owner = None /\ Released(k).alive
           /\ k.alive => Released(k).writes = k.writes /\ Released(k).late = k.late
           /\ ~k.alive => Released(k).writes = {} /\ Released(k).late = None
BY DEF Released, Fresh, Sessions

-----------------------------------------------------------------------------
(***************************************************************************)
(* What a step of one request leaves alone.                                *)
(***************************************************************************)
\* At most one connection changes: one that is free or the request's own, on which
\* nothing appears but the request's call, and which alone may have committed.
ChangesConnection(q, k) ==
    /\ conn[k].owner \in {q, None} /\ conn'[k].owner \in {q, None}
    /\ \A j \in Connections \ {k} : conn'[j] = conn[j]
    /\ conn'[k].writes \subseteq conn[k].writes \union {CallOf(q)}
    /\ conn'[k].late # None =>
          \/ conn'[k].late.call = CallOf(q)
          \/ conn[k].late # None /\ conn'[k].late.call = conn[k].late.call
    /\ committed' \subseteq committed \union conn[k].writes
    /\ committed \subseteq committed'

Changes(q) ==
    /\ \/ conn' = conn /\ committed' = committed
       \/ \E k \in Connections : ChangesConnection(q, k)
    /\ \A r \in Requests \ {q} : tx'[r] = tx[r] /\ at'[r] = at[r]
    /\ \A c \in Calls : c # CallOf(q) => fate'[c] = fate[c]

\* The calls a request has yet to make are calls, and the one it makes is not among them.
LEMMA StageCalls ==
    ASSUME NEW stage \in Stages
    PROVE  ToCome(stage) \subseteq CallNames /\ stage \notin ToCome(stage)
BY ProgramAssumption DEF ToCome, Stages, ProviderCalls

\* A step of one request leaves the calls of the others gone.
LEMMA GoneKept ==
    ASSUME NEW q \in Requests, Changes(q), NEW c, c # CallOf(q), Gone(c)
    PROVE  Gone(c)'
<1>1. CASE conn' = conn /\ committed' = committed
  BY <1>1 DEF Gone, Without
<1>2. CASE \E k \in Connections : ChangesConnection(q, k)
  <2> PICK k \in Connections : ChangesConnection(q, k)
    BY <1>2
  <2>1. c \notin committed'
    BY DEF ChangesConnection, Gone, Without
  <2>2. Without(k, c)'
    BY DEF ChangesConnection, Gone, Without
  <2>3. ASSUME NEW j \in Connections \ {k} PROVE Without(j, c)'
    BY DEF ChangesConnection, Gone, Without
  <2>4. QED
    BY <2>1, <2>2, <2>3 DEF Gone
<1>3. QED
  BY <1>1, <1>2 DEF Changes

\* A request does not see the steps of another one.
LEMMA OthersUndisturbed ==
    ASSUME CallsInvariant, NEW q \in Requests, Changes(q), NEW r \in Requests \ {q}
    PROVE  InOrder(r)' /\ Transaction(r)'
<1>1. \A n : <<r, n>> # CallOf(q)
  BY DEF CallOf
<1>2. /\ tx'[r] = tx[r] /\ at'[r] = at[r] /\ CallOf(r)' = CallOf(r)
      /\ CallOf(r) # CallOf(q)
  BY <1>1 DEF Changes, CallOf
<1>3. InOrder(r)'
  <2>1. at[r] \in Stages
    BY DEF CallsInvariant, Shape
  <2>2. \A n \in CallNames : fate'[<<r, n>>] = fate[<<r, n>>]
    BY <1>1 DEF Changes, Calls
  <2>3. ASSUME NEW n \in ToCome(at[r]) PROVE fate'[<<r, n>>] = "none" /\ Gone(<<r, n>>)'
    <3>1. n \in CallNames
      BY <2>1, StageCalls
    <3>2. fate[<<r, n>>] = "none" /\ Gone(<<r, n>>)
      BY DEF CallsInvariant, InOrder
    <3>3. Gone(<<r, n>>)'
      BY <1>1, <3>2, GoneKept
    <3>4. QED
      BY <2>2, <3>1, <3>2, <3>3
  <2>4. tx[r].step # "none" => fate'[<<r, at[r]>>] = "none"
    BY <2>2 DEF CallsInvariant, InOrder
  <2>5. QED
    BY <1>2, <2>3, <2>4 DEF CallsInvariant, InOrder
<1>4. Transaction(r)'
  <2>0. Transaction(r)
    BY DEF CallsInvariant
  <2>1. CASE conn' = conn /\ committed' = committed
    BY <1>2, <2>0, <2>1 DEF Transaction, AtStatement, InOwnTransaction, Gone, Without
  <2>2. CASE \E k \in Connections : ChangesConnection(q, k)
    <3> PICK k \in Connections : ChangesConnection(q, k)
      BY <2>2
    <3>1. conn[k].owner # r /\ conn'[k].owner # r
      BY TenantAssumptions DEF ChangesConnection
    <3>2. \A j \in Connections : conn'[j].owner = r => j # k /\ conn[j].owner = r
      BY <3>1 DEF ChangesConnection
    <3>3. tx[r].step = "connect" => Gone(CallOf(r))'
      BY <1>2, <2>0, GoneKept DEF Transaction
    <3>4. ASSUME tx[r].step \in InTransaction
          PROVE  \E m \in Connections : conn'[m].owner = r /\ AtStatement(r, m)'
      <4> PICK m \in Connections : conn[m].owner = r /\ AtStatement(r, m)
        BY <2>0, <3>4 DEF Transaction
      <4>1. m # k /\ conn'[m] = conn[m]
        BY <3>1 DEF ChangesConnection
      <4>2. Without(k, CallOf(r))
        BY <4>1 DEF AtStatement
      <4>3. CallOf(r) \notin committed => CallOf(r) \notin committed'
        BY <4>2 DEF ChangesConnection, Without
      <4>4. ASSUME NEW j \in Connections \ {m} PROVE Without(j, CallOf(r))'
        <5>1. CASE j = k
          BY <1>2, <4>2, <5>1 DEF ChangesConnection, Without
        <5>2. CASE j # k
          BY <1>2, <5>2 DEF ChangesConnection, AtStatement, Without
        <5>3. QED
          BY <5>1, <5>2
      <4>5. AtStatement(r, m)'
        BY <1>2, <4>1, <4>3, <4>4 DEF AtStatement, InOwnTransaction, Without
      <4>6. QED
        BY <4>1, <4>5
    <3>5. QED
      BY <1>2, <2>0, <3>2, <3>3, <3>4 DEF Transaction
  <2>3. QED
    BY <2>1, <2>2 DEF Changes
<1>5. QED
  BY <1>3, <1>4

\* Hence a step of a request preserves the invariant if it does so for itself.
OwnStep(q) ==
    /\ Shape' /\ DeadIsEmpty'
    /\ Changes(q)
    /\ InOrder(q)' /\ Transaction(q)'
    /\ \A c \in Calls : c = CallOf(q) => Answers(c)'

\* A step of one request need only be followed for that request.
LEMMA OwnStepSuffices ==
    ASSUME CallsInvariant, NEW q \in Requests, OwnStep(q)
    PROVE  CallsInvariant'
<1>1. ASSUME NEW r \in Requests PROVE InOrder(r)' /\ Transaction(r)'
  <2>1. CASE r = q
    BY <2>1 DEF OwnStep
  <2>2. CASE r # q
    BY <2>2, OthersUndisturbed DEF OwnStep
  <2>3. QED
    BY <2>1, <2>2
<1>2. ASSUME NEW c \in Calls PROVE Answers(c)'
  <2>1. CASE c = CallOf(q)
    BY <2>1 DEF OwnStep
  <2>2. CASE c # CallOf(q)
    <3>1. fate'[c] = fate[c] /\ Answers(c)
      BY <2>2 DEF OwnStep, Changes, CallsInvariant
    <3>2. Gone(c) => Gone(c)'
      BY <2>2, GoneKept DEF OwnStep
    <3>3. committed \subseteq committed'
      BY DEF OwnStep, Changes, ChangesConnection
    <3>4. QED
      BY <3>1, <3>2, <3>3 DEF Answers
  <2>3. QED
    BY <2>1, <2>2
<1>3. QED
  BY <1>1, <1>2 DEF CallsInvariant, OwnStep

-----------------------------------------------------------------------------
(***************************************************************************)
(* The steps of a transaction.                                             *)
(***************************************************************************)
\* What holds of a request in a call.
LEMMA InCall ==
    ASSUME CallsInvariant, NEW q \in Requests, tx[q].step # "none"
    PROVE  /\ at[q] \in CallNames /\ CallOf(q) = <<q, at[q]>> /\ CallOf(q) \in Calls
           /\ fate[CallOf(q)] = "none"
           /\ InOrder(q) /\ Transaction(q)
<1>1. InOrder(q) /\ Transaction(q)
  BY DEF CallsInvariant
<1>2. at[q] \in CallNames
  BY <1>1 DEF InOrder
<1>3. QED
  BY <1>1, <1>2 DEF InOrder, CallOf, Calls

\* A request in a transaction has one connection, and finds on it what its step needs.
LEMMA AtConnection ==
    ASSUME CallsInvariant, NEW q \in Requests, tx[q].step \in InTransaction
    PROVE  LET k == ConnectionOf(q)
           IN  /\ k \in Connections /\ conn[k] \in Sessions
               /\ conn[k].owner = q /\ AtStatement(q, k)
               /\ \A j \in Connections : conn[j].owner = q => j = k
               /\ ~conn[k].alive => conn[k].writes = {} /\ conn[k].late = None
<1>1. Transaction(q)
  BY DEF CallsInvariant
<1>2. PICK k \in Connections : conn[k].owner = q /\ AtStatement(q, k)
  BY <1>1 DEF Transaction
<1>3. \A j \in Connections : conn[j].owner = q => j = k
  BY <1>1, <1>2 DEF Transaction
<1>4. ConnectionOf(q) = k
  BY <1>2, <1>3 DEF ConnectionOf
<1>5. QED
  BY <1>2, <1>3, <1>4 DEF CallsInvariant, Shape, DeadIsEmpty

\* A step within a call keeps the order of the calls.
LEMMA OrderKept ==
    ASSUME CallsInvariant, NEW q \in Requests, tx[q].step # "none", Changes(q),
           at' = at, tx'[q].step # "none" => tx'[q].name = tx[q].name /\ fate' = fate
    PROVE  InOrder(q)'
<1>1. /\ at[q] \in CallNames /\ CallOf(q) = <<q, at[q]>> /\ CallOf(q) \in Calls
      /\ fate[CallOf(q)] = "none" /\ InOrder(q)
  BY InCall
<1>2. ASSUME NEW n \in ToCome(at[q]) PROVE fate'[<<q, n>>] = "none" /\ Gone(<<q, n>>)'
  <2>1. at[q] \in Stages
    BY DEF CallsInvariant, Shape
  <2>2. n \in CallNames /\ n # at[q]
    BY <2>1, StageCalls
  <2>3. <<q, n>> # CallOf(q) /\ <<q, n>> \in Calls
    BY <1>1, <2>2 DEF Calls
  <2>4. fate[<<q, n>>] = "none" /\ Gone(<<q, n>>)
    BY <1>1 DEF InOrder
  <2>5. Gone(<<q, n>>)'
    BY <2>3, <2>4, GoneKept
  <2>6. QED
    BY <2>3, <2>4, <2>5 DEF Changes
<1>3. tx'[q].step # "none" => tx'[q].name = at'[q] /\ fate'[<<q, at'[q]>>] = "none"
  BY <1>1 DEF InOrder
<1>4. QED
  BY <1>1, <1>2, <1>3 DEF InOrder

\* A session as a request at a statement needs it.
Serves(v, q, step, asked, c) ==
    /\ v \in Sessions /\ v.owner = q
    /\ ~v.alive => v.writes = {} /\ v.late = None
    /\ step \in {"scope", "work", "commit"} => v.alive /\ v.late = None /\ v.session = "open"
    /\ step \in {"work", "commit"} => v.tenant = TenantOf[q]
    /\ step \in {"begin", "scope"} => c \notin v.writes /\ (v.late # None => v.late.call # c)
    /\ step = "commit" => c \in v.writes
    /\ step # "rollback" => ~asked
    /\ step = "rollback" /\ ~asked =>
          \/ c \notin v.writes /\ (v.late # None => v.late.call # c)
          \/ v.late = None
          \/ v.late.call = c /\ v.late.kind # "commit"

\* What a request may do to its connection.
Adds(v, k, c) ==
    /\ v.writes \subseteq conn[k].writes \union {c}
    /\ v.late # None =>
          v.late.call = c \/ (conn[k].late # None /\ v.late.call = conn[k].late.call)

\* A step after which the request is still in its transaction.
LEMMA StepOn ==
    ASSUME CallsInvariant, NEW q \in Requests, tx[q].step \in InTransaction,
           NEW k \in Connections, k = ConnectionOf(q),
           NEW v, conn' = [conn EXCEPT ![k] = v], Adds(v, k, CallOf(q)),
           committed \subseteq committed', committed' \subseteq committed \union conn[k].writes,
           NEW step \in InTransaction, NEW left \in Int, NEW asked \in BOOLEAN,
           NEW time \in Nat, Then(q, step, left, asked, time),
           Serves(v, q, step, asked, CallOf(q)),
           ~asked => CallOf(q) \notin committed',
           fate' = fate, at' = at
    PROVE  OwnStep(q)
<1>0. Shape
  BY DEF CallsInvariant
<1>1. /\ tx' \in [Requests -> TxRecords]
      /\ tx'[q].step = step /\ tx'[q].asked = asked /\ tx'[q].name = tx[q].name
      /\ \A r \in Requests \ {q} : tx'[r] = tx[r]
  BY <1>0, ThenIs
<1>2. /\ conn[k] \in Sessions /\ conn[k].owner = q /\ AtStatement(q, k)
      /\ \A j \in Connections : conn[j].owner = q => j = k
  BY AtConnection
<1>3. tx[q].step # "none"
  BY DEF InTransaction
<1>4. conn'[k] = v /\ \A j \in Connections \ {k} : conn'[j] = conn[j]
  BY <1>0 DEF Shape
<1>5. CallOf(q)' = CallOf(q)
  BY <1>1 DEF CallOf
<1>6. Shape'
  <2>1. conn' \in [Connections -> Sessions]
    BY <1>0 DEF Shape, Serves
  <2>2. committed' \subseteq Calls
    BY <1>0, <1>2 DEF Shape, Sessions
  <2>3. QED
    BY <1>0, <1>1, <2>1, <2>2 DEF Shape
<1>7. DeadIsEmpty'
  <2>1. q # None
    BY TenantAssumptions
  <2>2. QED
    BY <1>4, <2>1 DEF CallsInvariant, DeadIsEmpty, Serves
<1>8. Changes(q)
  <2>1. ChangesConnection(q, k)
    BY <1>2, <1>4 DEF ChangesConnection, Adds, Serves
  <2>2. QED
    BY <1>1, <2>1 DEF Changes
<1>9. InOrder(q)'
  BY <1>1, <1>3, <1>8, OrderKept
<1>10. Transaction(q)'
  <2>1. AtStatement(q, k)'
    <3>1. \A j \in Connections \ {k} : Without(j, CallOf(q))'
      BY <1>2, <1>4, <1>5 DEF AtStatement, Without
    <3>2. /\ tx'[q].step \in {"scope", "work", "commit"} => InOwnTransaction(k)'
          /\ tx'[q].step \in {"work", "commit"} => conn'[k].tenant = TenantOf[q]
          /\ tx'[q].step \in {"begin", "scope"} => Without(k, CallOf(q))'
          /\ tx'[q].step = "commit" => CallOf(q) \in conn'[k].writes
          /\ tx'[q].step # "rollback" => ~tx'[q].asked
          /\ tx'[q].step = "rollback" /\ ~tx'[q].asked =>
                \/ Without(k, CallOf(q))'
                \/ conn'[k].late = None
                \/ conn'[k].late.call = CallOf(q) /\ conn'[k].late.kind # "commit"
      BY <1>1, <1>4, <1>5 DEF Serves, InOwnTransaction, Without
    <3>3. ~tx'[q].asked => CallOf(q) \notin committed'
      BY <1>1
    <3>4. QED
      BY <1>5, <3>1, <3>2, <3>3 DEF AtStatement
  <2>2. \A j \in Connections : conn'[j].owner = q => j = k
    BY <1>2, <1>4
  <2>3. conn'[k].owner = q /\ step # "connect"
    BY <1>4 DEF Serves, InTransaction
  <2>4. QED
    BY <1>1, <2>1, <2>2, <2>3 DEF Transaction
<1>11. \A c \in Calls : c = CallOf(q) => Answers(c)'
  BY <1>3, InCall DEF Answers
<1>12. QED
  BY <1>6, <1>7, <1>8, <1>9, <1>10, <1>11 DEF OwnStep

\* A step with which the request leaves its transaction, and its connection.
LEMMA LeaveOn ==
    ASSUME CallsInvariant, NEW q \in Requests, tx[q].step \in InTransaction,
           NEW k \in Connections, k = ConnectionOf(q),
           NEW v, conn' = [conn EXCEPT ![k] = v], Adds(v, k, CallOf(q)),
           v \in Sessions, v.owner = None, v.alive,
           committed \subseteq committed', committed' \subseteq committed \union conn[k].writes,
           NEW result \in {"acknowledged", "failed", "doubtful"}, Leave(q, result),
           result = "acknowledged" => CallOf(q) \in committed',
           result = "failed" =>
              /\ CallOf(q) \notin committed' /\ CallOf(q) \notin v.writes
              /\ v.late # None => v.late.call # CallOf(q),
           at' = at
    PROVE  OwnStep(q)
<1>0. Shape
  BY DEF CallsInvariant
<1>1. tx[q].step # "none"
  BY DEF InTransaction
<1>2. CallOf(q) \in Calls
  BY <1>1, InCall
<1>3. /\ tx' \in [Requests -> TxRecords]
      /\ tx'[q].step = "none"
      /\ \A r \in Requests \ {q} : tx'[r] = tx[r]
      /\ fate' \in [Calls -> {"none", "acknowledged", "failed", "doubtful"}]
      /\ fate'[CallOf(q)] = result
      /\ \A c \in Calls : c # CallOf(q) => fate'[c] = fate[c]
  BY <1>0, <1>2, LeaveIs
<1>4. /\ conn[k] \in Sessions /\ conn[k].owner = q /\ AtStatement(q, k)
      /\ \A j \in Connections : conn[j].owner = q => j = k
  BY AtConnection
<1>5. conn'[k] = v /\ \A j \in Connections \ {k} : conn'[j] = conn[j]
  BY <1>0 DEF Shape
<1>6. Shape'
  <2>1. conn' \in [Connections -> Sessions]
    BY <1>0 DEF Shape
  <2>2. committed' \subseteq Calls
    BY <1>0, <1>4 DEF Shape, Sessions
  <2>3. QED
    BY <1>0, <1>3, <2>1, <2>2 DEF Shape
<1>7. DeadIsEmpty'
  BY <1>5 DEF CallsInvariant, DeadIsEmpty
<1>8. Changes(q)
  <2>1. ChangesConnection(q, k)
    BY <1>4, <1>5 DEF ChangesConnection, Adds
  <2>2. QED
    BY <1>3, <2>1 DEF Changes
<1>9. InOrder(q)'
  BY <1>1, <1>3, <1>8, OrderKept
<1>10. Transaction(q)'
  <2>1. \A j \in Connections : conn'[j].owner # q
    BY <1>4, <1>5, TenantAssumptions
  <2>2. QED
    BY <1>3, <2>1 DEF Transaction, InTransaction
<1>11. ASSUME NEW c \in Calls, c = CallOf(q) PROVE Answers(c)'
  <2>1. \A j \in Connections \ {k} : Without(j, c)'
    BY <1>4, <1>5, <1>11 DEF AtStatement, Without
  <2>2. result = "failed" => Without(k, c)'
    BY <1>5, <1>11 DEF Without
  <2>3. QED
    BY <1>3, <1>11, <2>1, <2>2 DEF Answers, Gone
<1>12. QED
  BY <1>6, <1>7, <1>8, <1>9, <1>10, <1>11 DEF OwnStep

\* A request that rolls back.
LEMMA RollBackOn ==
    ASSUME CallsInvariant, NEW q \in Requests, tx[q].step \in InTransaction,
           NEW k \in Connections, k = ConnectionOf(q),
           NEW v, conn' = [conn EXCEPT ![k] = v], Adds(v, k, CallOf(q)),
           committed \subseteq committed', committed' \subseteq committed \union conn[k].writes,
           NEW asked \in BOOLEAN, Then(q, "rollback", 0, asked, QueryTimeout),
           Serves(v, q, "rollback", asked, CallOf(q)),
           ~asked => CallOf(q) \notin committed',
           fate' = fate, at' = at
    PROVE  OwnStep(q)
<1> DEFINE step == "rollback"
           left == 0
           time == QueryTimeout
<1>1. /\ Then(q, step, left, asked, time) /\ Serves(v, q, step, asked, CallOf(q))
      /\ step \in InTransaction /\ left \in Int /\ time \in Nat
  BY TenantAssumptions DEF InTransaction
<1> HIDE DEF step, left, time
<1>2. QED
  BY <1>1, StepOn

\* A statement is answered.
LEMMA DoneOwn ==
    ASSUME CallsInvariant, NEW q \in Requests, at' = at, StatementDone(q)
    PROVE  OwnStep(q)
<1> DEFINE k == ConnectionOf(q)
           c == CallOf(q)
           after == Executed(conn[k], tx[q].step, c)
<1>1. tx[q].step \in InTransaction /\ tx[q].step # "none"
  BY DEF StatementDone, InTransaction
<1>2. /\ k \in Connections /\ conn[k] \in Sessions
      /\ conn[k].owner = q /\ AtStatement(q, k)
  BY <1>1, AtConnection
<1>3. c \in Calls /\ c[1] = q
  BY <1>1, InCall
<1>4. /\ conn[k].alive /\ conn[k].late = None
      /\ committed' = committed \union Commits(conn[k], tx[q].step)
  BY DEF StatementDone
<1>5. /\ after \in Sessions
      /\ after.owner = q /\ after.alive /\ after.late = None
      /\ after.writes \subseteq conn[k].writes \union {c}
      /\ tx[q].step \in {"begin", "scope"} => after.writes = conn[k].writes
      /\ tx[q].step = "begin" => after.session = "open"
      /\ tx[q].step \in {"scope", "work"} => after.session = conn[k].session
      /\ tx[q].step = "scope" /\ conn[k].session = "open" => after.tenant = TenantOf[q]
      /\ tx[q].step = "work" => after.tenant = conn[k].tenant /\ c \in after.writes
      /\ tx[q].step \in {"commit", "rollback"} => after.writes = {}
  BY <1>1, <1>2, <1>3, <1>4, ExecutedIs
<1>6. /\ Released(after) \in Sessions /\ Released(after).owner = None /\ Released(after).alive
      /\ Released(after).writes = after.writes /\ Released(after).late = None
  BY <1>5, ReleasedIs
<1>7. /\ Commits(conn[k], tx[q].step) \subseteq conn[k].writes
      /\ tx[q].step # "commit" => committed' = committed
  BY <1>4 DEF Commits
<1>8. CASE tx[q].step = "commit"
  <2>1. c \in committed'
    BY <1>2, <1>4, <1>8 DEF Commits, AtStatement, InOwnTransaction
  <2>2. conn' = [conn EXCEPT ![k] = Released(after)] /\ Leave(q, "acknowledged")
    BY <1>8 DEF StatementDone
  <2>3. Adds(Released(after), k, c)
    BY <1>5, <1>6 DEF Adds
  <2> HIDE DEF k, c, after
  <2>4. QED
    BY <1>1, <1>2, <1>4, <1>6, <1>7, <2>1, <2>2, <2>3, LeaveOn DEF k, c
<1>9. CASE tx[q].step = "rollback"
  <2> DEFINE result == IF tx[q].asked THEN "doubtful" ELSE "failed"
  <2>1. conn' = [conn EXCEPT ![k] = Released(after)] /\ Leave(q, result)
    BY <1>9 DEF StatementDone
  <2>2. result = "failed" => c \notin committed'
    BY <1>2, <1>7, <1>9 DEF AtStatement
  <2>3. c \notin Released(after).writes /\ result \in {"failed", "doubtful"}
    BY <1>5, <1>6, <1>9
  <2>4. Adds(Released(after), k, c)
    BY <1>5, <1>6 DEF Adds
  <2> HIDE DEF k, c, after, result
  <2>5. QED
    BY <1>1, <1>2, <1>4, <1>6, <1>7, <2>1, <2>2, <2>3, <2>4, LeaveOn DEF k, c
<1>10. CASE tx[q].step \notin {"commit", "rollback"}
  <2> DEFINE left == IF tx[q].step = "work" THEN tx[q].left - 1 ELSE tx[q].left
  <2>1. conn' = [conn EXCEPT ![k] = after] /\ fate' = fate
        /\ Then(q, Following(q), left, FALSE, QueryTimeout)
    BY <1>1, <1>10 DEF StatementDone, InTransaction
  <2>2. left \in Int
    BY DEF CallsInvariant, Shape, TxRecords
  <2>3. /\ tx[q].step = "begin" => Following(q) = "scope"
        /\ tx[q].step = "scope" => Following(q) = "work"
        /\ tx[q].step = "work" => Following(q) \in {"work", "commit"}
        /\ tx[q].step \in {"begin", "scope", "work"}
    BY <1>1, <1>10 DEF Following, InTransaction
  <2>4. Serves(after, q, Following(q), FALSE, c)
    <3>1. CASE tx[q].step = "begin"
      BY <1>2, <1>5, <2>3, <3>1 DEF Serves, AtStatement, Without
    <3>2. CASE tx[q].step = "scope"
      BY <1>2, <1>5, <2>3, <3>2 DEF Serves, AtStatement, InOwnTransaction
    <3>3. CASE tx[q].step = "work"
      BY <1>2, <1>5, <2>3, <3>3 DEF Serves, AtStatement, InOwnTransaction
    <3>4. QED
      BY <2>3, <3>1, <3>2, <3>3
  <2>5. c \notin committed'
    BY <1>2, <1>7, <1>10 DEF AtStatement
  <2>6. Following(q) \in InTransaction
    BY <2>3 DEF InTransaction
  <2>7. Adds(after, k, c)
    BY <1>5 DEF Adds
  <2> HIDE DEF k, c, after, left
  <2>8. QED
    BY <1>1, <1>2, <1>4, <1>7, <2>1, <2>2, <2>4, <2>5, <2>6, <2>7,
       StepOn, TenantAssumptions DEF k, c
<1>11. QED
  BY <1>8, <1>9, <1>10

\* A statement is refused.
LEMMA FailsOwn ==
    ASSUME CallsInvariant, NEW q \in Requests, at' = at, StatementFails(q)
    PROVE  OwnStep(q)
<1> DEFINE k == ConnectionOf(q)
           c == CallOf(q)
           after == IF tx[q].step = "commit" THEN Closed(conn[k]) ELSE Aborted(conn[k])
<1>1. tx[q].step \in InTransaction /\ tx[q].step # "rollback"
  BY DEF StatementFails
<1>2. /\ k \in Connections /\ conn[k] \in Sessions
      /\ conn[k].owner = q /\ AtStatement(q, k)
  BY <1>1, AtConnection
<1>3. /\ conn[k].alive /\ conn[k].late = None
      /\ committed' = committed /\ fate' = fate
      /\ Then(q, "rollback", 0, FALSE, QueryTimeout)
  BY DEF StatementFails, RollBack
<1>4. conn' = [conn EXCEPT ![k] = after]
  BY DEF StatementFails
<1>5. /\ after \in Sessions /\ after.owner = q /\ after.alive /\ after.late = None
      /\ after.writes \subseteq conn[k].writes
  BY <1>2, <1>3, EndedIs
<1>6. c \notin committed'
  BY <1>1, <1>2, <1>3 DEF AtStatement
<1>7. Serves(after, q, "rollback", FALSE, c) /\ Adds(after, k, c)
  BY <1>5 DEF Serves, Adds
<1> HIDE DEF k, c, after
<1>8. QED
  BY <1>1, <1>2, <1>3, <1>4, <1>6, <1>7, RollBackOn DEF k, c

\* A statement runs out of time.
LEMMA LateOwn ==
    ASSUME CallsInvariant, NEW q \in Requests, at' = at, StatementLate(q)
    PROVE  OwnStep(q)
<1> DEFINE k == ConnectionOf(q)
           c == CallOf(q)
           late == [kind |-> tx[q].step, call |-> c]
           after == [conn[k] EXCEPT !.late = late]
<1>1. tx[q].step \in InTransaction /\ tx[q].step # "none"
  BY DEF StatementLate, InTransaction
<1>2. /\ k \in Connections /\ conn[k] \in Sessions
      /\ conn[k].owner = q /\ AtStatement(q, k)
  BY <1>1, AtConnection
<1>3. conn[k].alive /\ committed' = committed
  BY DEF StatementLate
<1>4. late \in LateStatements /\ late.kind = tx[q].step /\ late.call = c
  BY <1>1, InCall DEF LateStatements
<1>5. /\ after \in Sessions /\ after.owner = q /\ after.alive /\ after.late = late
      /\ after.writes = conn[k].writes
  <2> HIDE DEF late
  <2>1. QED
    BY <1>2, <1>3, <1>4 DEF Sessions
<1>6. CASE tx[q].step = "rollback"
  <2>1. conn' = [conn EXCEPT ![k] = Released(after)] /\ Leave(q, "doubtful")
    BY <1>6 DEF StatementLate
  <2>2. /\ Released(after) \in Sessions /\ Released(after).owner = None /\ Released(after).alive
        /\ Released(after).writes = conn[k].writes /\ Released(after).late = late
    BY <1>5, ReleasedIs
  <2>3. Adds(Released(after), k, c)
    BY <1>4, <2>2 DEF Adds
  <2> HIDE DEF k, c, late, after
  <2>4. QED
    BY <1>1, <1>2, <1>3, <2>1, <2>2, <2>3, LeaveOn DEF k, c
<1>7. CASE tx[q].step # "rollback"
  <2>1. conn' = [conn EXCEPT ![k] = after]
    BY <1>7 DEF StatementLate
  <2>2. Then(q, "rollback", 0, Asks(q), QueryTimeout) /\ fate' = fate
    BY <1>7 DEF StatementLate, RollBack
  <2>3. Asks(q) \in BOOLEAN /\ (~Asks(q) => tx[q].step # "commit")
    BY DEF CallsInvariant, Shape, TxRecords, Asks
  <2>4. Serves(after, q, "rollback", Asks(q), c) /\ Adds(after, k, c)
    BY <1>4, <1>5, <2>3 DEF Serves, Adds
  <2>5. c \notin committed'
    BY <1>2, <1>3, <1>7 DEF AtStatement
  <2> HIDE DEF k, c, late, after
  <2>6. QED
    BY <1>1, <1>2, <1>3, <2>1, <2>2, <2>3, <2>4, <2>5, RollBackOn DEF k, c
<1>8. QED
  BY <1>6, <1>7

\* The connection is lost under a statement.
LEMMA LostOwn ==
    ASSUME CallsInvariant, NEW q \in Requests, at' = at, ConnectionLost(q)
    PROVE  OwnStep(q)
<1> DEFINE k == ConnectionOf(q)
           c == CallOf(q)
<1>1. tx[q].step \in InTransaction /\ tx[q].step # "rollback"
  BY DEF ConnectionLost
<1>2. /\ k \in Connections /\ conn[k] \in Sessions
      /\ conn[k].owner = q /\ AtStatement(q, k)
  BY <1>1, AtConnection
<1>3. /\ conn' = [conn EXCEPT ![k] = Dead(conn[k])]
      /\ committed' \in {committed, committed \union Commits(conn[k], tx[q].step)}
      /\ Then(q, "rollback", 0, Asks(q), QueryTimeout) /\ fate' = fate
  BY DEF ConnectionLost, RollBack
<1>4. /\ Dead(conn[k]) \in Sessions /\ Dead(conn[k]).owner = q /\ ~Dead(conn[k]).alive
      /\ Dead(conn[k]).late = None /\ Dead(conn[k]).writes = {}
  BY <1>2, EndedIs
<1>5. /\ committed \subseteq committed'
      /\ committed' \subseteq committed \union conn[k].writes
      /\ tx[q].step # "commit" => committed' = committed
  BY <1>3 DEF Commits
<1>6. Asks(q) \in BOOLEAN /\ (~Asks(q) => tx[q].step # "commit")
  BY DEF CallsInvariant, Shape, TxRecords, Asks
<1>7. ~Asks(q) => c \notin committed'
  BY <1>1, <1>2, <1>5, <1>6 DEF AtStatement
<1>8. Serves(Dead(conn[k]), q, "rollback", Asks(q), c) /\ Adds(Dead(conn[k]), k, c)
  BY <1>4 DEF Serves, Adds
<1> HIDE DEF k, c
<1>9. QED
  BY <1>1, <1>2, <1>3, <1>5, <1>6, <1>7, <1>8, RollBackOn DEF k, c

\* A statement runs out of time behind another one, unsent.
LEMMA UnsentOwn ==
    ASSUME CallsInvariant, NEW q \in Requests, at' = at, StatementUnsent(q)
    PROVE  OwnStep(q)
<1> DEFINE k == ConnectionOf(q)
           c == CallOf(q)
<1>1. tx[q].step \in InTransaction
  BY DEF StatementUnsent
<1>2. /\ k \in Connections /\ conn[k] \in Sessions
      /\ conn[k].owner = q /\ AtStatement(q, k)
      /\ ~conn[k].alive => conn[k].writes = {} /\ conn[k].late = None
  BY <1>1, AtConnection
<1>3. conn[k].late # None \/ ~conn[k].alive
  BY DEF StatementUnsent
<1>4. tx[q].step \in {"begin", "rollback"}
  BY <1>1, <1>2, <1>3 DEF AtStatement, InOwnTransaction, InTransaction
<1>5. CASE tx[q].step = "begin"
  <2>1. /\ conn' = conn /\ committed' = committed /\ fate' = fate
        /\ Then(q, "rollback", 0, tx[q].asked, QueryTimeout)
    BY <1>5 DEF StatementUnsent, RollBack
  <2>2. conn' = [conn EXCEPT ![k] = conn[k]]
    BY <2>1 DEF CallsInvariant, Shape
  <2>3. tx[q].asked \in BOOLEAN /\ c \notin committed'
    BY <1>2, <1>5, <2>1 DEF CallsInvariant, Shape, TxRecords, AtStatement
  <2>4. Serves(conn[k], q, "rollback", tx[q].asked, c) /\ Adds(conn[k], k, c)
    BY <1>2, <1>5 DEF Serves, Adds, AtStatement, Without
  <2> HIDE DEF k, c
  <2>5. QED
    BY <1>1, <1>2, <2>1, <2>2, <2>3, <2>4, RollBackOn DEF k, c
<1>6. CASE tx[q].step = "rollback"
  <2> DEFINE result == IF conn[k].alive \/ tx[q].asked THEN "doubtful" ELSE "failed"
  <2>1. conn' = [conn EXCEPT ![k] = Released(conn[k])] /\ Leave(q, result)
        /\ committed' = committed
    BY <1>6 DEF StatementUnsent, GiveUp
  <2>2. /\ Released(conn[k]) \in Sessions /\ Released(conn[k]).owner = None
        /\ Released(conn[k]).alive
        /\ Released(conn[k]).writes = conn[k].writes /\ Released(conn[k]).late = conn[k].late
    BY <1>2, ReleasedIs
  <2>3. /\ result \in {"failed", "doubtful"}
        /\ result = "failed" =>
              c \notin committed' /\ conn[k].writes = {} /\ conn[k].late = None
    BY <1>2, <2>1 DEF AtStatement
  <2>4. Adds(Released(conn[k]), k, c)
    BY <2>2 DEF Adds
  <2> HIDE DEF k, c, result
  <2>5. QED
    BY <1>1, <1>2, <2>1, <2>2, <2>3, <2>4, LeaveOn DEF k, c
<1>7. QED
  BY <1>4, <1>5, <1>6

\* A request is given a connection.
LEMMA ConnectOwn ==
    ASSUME CallsInvariant, NEW q \in Requests, NEW k \in Connections, at' = at, Connect(q, k)
    PROVE  OwnStep(q)
<1> DEFINE c == CallOf(q)
           v == [conn[k] EXCEPT !.owner = q]
           left == tx[q].left
           time == ConnectionTimeout + QueryTimeout
<1>0. Shape /\ Transaction(q) /\ tx[q].step = "connect" /\ q # None
  BY TenantAssumptions DEF CallsInvariant, Connect
<1>1. /\ conn[k].owner = None /\ fate' = fate /\ committed' = committed
      /\ conn' = [conn EXCEPT ![k] = v]
      /\ Then(q, "begin", left, FALSE, time)
  BY DEF Connect
<1>2. Gone(c) /\ \A j \in Connections : conn[j].owner # q
  BY <1>0 DEF Transaction, InTransaction
<1>3. left \in Int /\ time \in Nat /\ FALSE \in BOOLEAN /\ "begin" \in InTransaction
  BY <1>0, TenantAssumptions DEF Shape, TxRecords, InTransaction
<1>4. /\ tx' \in [Requests -> TxRecords]
      /\ tx'[q].step = "begin" /\ tx'[q].asked = FALSE /\ tx'[q].name = tx[q].name
      /\ \A r \in Requests \ {q} : tx'[r] = tx[r]
  <2> HIDE DEF left, time
  <2>1. QED
    BY <1>0, <1>1, <1>3, ThenIs
<1>5. /\ v \in Sessions /\ v.owner = q /\ v.alive = conn[k].alive
      /\ v.writes = conn[k].writes /\ v.late = conn[k].late
  BY <1>0 DEF Shape, Sessions
<1>6. conn[k].alive
  BY <1>1 DEF CallsInvariant, DeadIsEmpty
<1>7. conn'[k] = v /\ \A j \in Connections \ {k} : conn'[j] = conn[j]
  BY <1>0, <1>1 DEF Shape
<1>8. CallOf(q)' = c
  BY <1>4 DEF CallOf
<1> HIDE DEF v, left, time
<1>9. Shape'
  <2>1. conn' \in [Connections -> Sessions]
    BY <1>0, <1>1, <1>5 DEF Shape
  <2>2. QED
    BY <1>0, <1>1, <1>4, <2>1 DEF Shape
<1>10. DeadIsEmpty'
  BY <1>5, <1>6, <1>7 DEF CallsInvariant, DeadIsEmpty
<1>11. Changes(q)
  <2>1. ChangesConnection(q, k)
    BY <1>1, <1>5, <1>7 DEF ChangesConnection
  <2>2. QED
    BY <1>1, <1>4, <2>1 DEF Changes
<1>12. InOrder(q)'
  BY <1>0, <1>1, <1>4, <1>11, OrderKept
<1>13. Transaction(q)'
  <2>1. \A j \in Connections : Without(j, CallOf(q))'
    BY <1>2, <1>5, <1>7, <1>8 DEF Gone, Without
  <2>2. CallOf(q)' \notin committed'
    BY <1>1, <1>2, <1>8 DEF Gone
  <2>3. AtStatement(q, k)'
    BY <1>4, <2>1, <2>2 DEF AtStatement
  <2>4. \A j \in Connections : conn'[j].owner = q => j = k
    BY <1>2, <1>7
  <2>5. QED
    BY <1>3, <1>4, <1>5, <1>7, <2>3, <2>4 DEF Transaction
<1>14. \A d \in Calls : d = CallOf(q) => Answers(d)'
  BY <1>0, <1>1, InCall DEF Answers
<1>15. QED
  BY <1>9, <1>10, <1>11, <1>12, <1>13, <1>14 DEF OwnStep

\* A request waits for a connection in vain.
LEMMA ConnectFailsOwn ==
    ASSUME CallsInvariant, NEW q \in Requests, at' = at, ConnectFails(q)
    PROVE  OwnStep(q)
<1>0. Shape /\ Transaction(q) /\ tx[q].step = "connect" /\ CallOf(q) \in Calls
  BY InCall DEF CallsInvariant, ConnectFails
<1>1. Leave(q, "failed") /\ conn' = conn /\ committed' = committed
  BY DEF ConnectFails
<1>2. /\ tx' \in [Requests -> TxRecords]
      /\ tx'[q].step = "none"
      /\ \A r \in Requests \ {q} : tx'[r] = tx[r]
      /\ fate' \in [Calls -> {"none", "acknowledged", "failed", "doubtful"}]
      /\ fate'[CallOf(q)] = "failed"
      /\ \A c \in Calls : c # CallOf(q) => fate'[c] = fate[c]
  BY <1>0, <1>1, LeaveIs
<1>3. Shape' /\ DeadIsEmpty'
  BY <1>0, <1>1, <1>2 DEF Shape, CallsInvariant, DeadIsEmpty
<1>4. Changes(q)
  BY <1>1, <1>2 DEF Changes
<1>5. InOrder(q)'
  BY <1>0, <1>2, <1>4, OrderKept
<1>6. Transaction(q)'
  BY <1>0, <1>1, <1>2 DEF Transaction, InTransaction
<1>7. ASSUME NEW c \in Calls, c = CallOf(q) PROVE Answers(c)'
  <2>1. Gone(c)'
    BY <1>0, <1>1, <1>7 DEF Transaction, Gone, Without
  <2>2. QED
    BY <1>2, <1>7, <2>1 DEF Answers
<1>8. QED
  BY <1>3, <1>4, <1>5, <1>6, <1>7 DEF OwnStep

-----------------------------------------------------------------------------
(***************************************************************************)
(* The steps of a handler, and those of the server.                        *)
(***************************************************************************)
\* A handler never goes back to a call it made.
LEMMA NextStage ==
    ASSUME NEW stage \in CallNames \union ProviderCalls,
           NEW next \in {AfterSuccess(stage), AfterFailure(stage)}
    PROVE  /\ next \in Stages
           /\ next \in CallNames => next \in ToCome(stage)
           /\ ToCome(next) \subseteq ToCome(stage)
BY ProgramAssumption DEF ProviderCalls, Stages, AfterSuccess, AfterFailure, ToCome

\* A handler goes on to its next call.
LEMMA GoOnOwn ==
    ASSUME CallsInvariant, NEW q \in Requests, tx[q].step = "none",
           NEW next \in Stages, next \in CallNames => next \in ToCome(at[q]),
           ToCome(next) \subseteq ToCome(at[q]),
           GoOn(q, next)
    PROVE  OwnStep(q)
<1> DEFINE record == IF next \in CallNames
                     THEN [step |-> "connect", name |-> next, left |-> Statements[next],
                           asked |-> FALSE, spent |-> 0]
                     ELSE NoTx
<1>0. Shape /\ InOrder(q) /\ Transaction(q)
  BY DEF CallsInvariant
<1>1. /\ tx' = [tx EXCEPT ![q] = record]
      /\ conn' = conn /\ fate' = fate /\ committed' = committed
      /\ at' = [at EXCEPT ![q] = next]
  BY DEF GoOn, Enter
<1>2. record \in TxRecords
  BY TenantAssumptions DEF TxRecords, NoTx
<1>3. /\ record.step = IF next \in CallNames THEN "connect" ELSE "none"
      /\ next \in CallNames => record.name = next /\ ~record.asked
  BY DEF NoTx
<1> HIDE DEF record
<1>4. /\ tx'[q] = record /\ at'[q] = next
      /\ \A r \in Requests \ {q} : tx'[r] = tx[r] /\ at'[r] = at[r]
  BY <1>0, <1>1 DEF Shape
<1>5. Shape'
  BY <1>0, <1>1, <1>2 DEF Shape
<1>6. DeadIsEmpty' /\ Changes(q)
  BY <1>1, <1>4 DEF CallsInvariant, DeadIsEmpty, Changes
<1>7. \A c : Gone(c) => Gone(c)'
  BY <1>1 DEF Gone, Without
<1>8. InOrder(q)'
  <2>1. \A n \in ToCome(next) : fate'[<<q, n>>] = "none" /\ Gone(<<q, n>>)'
    BY <1>0, <1>1, <1>7 DEF InOrder
  <2>2. next \in CallNames => fate'[<<q, next>>] = "none"
    BY <1>0, <1>1 DEF InOrder
  <2>3. QED
    BY <1>3, <1>4, <2>1, <2>2 DEF InOrder
<1>9. Transaction(q)'
  <2>1. \A k \in Connections : conn'[k].owner # q
    BY <1>0, <1>1 DEF Transaction, InTransaction
  <2>2. tx'[q].step = "connect" => CallOf(q)' = <<q, next>> /\ ~tx'[q].asked
    BY <1>3, <1>4 DEF CallOf
  <2>3. next \in CallNames => Gone(<<q, next>>)'
    BY <1>0, <1>7 DEF InOrder
  <2>4. QED
    BY <1>3, <1>4, <2>1, <2>2, <2>3 DEF Transaction, InTransaction
<1>10. \A c \in Calls : Answers(c)'
  BY <1>1, <1>7 DEF CallsInvariant, Answers
<1>11. QED
  BY <1>5, <1>6, <1>8, <1>9, <1>10 DEF OwnStep

\* Every step of a request.
LEMMA StepOwn ==
    ASSUME CallsInvariant, NEW q \in Requests,
           Begin(q) \/ DatabaseCallReturns(q) \/ ProviderCallReturns(q) \/ InTransactionStep(q)
    PROVE  OwnStep(q)
<1>0. InOrder(q) /\ at[q] \in Stages
  BY DEF CallsInvariant, Shape
<1>1. CASE Begin(q)
  <2>1. at[q] = "idle" /\ GoOn(q, FirstCall(q))
    BY <1>1 DEF Begin
  <2>2. at[q] \notin CallNames
    BY <2>1, ProgramAssumption
  <2>3. FirstCall(q) \in CallNames /\ FirstCall(q) \in Stages /\ ToCome(at[q]) = CallNames
    BY <2>1, ProgramAssumption DEF FirstCall, Stages, ToCome
  <2>4. tx[q].step = "none" /\ ToCome(FirstCall(q)) \subseteq ToCome(at[q])
    BY <1>0, <2>2, <2>3, StageCalls DEF InOrder
  <2>5. QED
    BY <2>1, <2>3, <2>4, GoOnOwn
<1>2. CASE DatabaseCallReturns(q) \/ ProviderCallReturns(q)
  <2>1. PICK next \in {AfterSuccess(at[q]), AfterFailure(at[q])} : GoOn(q, next)
    BY <1>2 DEF DatabaseCallReturns, ProviderCallReturns, Continue
  <2>2. at[q] \in CallNames \union ProviderCalls
    BY <1>2 DEF DatabaseCallReturns, ProviderCallReturns
  <2>3. at[q] \in ProviderCalls => at[q] \notin CallNames
    BY ProgramAssumption DEF ProviderCalls
  <2>4. tx[q].step = "none"
    BY <1>0, <1>2, <2>3 DEF DatabaseCallReturns, ProviderCallReturns, InOrder
  <2>5. QED
    BY <2>1, <2>2, <2>4, NextStage, GoOnOwn
<1>3. CASE InTransactionStep(q)
  <2>1. CallStep(q) /\ at' = at
    BY <1>3 DEF InTransactionStep, requestVars
  <2>2. QED
    BY <2>1, ConnectOwn, ConnectFailsOwn, DoneOwn, FailsOwn, LateOwn, LostOwn, UnsentOwn
    DEF CallStep
<1>4. QED
  BY <1>1, <1>2, <1>3

\* What ends a statement that was given up on does to its connection.
LEMMA LateEndsIs ==
    ASSUME CallsInvariant, NEW k \in Connections, NEW how \in {"done", "error", "lost"},
           LateEnds(k, how)
    PROVE  /\ conn[k].late \in LateStatements
           /\ conn' \in [Connections -> Sessions]
           /\ \A j \in Connections \ {k} : conn'[j] = conn[j]
           /\ conn'[k].owner = conn[k].owner
           /\ conn'[k].late = None
           /\ conn'[k].writes \subseteq conn[k].writes \union {conn[k].late.call}
           /\ ~conn'[k].alive => conn'[k].owner # None /\ conn'[k].writes = {}
           /\ committed \subseteq committed'
           /\ committed' \subseteq committed \union conn[k].writes
           /\ conn[k].late.kind # "commit" => committed' = committed
<1> DEFINE late == conn[k].late
           idle == [conn[k] EXCEPT !.late = None]
<1>0. Shape /\ conn[k] \in Sessions
  BY DEF CallsInvariant, Shape
<1>1. late # None /\ late \in LateStatements
  BY <1>0 DEF LateEnds, Sessions
<1>2. conn[k].alive
  BY <1>1 DEF CallsInvariant, DeadIsEmpty
<1>3. /\ idle \in Sessions /\ idle.owner = conn[k].owner /\ idle.alive
      /\ idle.writes = conn[k].writes /\ idle.late = None
  BY <1>0, <1>2 DEF Sessions
<1>4. late.kind \in InTransaction /\ late.call \in Calls
  BY <1>1 DEF LateStatements
<1>5. CASE how = "done"
  <2> DEFINE kind == late.kind
             call == late.call
             after == Executed(idle, kind, call)
  <2>1. /\ conn' = [conn EXCEPT ![k] = after]
        /\ committed' = committed \union Commits(idle, kind)
    BY <1>5 DEF LateEnds
  <2>0. kind \in InTransaction /\ call \in Calls
    BY <1>4
  <2> HIDE DEF idle, late, kind, call
  <2>2. /\ after \in Sessions /\ after.owner = idle.owner /\ after.alive = idle.alive
        /\ after.late = idle.late /\ after.writes \subseteq idle.writes \union {call}
    BY <1>3, <2>0, ExecutedIs
  <2> HIDE DEF after
  <2>3. conn'[k] = after /\ \A j \in Connections \ {k} : conn'[j] = conn[j]
    BY <1>0, <2>1 DEF Shape
  <2>4. conn' \in [Connections -> Sessions]
    BY <1>0, <2>1, <2>2 DEF Shape
  <2>5. /\ Commits(idle, kind) \subseteq conn[k].writes
        /\ kind # "commit" => Commits(idle, kind) = {}
    BY <1>3 DEF Commits
  <2>6. QED
    BY <1>1, <1>3, <2>1, <2>2, <2>3, <2>4, <2>5 DEF late, kind, call
<1>6. CASE how \in {"error", "lost"}
  <2> DEFINE after == IF how = "error" THEN Aborted(idle)
                      ELSE IF idle.owner = None THEN Fresh ELSE Dead(idle)
  <2>1. conn' = [conn EXCEPT ![k] = after] /\ committed' = committed
    BY <1>6 DEF LateEnds
  <2> HIDE DEF idle, late
  <2>2. /\ after \in Sessions /\ after.owner = idle.owner /\ after.late = None
        /\ after.writes \subseteq idle.writes
        /\ ~after.alive => after.owner # None /\ after.writes = {}
    BY <1>3, EndedIs DEF Fresh, Sessions
  <2> HIDE DEF after
  <2>3. conn'[k] = after /\ \A j \in Connections \ {k} : conn'[j] = conn[j]
    BY <1>0, <2>1 DEF Shape
  <2>4. conn' \in [Connections -> Sessions]
    BY <1>0, <2>1, <2>2 DEF Shape
  <2>5. QED
    BY <1>1, <1>3, <2>1, <2>2, <2>3, <2>4 DEF late
<1>7. QED
  BY <1>5, <1>6

\* A late statement ends at the server, on whosever connection.
LEMMA LateEndsKeeps ==
    ASSUME CallsInvariant, NEW k \in Connections, ServerEnds(k)
    PROVE  CallsInvariant'
<1>1. PICK how \in {"done", "error", "lost"} : LateEnds(k, how)
  BY DEF ServerEnds
<1>2. tx' = tx /\ fate' = fate /\ at' = at
  BY <1>1 DEF ServerEnds, requestVars, LateEnds
<1> DEFINE late == conn[k].late
<1>3. /\ conn[k].late \in LateStatements
      /\ conn' \in [Connections -> Sessions]
      /\ \A j \in Connections \ {k} : conn'[j] = conn[j]
      /\ conn'[k].owner = conn[k].owner
      /\ conn'[k].late = None
      /\ conn'[k].writes \subseteq conn[k].writes \union {conn[k].late.call}
      /\ ~conn'[k].alive => conn'[k].owner # None /\ conn'[k].writes = {}
      /\ committed \subseteq committed'
      /\ committed' \subseteq committed \union conn[k].writes
      /\ conn[k].late.kind # "commit" => committed' = committed
  BY <1>1, LateEndsIs
<1>4. conn[k].late # None
  BY <1>1 DEF LateEnds
<1>5. Shape'
  <2>1. committed' \subseteq Calls
    BY <1>3 DEF CallsInvariant, Shape, Sessions
  <2>2. QED
    BY <1>2, <1>3, <2>1 DEF CallsInvariant, Shape
<1>6. DeadIsEmpty'
  BY <1>3 DEF CallsInvariant, DeadIsEmpty
<1>7. ASSUME NEW c, Without(k, c)
      PROVE  Without(k, c)' /\ (c \notin committed => c \notin committed')
  BY <1>3, <1>4, <1>7 DEF Without
<1>8. ASSUME NEW c, NEW j \in Connections \ {k}, Without(j, c) PROVE Without(j, c)'
  BY <1>3, <1>8 DEF Without
<1>9. ASSUME NEW c, Gone(c) PROVE Gone(c)'
  BY <1>7, <1>8, <1>9 DEF Gone
<1>10. ASSUME NEW r \in Requests PROVE InOrder(r)'
  BY <1>2, <1>9 DEF CallsInvariant, InOrder
<1>11. ASSUME NEW r \in Requests PROVE Transaction(r)'
  <2>0. Transaction(r) /\ CallOf(r)' = CallOf(r)
    BY <1>2 DEF CallsInvariant, CallOf
  <2>1. \A j \in Connections : conn'[j].owner = conn[j].owner
    BY <1>3
  <2>2. ASSUME tx[r].step \in InTransaction
        PROVE  \E m \in Connections : conn'[m].owner = r /\ AtStatement(r, m)'
    <3> PICK m \in Connections : conn[m].owner = r /\ AtStatement(r, m)
      BY <2>0, <2>2 DEF Transaction
    <3>1. CASE m = k
      <4>1. tx[r].step \in {"begin", "rollback"}
        BY <1>4, <2>2, <3>1 DEF AtStatement, InOwnTransaction, InTransaction
      <4>2. \A j \in Connections \ {k} : Without(j, CallOf(r))'
        BY <1>8, <2>0, <3>1 DEF AtStatement, Without
      <4>3. tx[r].step = "begin" => Without(k, CallOf(r))'
        BY <1>7, <2>0, <3>1 DEF AtStatement, Without
      <4>4. ~tx[r].asked => CallOf(r) \notin committed'
        <5>1. CASE tx[r].step = "begin" \/ Without(k, CallOf(r))
          BY <1>7, <3>1, <5>1 DEF AtStatement
        <5>2. CASE conn[k].late.kind # "commit"
          BY <1>3, <3>1, <5>2 DEF AtStatement
        <5>3. QED
          BY <1>4, <3>1, <4>1, <5>1, <5>2 DEF AtStatement
      <4>5. AtStatement(r, k)'
        BY <1>2, <1>3, <2>0, <3>1, <4>1, <4>2, <4>3, <4>4 DEF AtStatement
      <4>6. QED
        BY <2>1, <3>1, <4>5
    <3>2. CASE m # k
      <4>1. conn'[m] = conn[m] /\ Without(k, CallOf(r))
        BY <1>3, <3>2 DEF AtStatement
      <4>2. \A j \in Connections \ {m} : Without(j, CallOf(r))'
        BY <1>7, <1>8, <2>0, <4>1 DEF AtStatement, Without
      <4>3. ~tx[r].asked => CallOf(r) \notin committed'
        BY <1>7, <4>1 DEF AtStatement
      <4>4. AtStatement(r, m)'
        BY <1>2, <2>0, <4>1, <4>2, <4>3 DEF AtStatement, InOwnTransaction, Without
      <4>5. QED
        BY <2>1, <4>4
    <3>3. QED
      BY <3>1, <3>2
  <2>3. tx[r].step = "connect" => Gone(CallOf(r))'
    BY <1>9, <2>0 DEF Transaction
  <2>4. QED
    BY <1>2, <2>0, <2>1, <2>2, <2>3 DEF Transaction
<1>12. ASSUME NEW c \in Calls PROVE Answers(c)'
  BY <1>2, <1>3, <1>9 DEF CallsInvariant, Answers
<1>13. QED
  BY <1>5, <1>6, <1>10, <1>11, <1>12 DEF CallsInvariant

\* What touches neither database nor handlers keeps the invariant.
LEMMA UntouchedKeeps ==
    ASSUME CallsInvariant, conn' = conn, tx' = tx, fate' = fate, committed' = committed, at' = at
    PROVE  CallsInvariant'
<1>1. Shape' /\ DeadIsEmpty'
  BY DEF CallsInvariant, Shape, DeadIsEmpty
<1>2. \A c : Gone(c) => Gone(c)'
  BY DEF Gone, Without
<1>3. ASSUME NEW r \in Requests PROVE InOrder(r)' /\ Transaction(r)'
  <2>1. InOrder(r)'
    BY <1>2 DEF CallsInvariant, InOrder
  <2>2. Transaction(r)'
    <3>1. CallOf(r)' = CallOf(r) /\ Transaction(r)
      BY DEF CallsInvariant, CallOf
    <3>2. QED
      BY <3>1 DEF Transaction, AtStatement, InOwnTransaction, Gone, Without
  <2>3. QED
    BY <2>1, <2>2
<1>4. \A c \in Calls : Answers(c)'
  BY <1>2 DEF CallsInvariant, Answers
<1>5. QED
  BY <1>1, <1>3, <1>4 DEF CallsInvariant

-----------------------------------------------------------------------------
(***************************************************************************)
(* The theorems about calls.                                               *)
(***************************************************************************)
\* It holds before the first request.
LEMMA CallsInvariantInit == Init => CallsInvariant
<1> SUFFICES ASSUME Init PROVE CallsInvariant
  OBVIOUS
<1>1. /\ conn = [k \in Connections |-> Fresh] /\ tx = [r \in Requests |-> NoTx]
      /\ fate = [c \in Calls |-> "none"] /\ committed = {}
      /\ at = [r \in Requests |-> "idle"]
  BY DEF Init, TxInit
<1>2. Fresh \in Sessions /\ NoTx \in TxRecords /\ "idle" \in Stages
  BY DEF Fresh, NoTx, Sessions, TxRecords, Stages
<1>3. Shape
  BY <1>1, <1>2 DEF Shape
<1>4. DeadIsEmpty /\ \A c : Gone(c)
  BY <1>1 DEF DeadIsEmpty, Gone, Without, Fresh
<1>5. \A r \in Requests : tx[r].step = "none" /\ at[r] = "idle"
  BY <1>1 DEF NoTx
<1>6. ASSUME NEW r \in Requests PROVE InOrder(r)
  <2>1. ToCome(at[r]) = CallNames
    BY <1>5 DEF ToCome
  <2>2. \A n \in CallNames : fate[<<r, n>>] = "none"
    BY <1>1 DEF Calls
  <2>3. QED
    BY <1>4, <1>5, <2>1, <2>2 DEF InOrder
<1>7. ASSUME NEW r \in Requests PROVE Transaction(r)
  <2>1. \A k \in Connections : conn[k].owner # r
    BY <1>1, TenantAssumptions DEF Fresh
  <2>2. QED
    BY <1>5, <2>1 DEF Transaction, InTransaction
<1>8. \A c \in Calls : Answers(c)
  BY <1>1, <1>4 DEF Answers
<1>9. QED
  BY <1>3, <1>4, <1>6, <1>7, <1>8 DEF CallsInvariant

\* Every step keeps it, and what is committed stays so.
LEMMA CallsInvariantNext ==
    ASSUME CallsInvariant, [Next]_vars
    PROVE  CallsInvariant' /\ committed \subseteq committed'
<1>1. ASSUME NEW q \in Requests,
             Begin(q) \/ DatabaseCallReturns(q) \/ ProviderCallReturns(q) \/ InTransactionStep(q)
      PROVE  CallsInvariant' /\ committed \subseteq committed'
  <2>1. OwnStep(q)
    BY <1>1, StepOwn
  <2>2. CallsInvariant'
    BY <2>1, OwnStepSuffices
  <2>3. committed \subseteq committed'
    BY <2>1 DEF OwnStep, Changes, ChangesConnection
  <2>4. QED
    BY <2>2, <2>3
<1>2. ASSUME NEW q \in Requests, AtProviderStep(q) \/ ClientGoes(q)
      PROVE  CallsInvariant' /\ committed \subseteq committed'
  <2>1. conn' = conn /\ tx' = tx /\ fate' = fate /\ committed' = committed /\ at' = at
    BY <1>2 DEF AtProviderStep, ClientGoes, txVars, requestVars
  <2>2. QED
    BY <2>1, UntouchedKeeps
<1>3. ASSUME NEW k \in Connections, ServerEnds(k)
      PROVE  CallsInvariant' /\ committed \subseteq committed'
  <2>1. CallsInvariant'
    BY <1>3, LateEndsKeeps
  <2>2. committed \subseteq committed'
    BY <1>3, LateEndsIs DEF ServerEnds
  <2>3. QED
    BY <2>1, <2>2
<1>4. CASE Shutdown \/ DatabaseCloses \/ Finished \/ UNCHANGED vars
  <2>1. conn' = conn /\ tx' = tx /\ fate' = fate /\ committed' = committed /\ at' = at
    BY <1>4 DEF Shutdown, DatabaseCloses, EndPool, Finished, vars, txVars, requestVars
  <2>2. QED
    BY <2>1, UntouchedKeeps
<1>5. QED
  BY <1>1, <1>2, <1>3, <1>4 DEF Next, Step

\* The invariant of the calls.
THEOREM CallsInvariantHolds == Spec => []CallsInvariant
<1>1. CallsInvariant /\ [Next]_vars => CallsInvariant'
  BY CallsInvariantNext
<1>2. QED
  BY <1>1, CallsInvariantInit, PTL DEF Spec

\* Every connection a request takes from the pool, it gives back
\* (withTenant's finally).
THEOREM ConnectionsReturned == Spec => []ConnectionsAreReturned
<1>1. CallsInvariant => ConnectionsAreReturned
  <2> SUFFICES ASSUME CallsInvariant PROVE ConnectionsAreReturned
    OBVIOUS
  <2>1. ASSUME NEW k \in Connections, conn[k].owner # None
        PROVE  tx[conn[k].owner].step \in InTransaction
    <3>1. conn[k].owner \in Requests
      BY <2>1 DEF CallsInvariant, Shape, Sessions
    <3>2. QED
      BY <3>1 DEF CallsInvariant, Transaction
  <2>2. ASSUME NEW r \in Requests, tx[r].step \in InTransaction
        PROVE  \E k \in Connections : \A j \in Connections : conn[j].owner = r <=> j = k
    BY <2>2, AtConnection
  <2>3. QED
    BY <2>1, <2>2 DEF ConnectionsAreReturned
<1>2. QED
  BY <1>1, CallsInvariantHolds, PTL

\* A statement of a handler runs in a transaction of its own tenant, whatever was
\* left on its connection (withTenant's set_config).
THEOREM TenantsKeptApart == Spec => []StatementsRunAsTheirTenant
<1>1. CallsInvariant => StatementsRunAsTheirTenant
  <2> SUFFICES ASSUME CallsInvariant, NEW r \in Requests, tx[r].step \in {"work", "commit"}
               PROVE  conn[ConnectionOf(r)].tenant = TenantOf[r]
    BY DEF StatementsRunAsTheirTenant
  <2>1. tx[r].step \in InTransaction
    BY DEF InTransaction
  <2>2. AtStatement(r, ConnectionOf(r))
    BY <2>1, AtConnection
  <2>3. QED
    BY <2>2 DEF AtStatement
<1>2. QED
  BY <1>1, CallsInvariantHolds, PTL

\* A call that is acknowledged is committed, and one that failed is not and never
\* will be (withTenant's commit and rollback).
THEOREM AnswersAreTrue == Spec => []AnswersMatchTheDatabase
<1>1. CallsInvariant => AnswersMatchTheDatabase
  BY DEF CallsInvariant, Answers, Gone, AnswersMatchTheDatabase
<1>2. QED
  BY <1>1, CallsInvariantHolds, PTL

-----------------------------------------------------------------------------
(***************************************************************************)
(* The publish of a reply.                                                 *)
(***************************************************************************)
ReplyStages ==
    {"idle", "claim", "publish", "record", "store", "complete", "settle", "ended"}

CallRecords ==
    [step : {"none", "attempt", "sleep", "answered", "failed"}, policy : Policies,
     attempt : Int, took : Int]

\* One write at most has left the process, and none without its claim.
PublishState(r) ==
    /\ at[r] \in ReplyStages
    /\ calling[r] \in CallRecords
    /\ sent[r] \in {0, 1}
    /\ at[r] \in {"idle", "claim"} => sent[r] = 0
    /\ at[r] = "publish" => calling[r].policy = "write" /\ calling[r].step # "sleep"
    /\ sent[r] > 0 => <<r, "claim">> \in committed

PublishInvariant ==
    /\ DOMAIN calling = Requests /\ DOMAIN sent = Requests
    /\ \A r \in Requests : Program[r] = "reply" => PublishState(r)

\* No publish was sent before the first request.
LEMMA PublishInvariantInit == Init => PublishInvariant
<1> SUFFICES ASSUME Init PROVE PublishInvariant
  OBVIOUS
<1>1. /\ calling = [c \in Requests |-> NoCallUnderWay] /\ sent = [c \in Requests |-> 0]
      /\ at = [r \in Requests |-> "idle"]
  BY ProgramAssumption DEF Init, ProviderInit
<1>2. NoCallUnderWay \in CallRecords
  BY DEF NoCallUnderWay, CallRecords, Policies
<1>3. QED
  BY <1>1, <1>2 DEF PublishInvariant, PublishState, ReplyStages

\* Going on to another call sends a write only on the way to the publish.
LEMMA GoOnSends ==
    ASSUME PublishInvariant, NEW q \in Requests, NEW next, GoOn(q, next), Shape,
           committed \subseteq committed',
           Program[q] = "reply" =>
              /\ next \in ReplyStages \ {"idle"}
              /\ next = "claim" => sent[q] = 0
              /\ next = "publish" => sent[q] = 0 /\ <<q, "claim">> \in committed
    PROVE  PublishInvariant'
<1>1. at' = [at EXCEPT ![q] = next] /\ DOMAIN at = Requests
  BY DEF GoOn, Shape
<1>2. \E record \in CallRecords :
         /\ calling' = [calling EXCEPT ![q] = record]
         /\ next = "publish" => record.policy = "write" /\ record.step # "sleep"
  <2>1. CASE next \in ProviderCalls
    <3> DEFINE policy == IF next = "publish" THEN "write" ELSE "read"
               record == [step |-> "attempt", policy |-> policy,
                          attempt |-> 1, took |-> 0 + ProviderTimeout]
    <3>1. calling' = [calling EXCEPT ![q] = record]
      BY <2>1 DEF GoOn, StartCall, SendAttempt
    <3>2. record \in CallRecords
      BY ProviderAssumptions DEF CallRecords, Policies
    <3>3. QED
      BY <3>1, <3>2
  <2>2. CASE next \notin ProviderCalls
    <3>1. calling' = [calling EXCEPT ![q] = NoCallUnderWay]
      BY <2>2 DEF GoOn
    <3>2. NoCallUnderWay \in CallRecords /\ next # "publish"
      BY <2>2 DEF NoCallUnderWay, CallRecords, Policies, ProviderCalls
    <3>3. QED
      BY <3>1, <3>2
  <2>3. QED
    BY <2>1, <2>2
<1>3. IF next = "publish" THEN sent' = [sent EXCEPT ![q] = sent[q] + 1] ELSE sent' = sent
  BY DEF GoOn, StartCall, SendAttempt, ProviderCalls
<1>4. ASSUME NEW r \in Requests, Program[r] = "reply" PROVE PublishState(r)'
  <2>1. CASE r = q
    BY <1>1, <1>2, <1>3, <1>4, <2>1 DEF PublishInvariant, PublishState
  <2>2. CASE r # q
    BY <1>1, <1>2, <1>3, <1>4, <2>2 DEF PublishInvariant, PublishState
  <2>3. QED
    BY <2>1, <2>2
<1>5. QED
  BY <1>2, <1>3, <1>4 DEF PublishInvariant

\* Every step keeps the order of claim and publish.
LEMMA PublishInvariantNext ==
    ASSUME CallsInvariant, PublishInvariant, [Next]_vars
    PROVE  PublishInvariant'
<1>0. Shape /\ committed \subseteq committed'
  BY CallsInvariantNext DEF CallsInvariant
<1>1. ASSUME NEW q \in Requests, Begin(q) PROVE PublishInvariant'
  <2>1. at[q] = "idle" /\ GoOn(q, FirstCall(q))
    BY <1>1 DEF Begin
  <2>2. Program[q] = "reply" => FirstCall(q) = "claim" /\ sent[q] = 0
    BY <2>1 DEF PublishInvariant, PublishState, FirstCall
  <2>3. QED
    BY <1>0, <2>1, <2>2, GoOnSends DEF ReplyStages
<1>2. ASSUME NEW q \in Requests, DatabaseCallReturns(q) PROVE PublishInvariant'
  <2> DEFINE next == IF fate[<<q, at[q]>>] = "acknowledged"
                     THEN AfterSuccess(at[q]) ELSE AfterFailure(at[q])
  <2>1. GoOn(q, next) /\ at[q] \in CallNames
    BY <1>2 DEF DatabaseCallReturns, Continue
  <2>2. ASSUME Program[q] = "reply"
        PROVE  /\ next \in ReplyStages \ {"idle", "claim"}
               /\ next = "publish" => sent[q] = 0 /\ <<q, "claim">> \in committed
    <3>1. at[q] \in {"claim", "record", "store", "complete", "settle"}
      BY <2>1, <2>2, ProgramAssumption DEF PublishInvariant, PublishState, ReplyStages
    <3>2. next = "publish" => at[q] = "claim" /\ fate[<<q, "claim">>] = "acknowledged"
      BY <3>1 DEF AfterSuccess, AfterFailure
    <3>3. <<q, "claim">> \in Calls
      BY ProgramAssumption DEF Calls
    <3>4. next = "publish" => sent[q] = 0 /\ <<q, "claim">> \in committed
      BY <2>2, <3>2, <3>3 DEF PublishInvariant, PublishState, CallsInvariant, Answers
    <3>5. next \in ReplyStages \ {"idle", "claim"}
      BY <3>1 DEF AfterSuccess, AfterFailure, ReplyStages
    <3>6. QED
      BY <3>4, <3>5
  <2> HIDE DEF next
  <2>3. QED
    BY <1>0, <2>1, <2>2, GoOnSends
<1>3. ASSUME NEW q \in Requests, ProviderCallReturns(q) PROVE PublishInvariant'
  <2> DEFINE next == IF calling[q].step = "answered"
                     THEN AfterSuccess(at[q]) ELSE AfterFailure(at[q])
  <2>1. GoOn(q, next) /\ at[q] \in ProviderCalls
    BY <1>3 DEF ProviderCallReturns, Continue
  <2>2. Program[q] = "reply" => next \in {"record", "settle"}
    <3>1. Program[q] = "reply" => at[q] = "publish"
      BY <2>1 DEF PublishInvariant, PublishState, ReplyStages, ProviderCalls
    <3>2. QED
      BY <3>1 DEF AfterSuccess, AfterFailure
  <2> HIDE DEF next
  <2>3. QED
    BY <1>0, <2>1, <2>2, GoOnSends DEF ReplyStages
<1>4. ASSUME NEW q \in Requests, AtProviderStep(q) PROVE PublishInvariant'
  <2>1. at[q] \in ProviderCalls /\ ProviderStep(q) /\ at' = at /\ committed' = committed
    BY <1>4 DEF AtProviderStep, requestVars, txVars
  <2>2. /\ DOMAIN calling' = Requests /\ DOMAIN sent' = Requests
        /\ \A r \in Requests \ {q} : calling'[r] = calling[r] /\ sent'[r] = sent[r]
    BY <2>1 DEF PublishInvariant, ProviderStep, AttemptSucceeds, AttemptFails, NextAttempt,
       EndCall, SendAttempt
  <2>3. ASSUME Program[q] = "reply" PROVE PublishState(q)'
    <3>1. at[q] = "publish" /\ PublishState(q)
      BY <2>1, <2>3 DEF PublishInvariant, PublishState, ReplyStages, ProviderCalls
    <3>2. PICK result \in {"answered", "failed"} : EndCall(q, result)
      <4>1. \A error \in Errors :
              RetryDelayFor(calling[q].policy, error, calling[q].attempt) = {}
        BY <3>1 DEF PublishState, RetryDelayFor, ShouldRetry
      <4>2. ~NextAttempt(q)
        BY <3>1 DEF PublishState, NextAttempt
      <4>3. QED
        BY <2>1, <4>1, <4>2 DEF ProviderStep, AttemptSucceeds, AttemptFails
    <3>3. calling'[q] = [calling[q] EXCEPT !.step = result] /\ sent' = sent
      BY <3>2 DEF EndCall, PublishInvariant
    <3>4. /\ calling'[q] \in CallRecords /\ calling'[q].step = result
          /\ calling'[q].policy = calling[q].policy
      BY <3>1, <3>3 DEF PublishState, CallRecords
    <3>5. QED
      BY <2>1, <3>1, <3>3, <3>4 DEF PublishState
  <2>4. ASSUME NEW r \in Requests \ {q}, Program[r] = "reply" PROVE PublishState(r)'
    BY <2>1, <2>2, <2>4 DEF PublishInvariant, PublishState
  <2>5. QED
    BY <2>2, <2>3, <2>4 DEF PublishInvariant
<1>5. CASE calling' = calling /\ sent' = sent /\ at' = at
  BY <1>0, <1>5 DEF PublishInvariant, PublishState
<1>6. QED
  BY <1>1, <1>2, <1>3, <1>4, <1>5
  DEF Next, Step, InTransactionStep, ClientGoes, ServerEnds, Shutdown, DatabaseCloses, Finished,
      vars, providerVars, requestVars

\* A reply leaves the process at most once, and only under its committed claim
\* (replyToComment, callProvider's retry policies).
THEOREM RepliesArePublishedOnce == Spec => []PublishedOnceUnderItsClaim
<1>1. PublishInvariant => PublishedOnceUnderItsClaim
  BY DEF PublishInvariant, PublishState, PublishedOnceUnderItsClaim
<1>2. CallsInvariant /\ PublishInvariant /\ [Next]_vars => PublishInvariant'
  BY PublishInvariantNext
<1>3. QED
  BY <1>1, <1>2, PublishInvariantInit, CallsInvariantHolds, PTL DEF Spec

-----------------------------------------------------------------------------
(***************************************************************************)
(* Shutting down.                                                          *)
(***************************************************************************)
ShutdownInvariant == ended => closing /\ ServerMayClose

\* Every step keeps the order of the shutdown.
LEMMA ShutdownInvariantNext ==
    ASSUME Shape, ShutdownInvariant, [Next]_vars
    PROVE  ShutdownInvariant'
<1>1. ASSUME NEW q \in Requests, Begin(q) PROVE ShutdownInvariant'
  <2>1. ~closing /\ ended' = ended
    BY <1>1 DEF Begin, GoOn, Enter
  <2>2. QED
    BY <2>1 DEF ShutdownInvariant
<1>2. ASSUME NEW q \in Requests, DatabaseCallReturns(q) \/ ProviderCallReturns(q)
      PROVE  ShutdownInvariant'
  <2>1. PICK next : GoOn(q, next)
    BY <1>2 DEF DatabaseCallReturns, ProviderCallReturns, Continue
  <2>2. /\ at' = [at EXCEPT ![q] = next] /\ DOMAIN at = Requests
        /\ abandoned' = IF next = "ended" THEN abandoned \ {q} ELSE abandoned
        /\ closing' = closing /\ ended' = ended
    BY <2>1 DEF GoOn, Enter, Shape
  <2>3. Active(q)
    BY <1>2, ProgramAssumption
    DEF DatabaseCallReturns, ProviderCallReturns, Active, ProviderCalls
  <2>4. ASSUME NEW r \in Requests, Active(r)', ended PROVE r \in abandoned'
    <3>1. Active(r) => r \in abandoned
      BY <2>4 DEF ShutdownInvariant, ServerMayClose
    <3>2. Active(r) /\ (r = q => next # "ended")
      BY <2>2, <2>3, <2>4 DEF Active
    <3>3. QED
      BY <2>2, <3>1, <3>2
  <2>5. QED
    BY <2>2, <2>4 DEF ShutdownInvariant, ServerMayClose
<1>3. CASE ended' = ended /\ at' = at /\ abandoned \subseteq abandoned'
           /\ (closing => closing')
  BY <1>3 DEF ShutdownInvariant, ServerMayClose, Active
<1>4. ASSUME NEW q \in Requests, InTransactionStep(q) PROVE ShutdownInvariant'
  <2>1. ended' = ended
    BY <1>4 DEF InTransactionStep, CallStep, Connect, ConnectFails, StatementDone,
       StatementFails, StatementLate, ConnectionLost, StatementUnsent, RollBack, GiveUp
  <2>2. at' = at /\ abandoned' = abandoned /\ closing' = closing
    BY <1>4 DEF InTransactionStep, requestVars
  <2>3. QED
    BY <1>3, <2>1, <2>2
<1>5. ASSUME NEW q \in Requests, AtProviderStep(q) \/ ClientGoes(q) PROVE ShutdownInvariant'
  BY <1>3, <1>5 DEF AtProviderStep, ClientGoes, txVars, requestVars
<1>6. ASSUME NEW k \in Connections, ServerEnds(k) PROVE ShutdownInvariant'
  BY <1>3, <1>6 DEF ServerEnds, LateEnds, requestVars
<1>7. CASE DatabaseCloses
  BY <1>7 DEF DatabaseCloses, ShutdownInvariant, ServerMayClose, Active, requestVars
<1>8. CASE Shutdown \/ Finished \/ UNCHANGED vars
  BY <1>3, <1>8 DEF Shutdown, Finished, vars, txVars, requestVars
<1>9. QED
  BY <1>1, <1>2, <1>4, <1>5, <1>6, <1>7, <1>8 DEF Next, Step

\* A connection nothing has happened to.
Sound(k) == conn[k].alive /\ conn[k].late = None /\ conn[k].session # "aborted"

\* As long as there was no fault, every connection is sound and nothing is rolled
\* back.
Faultless ==
    /\ faults \in Nat
    /\ faults = 0 => /\ \A k \in Connections : Sound(k)
                     /\ \A r \in Requests : tx[r].step # "rollback"

\* A statement that is answered on a sound connection leaves it sound.
LEMMA DoneFaultless ==
    ASSUME CallsInvariant, Faultless, NEW q \in Requests, StatementDone(q), faults = 0
    PROVE  /\ \A k \in Connections : Sound(k)'
           /\ tx'[q].step # "rollback" /\ \A r \in Requests \ {q} : tx'[r] = tx[r]
           /\ tx[q].step # "commit" => fate' = fate
<1> DEFINE k == ConnectionOf(q)
           c == CallOf(q)
           after == Executed(conn[k], tx[q].step, c)
<1>1. tx[q].step \in InTransaction \ {"rollback"} /\ tx[q].step # "none" /\ Shape
  BY DEF StatementDone, Faultless, InTransaction, CallsInvariant
<1>2. k \in Connections /\ conn[k] \in Sessions /\ Sound(k) /\ DOMAIN conn = Connections
  BY <1>1, AtConnection DEF Faultless, Shape
<1>3. c \in Calls
  BY <1>1, InCall
<1>4. /\ after \in Sessions /\ after.alive /\ after.late = None
      /\ after.session # "aborted"
  <2>1. /\ after \in Sessions /\ after.alive = conn[k].alive /\ after.late = conn[k].late
        /\ tx[q].step = "begin" => after.session = "open"
        /\ tx[q].step \in {"scope", "work"} => after.session = conn[k].session
    BY <1>1, <1>2, <1>3, ExecutedIs
  <2>2. tx[q].step = "commit" => after.session = "clean"
    BY <1>2 DEF Executed, Closed, Sessions
  <2>3. QED
    BY <1>1, <1>2, <2>1, <2>2 DEF Sound, InTransaction
<1>5. Released(after).alive /\ Released(after).late = None /\ Released(after).session # "aborted"
  BY <1>4 DEF Released, Sessions
<1>6. CASE tx[q].step = "commit"
  <2>1. conn' = [conn EXCEPT ![k] = Released(after)] /\ Leave(q, "acknowledged")
    BY <1>6 DEF StatementDone
  <2> HIDE DEF after, k, c
  <2>2. tx'[q].step = "none" /\ \A r \in Requests \ {q} : tx'[r] = tx[r]
    BY <1>1, <2>1 DEF Leave, Shape, TxRecords
  <2>3. QED
    BY <1>2, <1>5, <1>6, <2>1, <2>2 DEF Faultless, Sound
<1>7. CASE tx[q].step # "commit"
  <2> DEFINE step == Following(q)
             left == IF tx[q].step = "work" THEN tx[q].left - 1 ELSE tx[q].left
             asked == FALSE
             time == QueryTimeout
  <2>1. /\ conn' = [conn EXCEPT ![k] = after]
        /\ Then(q, step, left, asked, time)
        /\ fate' = fate
    BY <1>1, <1>7 DEF StatementDone, InTransaction
  <2>2. step \in {"scope", "work", "commit"}
    BY <1>1, <1>7 DEF Following, InTransaction
  <2> HIDE DEF after, k, c, step, left, asked, time
  <2>3. tx'[q].step = step /\ \A r \in Requests \ {q} : tx'[r] = tx[r]
    BY <1>1, <2>1 DEF Then, Shape, TxRecords
  <2>4. QED
    BY <1>2, <1>4, <1>7, <2>1, <2>2, <2>3 DEF Faultless, Sound
<1>8. QED
  BY <1>6, <1>7

\* No step makes a connection unsound, or rolls back, without a fault.
LEMMA FaultlessNext ==
    ASSUME CallsInvariant, Faultless, [Next]_vars
    PROVE  Faultless'
<1>0. Shape /\ faults \in Nat
  BY DEF CallsInvariant, Faultless
<1>1. ASSUME NEW q \in Requests, CallStep(q) PROVE Faultless'
  <2>1. ASSUME Fault PROVE Faultless'
    <3>1. faults' \in Nat /\ faults' # 0
      BY <1>0, <2>1 DEF Fault
    <3>2. QED
      BY <3>1 DEF Faultless
  <2>2. ASSUME NEW k \in Connections, Connect(q, k) PROVE Faultless'
    <3>1. conn' = [conn EXCEPT ![k].owner = q] /\ faults' = faults
      BY <2>2 DEF Connect
    <3>2. \A j \in Connections : Sound(j) => Sound(j)'
      BY <1>0, <3>1 DEF Sound, Shape, Sessions
    <3>3. \A r \in Requests : tx[r].step # "rollback" => tx'[r].step # "rollback"
      BY <1>0, <2>2 DEF Connect, Then, Shape, TxRecords
    <3>4. QED
      BY <3>1, <3>2, <3>3 DEF Faultless
  <2>3. ASSUME ConnectFails(q) PROVE Faultless'
    <3>1. \A r \in Requests : tx[r].step # "rollback" => tx'[r].step # "rollback"
      BY <1>0, <2>3 DEF ConnectFails, Leave, Shape, TxRecords
    <3>2. QED
      BY <2>3, <3>1 DEF ConnectFails, Faultless, Sound
  <2>4. ASSUME StatementDone(q) PROVE Faultless'
    <3>1. faults' = faults
      BY <2>4 DEF StatementDone
    <3>2. faults = 0 => /\ \A k \in Connections : Sound(k)'
                        /\ \A r \in Requests : tx'[r].step # "rollback"
      BY <2>4, DoneFaultless DEF Faultless
    <3>3. QED
      BY <3>1, <3>2 DEF Faultless
  <2>5. ASSUME StatementFails(q) \/ StatementUnsent(q), ~Fault PROVE Faultless'
    <3> DEFINE k == ConnectionOf(q)
    <3>1. tx[q].step \in InTransaction /\ faults' = faults
      BY <2>5 DEF StatementFails, StatementUnsent
    <3>2. k \in Connections
      BY <3>1, AtConnection
    <3>3. ~Sound(k)
      BY <2>5 DEF StatementFails, StatementUnsent, Accepts, Sound
    <3>4. faults # 0
      BY <3>2, <3>3 DEF Faultless
    <3>5. QED
      BY <1>0, <3>1, <3>4 DEF Faultless
  <2>6. QED
    BY <1>1, <2>1, <2>2, <2>3, <2>4, <2>5 DEF CallStep, StatementLate, ConnectionLost
<1>2. ASSUME NEW q \in Requests, NEW next, GoOn(q, next) PROVE Faultless'
  <2>1. conn' = conn /\ faults' = faults
    BY <1>2 DEF GoOn, Enter
  <2>2. \A r \in Requests : tx[r].step # "rollback" => tx'[r].step # "rollback"
    BY <1>0, <1>2 DEF GoOn, Enter, NoTx, Shape
  <2>3. QED
    BY <2>1, <2>2 DEF Faultless, Sound
<1>3. ASSUME NEW k \in Connections, ServerEnds(k) PROVE Faultless'
  <2>1. ~Sound(k) /\ faults' = faults
    BY <1>3 DEF ServerEnds, LateEnds, Sound
  <2>2. QED
    BY <1>0, <2>1 DEF Faultless
<1>4. CASE UNCHANGED <<conn, tx, faults>>
  BY <1>4 DEF Faultless, Sound
<1>5. QED
  BY <1>1, <1>2, <1>3, <1>4
  DEF Next, Step, Begin, DatabaseCallReturns, ProviderCallReturns, Continue, InTransactionStep,
      AtProviderStep, ClientGoes, Shutdown, DatabaseCloses, EndPool, Finished, vars, txVars

\* What a step makes of a call has one of the reasons.
LEMMA FailureHasAReason ==
    ASSUME CallsInvariant, ShutdownInvariant, Faultless, [Next]_vars,
           NEW r \in Requests, NEW name \in CallNames,
           fate'[<<r, name>>] # fate[<<r, name>>], fate'[<<r, name>>] \in {"failed", "doubtful"},
           faults = 0
    PROVE  \/ ended /\ r \in abandoned
           \/ \A k \in Connections : conn[k].owner \notin {None, r}
<1>0. Shape
  BY DEF CallsInvariant
<1>1. fate' # fate
  OBVIOUS
<1>2. PICK q \in Requests : InTransactionStep(q)
  <2>1. \A q \in Requests : \A next : GoOn(q, next) => fate' = fate
    BY DEF GoOn, Enter
  <2>2. \A k \in Connections : ServerEnds(k) => fate' = fate
    BY DEF ServerEnds, LateEnds
  <2>3. QED
    BY <1>1, <2>1, <2>2
    DEF Next, Step, Begin, DatabaseCallReturns, ProviderCallReturns, Continue, AtProviderStep,
        ClientGoes, Shutdown, DatabaseCloses, EndPool, Finished, vars, txVars
<1>3. at[q] \in CallNames /\ CallStep(q)
  BY <1>2 DEF InTransactionStep
<1>4. \A k \in Connections : ~Connect(q, k)
  BY <1>1 DEF Connect
<1>5. ~StatementDone(q)
  <2> SUFFICES ASSUME StatementDone(q) PROVE FALSE
    OBVIOUS
  <2>1. tx[q].step = "commit"
    BY <1>1, DoneFaultless
  <2>2. Leave(q, "acknowledged")
    BY <2>1 DEF StatementDone
  <2>3. QED
    BY <1>0, <2>2 DEF Leave, Shape, Calls
<1>6. /\ ~StatementFails(q) /\ ~ConnectionLost(q)
      /\ ~StatementLate(q)
  BY <1>1 DEF StatementFails, ConnectionLost, StatementLate, RollBack, Faultless
<1>7. ~StatementUnsent(q)
  <2>1. tx[q].step \in InTransaction => Sound(ConnectionOf(q))
    BY AtConnection DEF Faultless
  <2>2. QED
    BY <2>1 DEF StatementUnsent, Sound
<1>8. ConnectFails(q)
  BY <1>3, <1>4, <1>5, <1>6, <1>7 DEF CallStep
<1>9. r = q
  <2>1. fate' = [fate EXCEPT ![CallOf(q)] = "failed"]
    BY <1>8 DEF ConnectFails, Leave
  <2>2. CallOf(q) = <<r, name>>
    BY <1>0, <2>1 DEF Shape, Calls
  <2>3. QED
    BY <2>2 DEF CallOf
<1>10. CASE ended
  <2>1. Active(q)
    BY <1>3, ProgramAssumption DEF Active
  <2>2. QED
    BY <1>9, <1>10, <2>1 DEF ShutdownInvariant, ServerMayClose
<1>11. CASE \A k \in Connections : conn[k].owner # None
  <2>1. Transaction(q) /\ tx[q].step = "connect"
    BY <1>8 DEF CallsInvariant, ConnectFails
  <2>2. \A k \in Connections : conn[k].owner # q
    BY <2>1 DEF Transaction, InTransaction
  <2>3. QED
    BY <1>9, <1>11, <2>2
<1>12. QED
  BY <1>8, <1>10, <1>11 DEF ConnectFails

\* Without a fault of the database or the network, a call of a request that has
\* a client fails only while others hold every connection: neither the shutdown
\* (the signal handler's application.close, then database.close) nor anything
\* an earlier holder left behind on a connection fails it.
THEOREM FailuresHaveReasons == Spec => CallsFailForAReason
<1> DEFINE Inv == CallsInvariant /\ ShutdownInvariant /\ Faultless
<1>1. Init => Inv
  <2>1. Init => ShutdownInvariant
    BY DEF Init, TxInit, ShutdownInvariant
  <2>2. Init => Faultless
    BY DEF Init, TxInit, Faultless, Sound, Fresh, NoTx
  <2>3. QED
    BY <2>1, <2>2, CallsInvariantInit
<1>2. Inv /\ [Next]_vars => Inv'
  BY CallsInvariantNext, ShutdownInvariantNext, FaultlessNext DEF CallsInvariant
<1>3. Inv /\ [Next]_vars =>
        [\A r \in Requests, name \in CallNames :
           /\ fate'[<<r, name>>] # fate[<<r, name>>]
           /\ fate'[<<r, name>>] \in {"failed", "doubtful"}
           => \/ faults > 0
              \/ ended /\ r \in abandoned
              \/ \A k \in Connections : conn[k].owner \notin {None, r}]_vars
  <2> SUFFICES ASSUME Inv, [Next]_vars, NEW r \in Requests, NEW name \in CallNames,
                      fate'[<<r, name>>] # fate[<<r, name>>],
                      fate'[<<r, name>>] \in {"failed", "doubtful"}, ~(faults > 0)
               PROVE  \/ ended /\ r \in abandoned
                      \/ \A k \in Connections : conn[k].owner \notin {None, r}
    OBVIOUS
  <2>1. faults = 0
    BY DEF Faultless
  <2>2. QED
    BY <2>1, FailureHasAReason
<1>4. QED
  BY <1>1, <1>2, <1>3, PTL DEF Spec, CallsFailForAReason

-----------------------------------------------------------------------------
(***************************************************************************)
(* The time a call to the platform may take.                               *)
(***************************************************************************)
\* Powers(n) are the first powers of two: the recursive definition of
\* PowerOfTwo has a solution, which is made of them.
IsPower(n, value, before) == value = IF n = 0 THEN 1 ELSE 2 * before
Powers(n) ==
    {g \in [0 .. n -> Nat] : \A i \in 0 .. n : IsPower(i, g[i], g[i - 1])}

\* There is a beginning of the powers of two of every length.
LEMMA PowersExist == \A n \in Nat : Powers(n) # {}
<1> DEFINE S == {n \in Nat : Powers(n) # {}}
<1>1. 0 \in S
  <2> DEFINE g == [i \in 0 .. 0 |-> 1]
  <2>1. g \in [0 .. 0 -> Nat] /\ \A i \in 0 .. 0 : i = 0 /\ g[i] = 1
    OBVIOUS
  <2> HIDE DEF g
  <2>2. g \in Powers(0)
    BY <2>1 DEF Powers, IsPower
  <2>3. QED
    BY <2>2
<1>2. ASSUME NEW n \in Nat, n \in S PROVE n + 1 \in S
  <2>1. PICK g \in [0 .. n -> Nat] : \A i \in 0 .. n : IsPower(i, g[i], g[i - 1])
    BY <1>2 DEF Powers
  <2> DEFINE h == [i \in 0 .. n + 1 |-> IF i = n + 1 THEN 2 * g[n] ELSE g[i]]
  <2>2. g[n] \in Nat
    BY <2>1
  <2>3. h \in [0 .. n + 1 -> Nat]
    BY <2>1, <2>2
  <2>4. h[n + 1] = 2 * g[n] /\ \A i \in 0 .. n : h[i] = g[i]
    OBVIOUS
  <2> HIDE DEF h
  <2>5. ASSUME NEW i \in 0 .. n + 1 PROVE IsPower(i, h[i], h[i - 1])
    <3>1. CASE i = n + 1
      BY <2>2, <2>4, <3>1 DEF IsPower
    <3>2. CASE i \in 0 .. n
      <4>1. i # 0 => i - 1 \in 0 .. n
        BY <3>2
      <4>2. QED
        BY <2>1, <2>4, <3>2, <4>1 DEF IsPower
    <3>3. QED
      BY <3>1, <3>2
  <2>6. h \in Powers(n + 1)
    BY <2>3, <2>5 DEF Powers
  <2>7. QED
    BY <2>6
<1> HIDE DEF S
<1>3. Nat \subseteq S
  BY <1>1, <1>2, AllNumbers
<1>4. QED
  BY <1>3 DEF S

\* Two of them agree where both have a value.
LEMMA PowersAgree ==
    ASSUME NEW m \in Nat, NEW g \in Powers(m), NEW n \in Nat, NEW h \in Powers(n)
    PROVE  \A i \in Nat : i <= m /\ i <= n => g[i] = h[i]
<1> DEFINE S == {i \in Nat : i <= m /\ i <= n => g[i] = h[i]}
<1>1. 0 \in S
  BY DEF Powers, IsPower
<1>2. ASSUME NEW i \in Nat, i \in S PROVE i + 1 \in S
  <2> SUFFICES ASSUME i + 1 <= m, i + 1 <= n PROVE g[i + 1] = h[i + 1]
    OBVIOUS
  <2>1. g[i] = h[i]
    BY <1>2
  <2>2. g[i + 1] = 2 * g[(i + 1) - 1] /\ h[i + 1] = 2 * h[(i + 1) - 1]
    BY DEF Powers, IsPower
  <2>3. (i + 1) - 1 = i
    OBVIOUS
  <2>4. QED
    BY <2>1, <2>2, <2>3
<1> HIDE DEF S
<1>3. Nat \subseteq S
  BY <1>1, <1>2, AllNumbers
<1>4. QED
  BY <1>3 DEF S

\* Hence the recursion defines a function, from numbers to numbers.
LEMMA PowersOfTwo == PowerOfTwo \in [Nat -> Nat]
<1> DEFINE First(n) == CHOOSE g : g \in Powers(n)
           all == [n \in Nat |-> First(n)[n]]
<1>1. \A n \in Nat : First(n) \in Powers(n)
  BY PowersExist
<1> HIDE DEF First
<1>2. all \in [Nat -> Nat]
  BY <1>1 DEF Powers
<1>3. ASSUME NEW n \in Nat PROVE IsPower(n, all[n], all[n - 1])
  <2>1. CASE n = 0
    BY <1>1, <2>1 DEF Powers, IsPower
  <2>2. CASE n # 0
    <3>1. n - 1 \in Nat /\ n - 1 <= n
      BY <2>2
    <3>2. First(n)[n - 1] = First(n - 1)[n - 1]
      BY <1>1, <3>1, PowersAgree
    <3>3. First(n)[n] = 2 * First(n)[n - 1]
      BY <1>1, <2>2 DEF Powers, IsPower
    <3>4. QED
      BY <2>2, <3>1, <3>2, <3>3 DEF IsPower
  <2>3. QED
    BY <2>1, <2>2
<1>4. all = [n \in Nat |-> IF n = 0 THEN 1 ELSE 2 * all[n - 1]]
  <2> HIDE DEF all
  <2>1. all = [n \in Nat |-> all[n]]
    BY <1>2
  <2>2. \A n \in Nat : all[n] = IF n = 0 THEN 1 ELSE 2 * all[n - 1]
    BY <1>3 DEF IsPower
  <2>3. QED
    BY <2>1, <2>2
<1>5. PowerOfTwo = [n \in Nat |-> IF n = 0 THEN 1 ELSE 2 * PowerOfTwo[n - 1]]
  <2> HIDE DEF all
  <2>1. QED
    BY <1>4 DEF PowerOfTwo
<1> DEFINE S == {n \in Nat : PowerOfTwo[n] \in Nat}
<1>6. 0 \in S
  BY <1>5
<1>7. ASSUME NEW n \in Nat, n \in S PROVE n + 1 \in S
  <2>1. PowerOfTwo[n + 1] = 2 * PowerOfTwo[(n + 1) - 1] /\ (n + 1) - 1 = n
    BY <1>5
  <2>2. QED
    BY <1>7, <2>1
<1> HIDE DEF S
<1>8. Nat \subseteq S
  BY <1>6, <1>7, AllNumbers
<1>9. QED
  BY <1>5, <1>8 DEF S

-----------------------------------------------------------------------------
(***************************************************************************)
(* The time a database call may take.                                      *)
(***************************************************************************)
\* A product grows with its factor.
LEMMA Smaller ==
    ASSUME NEW a \in Nat, NEW b \in Nat, NEW c \in Nat, a <= b
    PROVE  a * c \in Nat /\ b * c \in Nat /\ a * c <= b * c
<1>1. \A m, n \in Nat : m * n \in Nat
  OBVIOUS
<1>2. PICK d \in Nat : b = a + d
  <2>1. b - a \in Nat /\ b = a + (b - a)
    OBVIOUS
  <2>2. QED
    BY <2>1
<1>3. b * c = a * c + d * c
  BY <1>2
<1>4. a * c \in Nat /\ b * c \in Nat /\ d * c \in Nat
  BY <1>1
<1>5. QED
  BY <1>3, <1>4

\* The most a call of so many statements may take: a connection, begin,
\* set_config, the statements, commit, and a rollback.
CallLimit(statements) == ConnectionTimeout + (statements + 4) * QueryTimeout

CallsKeepToTheirBudget ==
    \A r \in Requests : tx[r].name \in CallNames =>
        tx[r].spent <= CallLimit(Statements[tx[r].name])

\* How far a call has come, and what it may have spent by then.
Counts(t) ==
    LET statements == Statements[t.name]
        before == t.spent + t.left * QueryTimeout
    IN  /\ t.left \in Nat
        /\ t.step \in {"connect", "begin", "scope"} => t.left = statements
        /\ t.step = "connect" => t.spent = 0
        /\ t.step = "begin" => t.spent = ConnectionTimeout + QueryTimeout
        /\ t.step = "scope" => t.spent = ConnectionTimeout + 2 * QueryTimeout
        /\ t.step = "work" => t.left # 0
        /\ t.step = "commit" => t.left = 0
        /\ t.step \in {"work", "commit"} =>
              before = ConnectionTimeout + (statements + 3) * QueryTimeout
        /\ t.step \in {"rollback", "none"} => t.spent <= CallLimit(statements)

CountInvariant ==
    \A r \in Requests :
        /\ tx[r].left \in Nat
        /\ tx[r].step # "none" => tx[r].name \in CallNames
        /\ tx[r].name \in CallNames => Counts(tx[r])

\* The arithmetic of a limit.
LEMMA Limits ==
    ASSUME NEW s \in Nat \ {0}, NEW l \in Nat
    PROVE  /\ s * QueryTimeout \in Nat /\ l * QueryTimeout \in Nat
           /\ s * QueryTimeout >= QueryTimeout
           /\ CallLimit(s) = ConnectionTimeout + s * QueryTimeout + 4 * QueryTimeout
           /\ (s + 3) * QueryTimeout = s * QueryTimeout + 3 * QueryTimeout
           /\ l # 0 => (l - 1) * QueryTimeout = l * QueryTimeout - QueryTimeout
<1>1. QueryTimeout \in Nat /\ ConnectionTimeout \in Nat
  BY TenantAssumptions
<1>2. s * QueryTimeout \in Nat /\ l * QueryTimeout \in Nat /\ 1 * QueryTimeout <= s * QueryTimeout
  BY <1>1, Smaller
<1>3. QED
  BY <1>1, <1>2 DEF CallLimit

\* No call has spent anything before the first request.
LEMMA CountInvariantInit == Init => CountInvariant
<1> SUFFICES ASSUME Init, NEW r \in Requests
             PROVE  /\ tx[r].left \in Nat /\ tx[r].step = "none"
                    /\ tx[r].name \in CallNames => Counts(tx[r])
  BY DEF CountInvariant
<1>1. tx[r] = NoTx
  BY DEF Init, TxInit
<1>2. tx[r].left = 0 /\ tx[r].step = "none" /\ tx[r].spent = 0 /\ tx[r].name = None
  BY <1>1 DEF NoTx
<1>3. ASSUME None \in CallNames PROVE 0 <= CallLimit(Statements[None])
  <2>1. Statements[None] \in Nat \ {0} /\ QueryTimeout \in Nat /\ ConnectionTimeout \in Nat
    BY <1>3, TenantAssumptions
  <2>2. QED
    BY <2>1, Limits
<1>4. QED
  BY <1>2, <1>3 DEF Counts

\* A call is within its limit, and until it rolls back by the length of a statement.
LEMMA Within ==
    ASSUME NEW t \in TxRecords, t.name \in CallNames, Counts(t)
    PROVE  /\ t.spent <= CallLimit(Statements[t.name])
           /\ t.step \in {"begin", "scope", "work", "commit"} =>
                 t.spent + QueryTimeout <= CallLimit(Statements[t.name])
<1> DEFINE s == Statements[t.name]
           l == t.left
<1>1. /\ s \in Nat \ {0} /\ l \in Nat /\ QueryTimeout \in Nat
      /\ ConnectionTimeout \in Nat /\ t.spent \in Nat
  BY TenantAssumptions DEF Counts, TxRecords
<1>2. /\ t.step = "connect" => t.spent = 0
      /\ t.step = "begin" => t.spent = ConnectionTimeout + QueryTimeout
      /\ t.step = "scope" => t.spent = ConnectionTimeout + 2 * QueryTimeout
      /\ t.step \in {"work", "commit"} =>
            t.spent + l * QueryTimeout = ConnectionTimeout + (s + 3) * QueryTimeout
      /\ t.step \in {"rollback", "none"} => t.spent <= CallLimit(s)
      /\ t.step \in {"none", "connect", "begin", "scope", "work", "commit", "rollback"}
  BY DEF Counts, TxRecords, InTransaction
<1> HIDE DEF s, l
<1>3. /\ s * QueryTimeout \in Nat /\ l * QueryTimeout \in Nat
      /\ s * QueryTimeout >= QueryTimeout
      /\ CallLimit(s) = ConnectionTimeout + s * QueryTimeout + 4 * QueryTimeout
      /\ (s + 3) * QueryTimeout = s * QueryTimeout + 3 * QueryTimeout
  BY <1>1, Limits
<1>4. t.spent <= CallLimit(s)
  BY <1>1, <1>2, <1>3
<1>5. t.step \in {"begin", "scope", "work", "commit"} => t.spent + QueryTimeout <= CallLimit(s)
  <2>1. CASE t.step \in {"begin", "scope"}
    BY <1>1, <1>2, <1>3, <2>1
  <2>2. CASE t.step \in {"work", "commit"}
    <3>1. t.spent + l * QueryTimeout = ConnectionTimeout + (s + 3) * QueryTimeout
      BY <1>2, <2>2
    <3>2. QED
      BY <1>1, <1>3, <3>1
  <2>3. QED
    BY <2>1, <2>2
<1>6. QED
  BY <1>4, <1>5 DEF s

\* A statement that fails leaves time for one rollback.
LEMMA RollBackCounts ==
    ASSUME CallsInvariant, CountInvariant, NEW q \in Requests,
           tx[q].step \in InTransaction \ {"rollback"}, NEW asked \in BOOLEAN,
           Then(q, "rollback", 0, asked, QueryTimeout)
    PROVE  CountInvariant'
<1> DEFINE name == tx[q].name
           step == "rollback"
           left == 0
           time == QueryTimeout
<1>1. Shape /\ tx[q] \in TxRecords /\ name \in CallNames /\ Counts(tx[q])
  BY DEF CallsInvariant, Shape, CountInvariant, InTransaction
<1>2. Statements[name] \in Nat \ {0} /\ tx[q].left \in Nat /\ QueryTimeout \in Nat
      /\ ConnectionTimeout \in Nat /\ tx[q].spent \in Nat
  BY <1>1, TenantAssumptions DEF Counts, TxRecords
<1>3. tx[q].spent + QueryTimeout <= CallLimit(Statements[name])
  BY <1>1, Within DEF InTransaction
<1>4. Then(q, step, left, asked, time) /\ step \in InTransaction /\ left \in Int /\ time \in Nat
  BY <1>2 DEF InTransaction
<1>5. /\ tx'[q].step = step /\ tx'[q].left = left /\ tx'[q].name = name
      /\ tx'[q].spent = tx[q].spent + time
      /\ \A r \in Requests \ {q} : tx'[r] = tx[r]
  <2> HIDE DEF step, left, time
  <2>1. QED
    BY <1>1, <1>4, ThenIs
<1>6. Counts(tx'[q])
  BY <1>3, <1>5 DEF Counts
<1>7. QED
  BY <1>1, <1>5, <1>6 DEF CountInvariant

\* A request that leaves its transaction has nothing left to count.
LEMMA LeaveCounts ==
    ASSUME CallsInvariant, CountInvariant, NEW q \in Requests, tx[q].step # "none",
           tx' = [tx EXCEPT ![q].step = "none"]
    PROVE  CountInvariant'
<1>1. tx[q] \in TxRecords /\ tx[q].name \in CallNames /\ Counts(tx[q])
  BY DEF CallsInvariant, Shape, CountInvariant
<1>2. /\ tx'[q].step = "none" /\ tx'[q].left = tx[q].left /\ tx'[q].name = tx[q].name
      /\ tx'[q].spent = tx[q].spent
      /\ \A r \in Requests \ {q} : tx'[r] = tx[r]
  BY <1>1 DEF CallsInvariant, Shape, TxRecords
<1>3. tx[q].spent <= CallLimit(Statements[tx[q].name])
  BY <1>1, Within
<1>4. Counts(tx'[q])
  BY <1>1, <1>2, <1>3 DEF Counts
<1>5. QED
  BY <1>1, <1>2, <1>4 DEF CountInvariant

\* A call begins to count when it is given a connection.
LEMMA ConnectCounts ==
    ASSUME CallsInvariant, CountInvariant, NEW q \in Requests, NEW k \in Connections, Connect(q, k)
    PROVE  CountInvariant'
<1> DEFINE name == tx[q].name
           step == "begin"
           left == tx[q].left
           asked == FALSE
           time == ConnectionTimeout + QueryTimeout
<1>1. tx[q].step = "connect" /\ Then(q, step, left, asked, time)
  BY DEF Connect
<1>2. Shape /\ tx[q] \in TxRecords /\ name \in CallNames /\ Counts(tx[q])
  BY <1>1 DEF CallsInvariant, Shape, CountInvariant
<1>3. step \in InTransaction /\ left \in Nat /\ left \in Int /\ asked \in BOOLEAN /\ time \in Nat
      /\ left = Statements[name] /\ tx[q].spent = 0
  BY <1>1, <1>2, TenantAssumptions DEF InTransaction, Counts
<1>4. /\ tx'[q].step = step /\ tx'[q].left = left /\ tx'[q].name = name
      /\ tx'[q].spent = tx[q].spent + time
      /\ \A r \in Requests \ {q} : tx'[r] = tx[r]
  <2> HIDE DEF step, left, asked, time
  <2>1. QED
    BY <1>1, <1>2, <1>3, ThenIs
<1>5. Counts(tx'[q])
  <2>1. tx'[q].spent = ConnectionTimeout + QueryTimeout
    BY <1>3, <1>4
  <2>2. QED
    BY <1>3, <1>4, <2>1 DEF Counts
<1>6. QED
  BY <1>2, <1>3, <1>4, <1>5 DEF CountInvariant

\* A statement that is answered counts as one.
LEMMA DoneCounts ==
    ASSUME CallsInvariant, CountInvariant, NEW q \in Requests, StatementDone(q)
    PROVE  CountInvariant'
<1>1. tx[q].step \in InTransaction /\ tx[q].step # "none"
  BY DEF StatementDone, InTransaction
<1>2. CASE tx[q].step \in {"commit", "rollback"}
  <2>1. tx' = [tx EXCEPT ![q].step = "none"]
    BY <1>2 DEF StatementDone, Leave
  <2>2. QED
    BY <1>1, <2>1, LeaveCounts
<1>3. CASE tx[q].step \in {"begin", "scope", "work"}
  <2> DEFINE name == tx[q].name
             step == Following(q)
             left == IF tx[q].step = "work" THEN tx[q].left - 1 ELSE tx[q].left
             asked == FALSE
             time == QueryTimeout
  <2>1. Then(q, step, left, asked, time)
    BY <1>3 DEF StatementDone
  <2>2. Shape /\ tx[q] \in TxRecords /\ name \in CallNames /\ Counts(tx[q])
    BY <1>1 DEF CallsInvariant, Shape, CountInvariant
  <2>3. /\ Statements[name] \in Nat \ {0} /\ tx[q].left \in Nat /\ tx[q].spent \in Nat
        /\ QueryTimeout \in Nat /\ ConnectionTimeout \in Nat
    BY <2>2, TenantAssumptions DEF Counts, TxRecords
  <2>4. /\ tx[q].step = "begin" => step = "scope"
        /\ tx[q].step = "scope" => step = "work"
        /\ tx[q].step = "work" => step = IF tx[q].left = 1 THEN "commit" ELSE "work"
    BY DEF Following
  <2>5. step \in InTransaction /\ left \in Int /\ asked \in BOOLEAN /\ time \in Nat /\ left \in Nat
    BY <1>3, <2>2, <2>3, <2>4 DEF InTransaction, Counts
  <2>6. /\ tx'[q].step = step /\ tx'[q].left = left /\ tx'[q].name = name
        /\ tx'[q].spent = tx[q].spent + time
        /\ \A r \in Requests \ {q} : tx'[r] = tx[r]
    <3> HIDE DEF step, left, asked, time
    <3>1. QED
      BY <2>1, <2>2, <2>5, ThenIs
  <2> DEFINE s == Statements[name]
  <2>7. /\ s \in Nat \ {0} /\ s * QueryTimeout \in Nat
        /\ (s + 3) * QueryTimeout = s * QueryTimeout + 3 * QueryTimeout
    BY <2>3, Limits
  <2>8. Counts(tx'[q])
    <3>1. CASE tx[q].step = "begin"
      <4>1. tx'[q].step = "scope" /\ tx'[q].left = Statements[name]
            /\ tx'[q].spent = ConnectionTimeout + 2 * QueryTimeout
        BY <2>2, <2>3, <2>4, <2>6, <3>1 DEF Counts
      <4>2. QED
        BY <2>3, <2>6, <4>1 DEF Counts
    <3>2. CASE tx[q].step = "scope"
      <4>1. tx'[q].step = "work" /\ tx'[q].left = Statements[name]
            /\ tx'[q].spent = ConnectionTimeout + 2 * QueryTimeout + QueryTimeout
        BY <2>2, <2>3, <2>4, <2>6, <3>2 DEF Counts
      <4>2. tx'[q].spent + tx'[q].left * QueryTimeout
              = ConnectionTimeout + (Statements[name] + 3) * QueryTimeout
        <5>1. tx'[q].left = s
          BY <4>1
        <5> HIDE DEF s
        <5>2. tx'[q].spent + s * QueryTimeout = ConnectionTimeout + (s + 3) * QueryTimeout
          BY <2>3, <2>7, <4>1
        <5>3. QED
          BY <5>1, <5>2 DEF s
      <4>3. QED
        BY <2>3, <2>6, <4>1, <4>2 DEF Counts
    <3>3. CASE tx[q].step = "work"
      <4> DEFINE l == tx[q].left
      <4>1. tx'[q].step = (IF l = 1 THEN "commit" ELSE "work")
            /\ tx'[q].left = l - 1 /\ l # 0 /\ l \in Nat
            /\ tx[q].spent + l * QueryTimeout = ConnectionTimeout + (s + 3) * QueryTimeout
        BY <2>2, <2>3, <2>4, <2>6, <3>3 DEF Counts
      <4>2. tx'[q].spent + (l - 1) * QueryTimeout = ConnectionTimeout + (s + 3) * QueryTimeout
        <5>1. tx'[q].spent = tx[q].spent + QueryTimeout
          BY <2>6
        <5> HIDE DEF s, l
        <5>2. l * QueryTimeout \in Nat /\ (l - 1) * QueryTimeout = l * QueryTimeout - QueryTimeout
          BY <2>7, <4>1, Limits
        <5>3. QED
          BY <2>3, <2>7, <4>1, <5>1, <5>2
      <4>3. tx'[q].spent + tx'[q].left * QueryTimeout
              = ConnectionTimeout + (Statements[name] + 3) * QueryTimeout
        BY <4>1, <4>2
      <4>4. /\ tx'[q].left \in Nat
            /\ \/ tx'[q].step = "commit" /\ tx'[q].left = 0
               \/ tx'[q].step = "work" /\ tx'[q].left # 0
        BY <4>1
      <4>5. tx'[q].name = name
        BY <2>6
      <4>6. QED
        BY <4>3, <4>4, <4>5 DEF Counts
    <3>4. QED
      BY <1>3, <3>1, <3>2, <3>3
  <2>9. QED
    BY <2>2, <2>5, <2>6, <2>8 DEF CountInvariant
<1>4. QED
  BY <1>1, <1>2, <1>3 DEF InTransaction

\* Every step keeps the count.
LEMMA CountInvariantNext ==
    ASSUME CallsInvariant, CountInvariant, [Next]_vars
    PROVE  CountInvariant'
<1>0. Shape
  BY DEF CallsInvariant
<1>1. ASSUME NEW q \in Requests, NEW next, GoOn(q, next) PROVE CountInvariant'
  <2>1. CASE next \in CallNames
    <3> DEFINE t == [step |-> "connect", name |-> next, left |-> Statements[next],
                     asked |-> FALSE, spent |-> 0]
    <3>1. tx' = [tx EXCEPT ![q] = t]
      BY <1>1, <2>1 DEF GoOn, Enter
    <3>2. tx'[q] = t /\ \A r \in Requests \ {q} : tx'[r] = tx[r]
      BY <1>0, <3>1 DEF Shape
    <3>3. Statements[next] \in Nat
      BY <2>1, TenantAssumptions
    <3>4. t.left \in Nat /\ t.name \in CallNames /\ Counts(t)
      BY <2>1, <3>3 DEF Counts
    <3> HIDE DEF t
    <3>5. QED
      BY <3>2, <3>4 DEF CountInvariant
  <2>2. CASE next \notin CallNames
    <3>1. tx' = [tx EXCEPT ![q] = NoTx]
      BY <1>1, <2>2 DEF GoOn
    <3>2. tx'[q] = NoTx /\ \A r \in Requests \ {q} : tx'[r] = tx[r]
      BY <1>0, <3>1 DEF Shape
    <3>3. NoTx.left = 0 /\ NoTx.step = "none" /\ NoTx.spent = 0 /\ NoTx.name = None
      BY DEF NoTx
    <3>4. ASSUME None \in CallNames PROVE 0 <= CallLimit(Statements[None])
      <4>1. Statements[None] \in Nat \ {0} /\ QueryTimeout \in Nat /\ ConnectionTimeout \in Nat
        BY <3>4, TenantAssumptions
      <4>2. QED
        BY <4>1, Limits
    <3>5. NoTx.name \in CallNames => Counts(NoTx)
      BY <3>3, <3>4 DEF Counts
    <3>6. QED
      BY <3>2, <3>3, <3>5 DEF CountInvariant
  <2>3. QED
    BY <2>1, <2>2
<1>2. ASSUME NEW q \in Requests, InTransactionStep(q) PROVE CountInvariant'
  <2>1. ASSUME NEW k \in Connections, Connect(q, k) PROVE CountInvariant'
    BY <2>1, ConnectCounts
  <2>2. ASSUME ConnectFails(q) PROVE CountInvariant'
    <3>1. tx[q].step # "none" /\ tx' = [tx EXCEPT ![q].step = "none"]
      BY <2>2 DEF ConnectFails, Leave
    <3>2. QED
      BY <3>1, LeaveCounts
  <2>3. ASSUME StatementDone(q) PROVE CountInvariant'
    BY <2>3, DoneCounts
  <2>4. ASSUME NEW asked \in BOOLEAN, tx[q].step \in InTransaction \ {"rollback"},
               RollBack(q, asked)
        PROVE  CountInvariant'
    BY <2>4, RollBackCounts DEF RollBack
  <2>5. ASSUME tx[q].step = "rollback", NEW result, Leave(q, result) PROVE CountInvariant'
    BY <2>5, LeaveCounts DEF Leave
  <2>6. tx[q].asked \in BOOLEAN /\ Asks(q) \in BOOLEAN
    BY <1>0 DEF Shape, TxRecords, Asks
  <2>7. ASSUME StatementFails(q) PROVE CountInvariant'
    BY <2>4, <2>7 DEF StatementFails
  <2>8. ASSUME StatementLate(q) PROVE CountInvariant'
    BY <2>4, <2>5, <2>6, <2>8 DEF StatementLate
  <2>9. ASSUME ConnectionLost(q) PROVE CountInvariant'
    BY <2>4, <2>6, <2>9 DEF ConnectionLost
  <2>10. ASSUME StatementUnsent(q) PROVE CountInvariant'
    BY <2>4, <2>5, <2>6, <2>10 DEF StatementUnsent, GiveUp
  <2>11. QED
    BY <1>2, <2>1, <2>2, <2>3, <2>7, <2>8, <2>9, <2>10 DEF InTransactionStep, CallStep
<1>3. CASE tx' = tx
  BY <1>3 DEF CountInvariant
<1>4. QED
  BY <1>1, <1>2, <1>3
  DEF Next, Step, Begin, DatabaseCallReturns, ProviderCallReturns, Continue, AtProviderStep,
      ClientGoes, ServerEnds, LateEnds, Shutdown, DatabaseCloses, EndPool, Finished,
      vars, txVars, requestVars

\* A database call ends within what its parts may take, whatever fails in it and
\* whatever an earlier holder left on the connection: a connection, begin,
\* set_config, its statements, commit and one rollback (withTenant).
THEOREM DatabaseCallsEnd == Spec => []CallsKeepToTheirBudget
<1>1. CallsInvariant /\ CountInvariant => CallsKeepToTheirBudget
  <2> SUFFICES ASSUME CallsInvariant, CountInvariant, NEW r \in Requests, tx[r].name \in CallNames
               PROVE  tx[r].spent <= CallLimit(Statements[tx[r].name])
    BY DEF CallsKeepToTheirBudget
  <2>1. tx[r] \in TxRecords /\ Counts(tx[r])
    BY DEF CallsInvariant, Shape, CountInvariant
  <2>2. QED
    BY <2>1, Within
<1>2. CallsInvariant /\ CountInvariant /\ [Next]_vars => CountInvariant'
  BY CountInvariantNext
<1>3. QED
  BY <1>1, <1>2, CountInvariantInit, CallsInvariantHolds, PTL DEF Spec

-----------------------------------------------------------------------------
(***************************************************************************)
(* The calls to the platform.                                              *)
(***************************************************************************)
ProviderRecords ==
    [step : {"none", "attempt", "sleep", "answered", "failed"}, policy : Policies,
     attempt : 0 .. MaxAttempts, took : Nat]

\* So many attempts, and so many delays between them.
TimeOf(attempts, delays) == attempts * ProviderTimeout + delays * MaxDelay

\* How far a call has come, and what it may have taken by then.
InBudget(c) ==
    /\ c.step = "none" => c.took = 0
    /\ c.step # "none" => c.attempt # 0
    /\ c.step \in {"attempt", "answered", "failed"} => c.took <= TimeOf(c.attempt, c.attempt - 1)
    /\ c.step = "sleep" => c.attempt # MaxAttempts /\ c.took <= TimeOf(c.attempt, c.attempt)

ProviderInvariant ==
    /\ calling \in [Requests -> ProviderRecords]
    /\ \A r \in Requests : InBudget(calling[r])

\* Another attempt, and another delay.
LEMMA TimeAdds ==
    ASSUME NEW a \in Nat, NEW d \in Nat
    PROVE  /\ TimeOf(a, d) \in Nat
           /\ TimeOf(a + 1, d) = TimeOf(a, d) + ProviderTimeout
           /\ TimeOf(a, d + 1) = TimeOf(a, d) + MaxDelay
<1>1. ProviderTimeout \in Nat /\ MaxDelay \in Nat
  BY ProviderAssumptions
<1>2. /\ a * ProviderTimeout \in Nat /\ d * MaxDelay \in Nat
      /\ (a + 1) * ProviderTimeout = a * ProviderTimeout + ProviderTimeout
      /\ (d + 1) * MaxDelay = d * MaxDelay + MaxDelay
  <2>1. \A m, n \in Nat : m * n \in Nat /\ (m + 1) * n = m * n + n
    OBVIOUS
  <2>2. QED
    BY <1>1, <2>1
<1>3. QED
  BY <1>1, <1>2 DEF TimeOf

\* A delay is a number no larger than the longest, and follows an attempt that
\* was not the last.
LEMMA Delays ==
    ASSUME NEW policy, NEW error \in Errors, NEW attempt \in 1 .. MaxAttempts,
           NEW d \in RetryDelayFor(policy, error, attempt)
    PROVE  d \in Nat /\ d <= MaxDelay /\ attempt < MaxAttempts
<1>1. d = AskedDelay(error, attempt) /\ d <= MaxDelay /\ attempt < MaxAttempts
  BY DEF RetryDelayFor
<1>2. BackoffDelay(attempt) \in Nat
  <2>1. attempt - 1 \in Nat
    BY ProviderAssumptions
  <2>2. PowerOfTwo[attempt - 1] \in Nat
    BY <2>1, PowersOfTwo
  <2>3. \A m, n \in Nat : m * n \in Nat
    OBVIOUS
  <2>4. BaseDelay * PowerOfTwo[attempt - 1] \in Nat
    BY <2>2, <2>3, ProviderAssumptions
  <2>5. QED
    BY <2>4, ProviderAssumptions DEF BackoffDelay, Least
<1>3. error.kind = "rate_limited" /\ error.retryAfter # NoGuidance => error.retryAfter \in Nat
  BY ProviderAssumptions DEF Errors
<1>4. QED
  BY <1>1, <1>2, <1>3 DEF AskedDelay

\* Nobody calls the platform before the first request.
LEMMA ProviderInvariantInit == Init => ProviderInvariant
<1> SUFFICES ASSUME Init PROVE ProviderInvariant
  OBVIOUS
<1>1. calling = [c \in Requests |-> NoCallUnderWay]
  BY ProgramAssumption DEF Init, ProviderInit
<1>2. NoCallUnderWay \in ProviderRecords /\ InBudget(NoCallUnderWay)
  BY ProviderAssumptions DEF NoCallUnderWay, ProviderRecords, Policies, InBudget
<1>3. QED
  BY <1>1, <1>2 DEF ProviderInvariant

\* A step that gives a request another record.
LEMMA OneCall ==
    ASSUME ProviderInvariant, NEW q \in Requests, NEW c \in ProviderRecords, InBudget(c),
           calling' = [calling EXCEPT ![q] = c]
    PROVE  ProviderInvariant'
BY DEF ProviderInvariant

\* An attempt is sent with the time of the ones before it spent.
LEMMA SendInBudget ==
    ASSUME ProviderInvariant, NEW q \in Requests, NEW policy \in Policies,
           NEW a \in Nat, a < MaxAttempts, NEW took \in Nat, took <= TimeOf(a, a),
           SendAttempt(q, policy, a + 1, took)
    PROVE  ProviderInvariant'
<1> DEFINE c == [step |-> "attempt", policy |-> policy,
                 attempt |-> a + 1, took |-> took + ProviderTimeout]
<1>1. calling' = [calling EXCEPT ![q] = c]
  BY DEF SendAttempt
<1>2. c \in ProviderRecords /\ c.step = "attempt" /\ c.attempt = a + 1
      /\ c.took = took + ProviderTimeout
  BY ProviderAssumptions DEF ProviderRecords
<1> HIDE DEF c
<1>3. c.took <= TimeOf(c.attempt, c.attempt - 1)
  <2>1. TimeOf(a + 1, a) = TimeOf(a, a) + ProviderTimeout /\ TimeOf(a, a) \in Nat
    BY TimeAdds
  <2>2. c.attempt - 1 = a
    BY <1>2
  <2>3. c.took <= TimeOf(a + 1, a)
    BY <1>2, <2>1, ProviderAssumptions
  <2>4. QED
    BY <1>2, <2>2, <2>3
<1>4. InBudget(c)
  BY <1>2, <1>3 DEF InBudget
<1>5. QED
  BY <1>1, <1>2, <1>4, OneCall

\* A step of a platform call stays within its budget.
LEMMA ProviderStepInBudget ==
    ASSUME ProviderInvariant, NEW q \in Requests, ProviderStep(q)
    PROVE  ProviderInvariant'
<1> DEFINE c == calling[q]
<1>1. c \in ProviderRecords /\ InBudget(c) /\ DOMAIN calling = Requests
  BY DEF ProviderInvariant
<1>2. ASSUME c.step = "attempt", NEW result \in {"answered", "failed"}, EndCall(q, result)
      PROVE  ProviderInvariant'
  <2> DEFINE d == [c EXCEPT !.step = result]
  <2>1. calling' = [calling EXCEPT ![q] = d]
    BY <1>2 DEF EndCall
  <2>2. d \in ProviderRecords /\ d.step = result /\ d.attempt = c.attempt /\ d.took = c.took
    BY <1>1 DEF ProviderRecords
  <2> HIDE DEF d
  <2>3. InBudget(d)
    BY <1>1, <1>2, <2>2 DEF InBudget
  <2>4. QED
    BY <2>1, <2>2, <2>3, OneCall
<1>3. ASSUME AttemptSucceeds(q) PROVE ProviderInvariant'
  BY <1>2, <1>3 DEF AttemptSucceeds
<1>4. ASSUME NEW error \in Errors, AttemptFails(q, error) PROVE ProviderInvariant'
  <2>1. c.step = "attempt" /\ c.attempt \in 1 .. MaxAttempts
    BY <1>1, <1>4, ProviderAssumptions DEF AttemptFails, InBudget, ProviderRecords
  <2>2. CASE EndCall(q, "failed")
    BY <1>2, <2>1, <2>2
  <2>3. CASE ~EndCall(q, "failed")
    <3>1. PICK delay \in RetryDelayFor(c.policy, error, c.attempt) :
            calling' = [calling EXCEPT ![q].step = "sleep", ![q].took = @ + delay]
      BY <1>4, <2>3 DEF AttemptFails
    <3>2. delay \in Nat /\ delay <= MaxDelay /\ c.attempt < MaxAttempts
      BY <2>1, Delays
    <3> DEFINE total == c.took + delay
               d1 == [c EXCEPT !.step = "sleep"]
               d2 == [d1 EXCEPT !.took = total]
    <3>3. calling' = [calling EXCEPT ![q] = d2]
      BY <1>1, <3>1
    <3>4. total \in Nat
      BY <1>1, <3>2 DEF ProviderRecords
    <3> HIDE DEF total
    <3>5. d1 \in ProviderRecords /\ d1.step = "sleep" /\ d1.attempt = c.attempt
      BY <1>1 DEF ProviderRecords
    <3> HIDE DEF d1
    <3>6. /\ d2 \in ProviderRecords /\ d2.step = "sleep" /\ d2.attempt = c.attempt
          /\ d2.took = total
      BY <3>4, <3>5 DEF ProviderRecords
    <3> HIDE DEF d2
    <3>7. c.took + delay <= TimeOf(c.attempt, c.attempt)
      <4> DEFINE a == c.attempt
      <4>1. a \in Nat /\ a - 1 \in Nat /\ (a - 1) + 1 = a
        BY <2>1, ProviderAssumptions
      <4>2. c.took <= TimeOf(a, a - 1) /\ c.took \in Nat
        BY <1>1, <2>1 DEF InBudget, ProviderRecords
      <4> HIDE DEF a
      <4>3. TimeOf(a, (a - 1) + 1) = TimeOf(a, a - 1) + MaxDelay /\ TimeOf(a, a - 1) \in Nat
        BY <4>1, TimeAdds
      <4>4. c.took + delay <= TimeOf(a, a - 1) + MaxDelay
        BY <3>2, <4>2, <4>3, ProviderAssumptions
      <4>5. QED
        BY <4>1, <4>3, <4>4 DEF a
    <3>8. InBudget(d2)
      BY <2>1, <3>2, <3>6, <3>7, ProviderAssumptions DEF InBudget, total
    <3>9. QED
      BY <3>3, <3>6, <3>8, OneCall
  <2>4. QED
    BY <2>2, <2>3
<1>5. ASSUME NextAttempt(q) PROVE ProviderInvariant'
  <2> DEFINE a == c.attempt
             took == c.took
             policy == c.policy
  <2>1. c.step = "sleep" /\ SendAttempt(q, policy, a + 1, took)
    BY <1>5 DEF NextAttempt
  <2>2. a \in Nat /\ a < MaxAttempts /\ took \in Nat /\ policy \in Policies
    BY <1>1, <2>1, ProviderAssumptions DEF InBudget, ProviderRecords
  <2>3. took <= TimeOf(a, a)
    BY <1>1, <2>1 DEF InBudget
  <2> HIDE DEF a, took, policy
  <2>4. QED
    BY <2>1, <2>2, <2>3, SendInBudget
<1>6. QED
  BY <1>3, <1>4, <1>5 DEF ProviderStep

\* Every step keeps platform calls within their budget.
LEMMA ProviderInvariantNext ==
    ASSUME ProviderInvariant, [Next]_vars
    PROVE  ProviderInvariant'
<1>1. ASSUME NEW q \in Requests, NEW next, GoOn(q, next) PROVE ProviderInvariant'
  <2>1. CASE next \in ProviderCalls
    <3> DEFINE policy == IF next = "publish" THEN "write" ELSE "read"
               a == 0
               took == 0
    <3>1. SendAttempt(q, policy, a + 1, took)
      BY <1>1, <2>1 DEF GoOn, StartCall
    <3>2. /\ policy \in Policies /\ a \in Nat /\ a < MaxAttempts /\ took \in Nat
          /\ took <= TimeOf(a, a)
      <4>1. TimeOf(0, 0) \in Nat
        BY TimeAdds
      <4>2. QED
        BY <4>1, ProviderAssumptions DEF Policies
    <3> HIDE DEF policy, a, took
    <3>3. QED
      BY <3>1, <3>2, SendInBudget
  <2>2. CASE next \notin ProviderCalls
    <3>1. calling' = [calling EXCEPT ![q] = NoCallUnderWay]
      BY <1>1, <2>2 DEF GoOn
    <3>2. NoCallUnderWay \in ProviderRecords /\ InBudget(NoCallUnderWay)
      BY ProviderAssumptions DEF NoCallUnderWay, ProviderRecords, Policies, InBudget
    <3>3. QED
      BY <3>1, <3>2, OneCall
  <2>3. QED
    BY <2>1, <2>2
<1>2. ASSUME NEW q \in Requests, AtProviderStep(q) PROVE ProviderInvariant'
  BY <1>2, ProviderStepInBudget DEF AtProviderStep
<1>3. CASE calling' = calling
  BY <1>3 DEF ProviderInvariant
<1>4. QED
  BY <1>1, <1>2, <1>3
  DEF Next, Step, Begin, DatabaseCallReturns, ProviderCallReturns, Continue, InTransactionStep,
      ClientGoes, ServerEnds, Shutdown, DatabaseCloses, Finished, vars, providerVars

\* A read of the platform ends within what its policy allows, whatever the
\* platform asks for (callProvider, retryDelayFor).
THEOREM ReadsEnd == Spec => []ReadsKeepToTheirBudget
<1>1. ProviderInvariant => ReadsKeepToTheirBudget
  <2> SUFFICES ASSUME ProviderInvariant, NEW r \in Requests
               PROVE  calling[r].took <= MaxAttempts * ProviderTimeout + (MaxAttempts - 1) * MaxDelay
    BY DEF ReadsKeepToTheirBudget
  <2> DEFINE a == calling[r].attempt
             took == calling[r].took
  <2>1. /\ a \in 0 .. MaxAttempts /\ took \in Nat
        /\ calling[r].step \in {"none", "attempt", "sleep", "answered", "failed"}
    BY DEF ProviderInvariant, ProviderRecords
  <2>2. \/ took = 0
        \/ a # 0 /\ took <= TimeOf(a, a - 1)
        \/ a # MaxAttempts /\ took <= TimeOf(a, a)
    BY <2>1 DEF ProviderInvariant, InBudget
  <2> HIDE DEF a, took
  <2>3. /\ MaxAttempts \in Nat /\ MaxAttempts - 1 \in Nat
        /\ ProviderTimeout \in Nat /\ MaxDelay \in Nat
    BY ProviderAssumptions
  <2>4. ASSUME NEW b \in Nat, NEW d \in Nat, b <= MaxAttempts, d <= MaxAttempts - 1
        PROVE  TimeOf(b, d) \in Nat /\ TimeOf(b, d) <= TimeOf(MaxAttempts, MaxAttempts - 1)
    <3>1. b * ProviderTimeout <= MaxAttempts * ProviderTimeout
          /\ b * ProviderTimeout \in Nat /\ MaxAttempts * ProviderTimeout \in Nat
      BY <2>3, <2>4, Smaller
    <3>2. d * MaxDelay <= (MaxAttempts - 1) * MaxDelay
          /\ d * MaxDelay \in Nat /\ (MaxAttempts - 1) * MaxDelay \in Nat
      BY <2>3, <2>4, Smaller
    <3>3. QED
      BY <3>1, <3>2 DEF TimeOf
  <2>5. took <= TimeOf(MaxAttempts, MaxAttempts - 1)
    <3>1. TimeOf(0, 0) \in Nat /\ TimeOf(0, 0) <= TimeOf(MaxAttempts, MaxAttempts - 1)
      BY <2>3, <2>4
    <3>2. TimeOf(MaxAttempts, MaxAttempts - 1) \in Nat
      BY <2>3, TimeAdds
    <3>3. CASE took = 0
      BY <3>2, <3>3
    <3>4. CASE a # 0 /\ took <= TimeOf(a, a - 1)
      <4>1. a \in Nat /\ a - 1 \in Nat /\ a <= MaxAttempts /\ a - 1 <= MaxAttempts - 1
        BY <2>1, <2>3, <3>4
      <4>2. TimeOf(a, a - 1) \in Nat /\ TimeOf(a, a - 1) <= TimeOf(MaxAttempts, MaxAttempts - 1)
        BY <2>4, <4>1
      <4>3. QED
        BY <2>1, <3>2, <3>4, <4>2
    <3>5. CASE a # MaxAttempts /\ took <= TimeOf(a, a)
      <4>1. a \in Nat /\ a <= MaxAttempts /\ a <= MaxAttempts - 1
        BY <2>1, <2>3, <3>5
      <4>2. TimeOf(a, a) \in Nat /\ TimeOf(a, a) <= TimeOf(MaxAttempts, MaxAttempts - 1)
        BY <2>4, <4>1
      <4>3. QED
        BY <2>1, <3>2, <3>5, <4>2
    <3>6. QED
      BY <2>2, <3>3, <3>4, <3>5
  <2>6. QED
    BY <2>5 DEF TimeOf, took
<1>2. QED
  BY <1>1, ProviderInvariantInit, ProviderInvariantNext, PTL DEF Spec

-----------------------------------------------------------------------------
(***************************************************************************)
(* Types.                                                                  *)
(***************************************************************************)
\* A read writes nothing to the platform.
ReadState(r) ==
    /\ at[r] \in {"idle", "find", "fetch", "upsert", "save", "ended"}
    /\ at[r] = "fetch" => calling[r].policy = "read"
    /\ sent[r] = 0

ReadInvariant ==
    /\ sent \in [Requests -> Int]
    /\ \A r \in Requests : Program[r] = "read" => ReadState(r)

\* No read is under way before the first request.
LEMMA ReadInvariantInit == Init => ReadInvariant
BY ProgramAssumption DEF Init, ProviderInit, ReadInvariant, ReadState

\* A read that goes on to another call.
LEMMA ReadGoesOn ==
    ASSUME Shape, ProviderInvariant, ReadInvariant, NEW q \in Requests, NEW next, GoOn(q, next),
           Program[q] = "read" => next \in {"find", "fetch", "upsert", "save", "ended"}
    PROVE  ReadInvariant'
<1>1. at' = [at EXCEPT ![q] = next] /\ DOMAIN at = Requests /\ DOMAIN calling = Requests
  BY DEF GoOn, Shape, ProviderInvariant
<1>2. \A r \in Requests \ {q} : calling'[r] = calling[r] /\ sent'[r] = sent[r]
  BY <1>1 DEF GoOn, StartCall, SendAttempt, ReadInvariant
<1>3. sent' \in [Requests -> Int]
  BY DEF GoOn, StartCall, SendAttempt, ReadInvariant
<1>4. ASSUME Program[q] = "read" PROVE ReadState(q)'
  <2>1. next = "fetch" => calling'[q].policy = "read"
    BY <1>1, <1>4 DEF GoOn, StartCall, SendAttempt, ProviderCalls
  <2>2. sent' = sent
    BY <1>4 DEF GoOn, StartCall, SendAttempt, ProviderCalls
  <2>3. QED
    BY <1>1, <1>4, <2>1, <2>2 DEF ReadInvariant, ReadState
<1>5. ASSUME NEW r \in Requests \ {q}, Program[r] = "read" PROVE ReadState(r)'
  BY <1>1, <1>2, <1>5 DEF ReadInvariant, ReadState
<1>6. QED
  BY <1>3, <1>4, <1>5 DEF ReadInvariant

\* Every step keeps a read on its way, with its own policy.
LEMMA ReadInvariantNext ==
    ASSUME Shape, ProviderInvariant, ReadInvariant, [Next]_vars
    PROVE  ReadInvariant'
<1>1. ASSUME NEW q \in Requests, Begin(q) PROVE ReadInvariant'
  <2>1. GoOn(q, FirstCall(q)) /\ (Program[q] = "read" => FirstCall(q) = "find")
    BY <1>1 DEF Begin, FirstCall
  <2>2. QED
    BY <2>1, ReadGoesOn
<1>2. ASSUME NEW q \in Requests, NEW succeeded, NEW took, at[q] \notin {"idle", "ended"},
             Continue(q, succeeded, took)
      PROVE  ReadInvariant'
  <2> DEFINE next == IF succeeded THEN AfterSuccess(at[q]) ELSE AfterFailure(at[q])
  <2>1. GoOn(q, next)
    BY <1>2 DEF Continue
  <2>2. Program[q] = "read" => next \in {"find", "fetch", "upsert", "save", "ended"}
    <3>1. Program[q] = "read" => at[q] \in {"find", "fetch", "upsert", "save"}
      BY <1>2 DEF ReadInvariant, ReadState
    <3>2. QED
      BY <3>1 DEF AfterSuccess, AfterFailure
  <2> HIDE DEF next
  <2>3. QED
    BY <2>1, <2>2, ReadGoesOn
<1>3. ASSUME NEW q \in Requests, AtProviderStep(q) PROVE ReadInvariant'
  <2>1. at[q] \in ProviderCalls /\ ProviderStep(q) /\ at' = at
    BY <1>3 DEF AtProviderStep, requestVars
  <2>2. /\ sent' \in [Requests -> Int]
        /\ \A r \in Requests \ {q} : calling'[r] = calling[r] /\ sent'[r] = sent[r]
    BY <2>1 DEF ReadInvariant, ProviderInvariant, ProviderStep, AttemptSucceeds, AttemptFails,
       NextAttempt, EndCall, SendAttempt
  <2>3. ASSUME Program[q] = "read" PROVE ReadState(q)'
    <3>1. calling[q] \in ProviderRecords /\ DOMAIN calling = Requests /\ ReadState(q)
          /\ calling[q].policy = "read"
      BY <2>1, <2>3 DEF ProviderInvariant, ReadInvariant, ReadState, ProviderCalls
    <3>2. sent' = sent
      BY <2>1, <3>1 DEF ProviderStep, AttemptSucceeds, AttemptFails, NextAttempt, EndCall,
         SendAttempt
    <3>3. calling'[q].policy = "read"
      <4>1. ASSUME NEW result, EndCall(q, result) PROVE calling'[q].policy = "read"
        BY <3>1, <4>1 DEF EndCall, ProviderRecords
      <4>2. ASSUME NEW d,
                   calling' = [calling EXCEPT ![q].step = "sleep", ![q].took = @ + d]
            PROVE  calling'[q].policy = "read"
        BY <3>1, <4>2 DEF ProviderRecords
      <4>3. ASSUME NextAttempt(q) PROVE calling'[q].policy = "read"
        BY <3>1, <4>3 DEF NextAttempt, SendAttempt
      <4>4. QED
        BY <2>1, <4>1, <4>2, <4>3 DEF ProviderStep, AttemptSucceeds, AttemptFails
    <3>4. QED
      BY <2>1, <3>1, <3>2, <3>3 DEF ReadState
  <2>4. ASSUME NEW r \in Requests \ {q}, Program[r] = "read" PROVE ReadState(r)'
    BY <2>1, <2>2, <2>4 DEF ReadInvariant, ReadState
  <2>5. QED
    BY <2>2, <2>3, <2>4 DEF ReadInvariant
<1>4. CASE calling' = calling /\ sent' = sent /\ at' = at
  BY <1>4 DEF ReadInvariant, ReadState
<1>5. "idle" \notin CallNames \union ProviderCalls /\ "ended" \notin CallNames \union ProviderCalls
  BY ProgramAssumption DEF ProviderCalls
<1>6. QED
  BY <1>1, <1>2, <1>3, <1>4, <1>5
  DEF Next, Step, DatabaseCallReturns, ProviderCallReturns, InTransactionStep, ClientGoes,
      ServerEnds, Shutdown, DatabaseCloses, Finished, vars, providerVars, requestVars

Rest ==
    /\ ended \in BOOLEAN
    /\ faults \in 0 .. MaxFaults
    /\ abandoned \subseteq Requests
    /\ leased \in [Requests -> Nat]
    /\ closing \in BOOLEAN

\* Every step keeps the types of what is left.
LEMMA RestNext ==
    ASSUME Shape, ProviderInvariant, Rest, [Next]_vars
    PROVE  Rest'
<1>1. MaxFaults \in Nat
  BY TenantAssumptions
<1>2. ASSUME NEW q \in Requests, NEW next, GoOn(q, next)
      PROVE  ended' = ended /\ faults' = faults /\ abandoned' \subseteq Requests
             /\ closing' = closing
  BY <1>2 DEF GoOn, Enter, Rest
<1>3. ASSUME NEW q \in Requests, Begin(q) PROVE Rest'
  BY <1>2, <1>3 DEF Begin, Rest
<1>4. ASSUME NEW q \in Requests, NEW succeeded, NEW took \in Nat, Continue(q, succeeded, took)
      PROVE  Rest'
  <2> DEFINE value == IF Program[q] = "reply" THEN leased[q] + took ELSE leased[q]
  <2>1. value \in Nat
    BY DEF Rest
  <2>2. leased' = [leased EXCEPT ![q] = value]
    BY <1>4 DEF Continue
  <2> HIDE DEF value
  <2>3. leased' \in [Requests -> Nat]
    BY <2>1, <2>2 DEF Rest
  <2>4. QED
    BY <1>2, <1>4, <2>3 DEF Continue, Rest
<1>5. ASSUME NEW q \in Requests, DatabaseCallReturns(q) \/ ProviderCallReturns(q) PROVE Rest'
  <2>1. tx[q].spent \in Nat /\ calling[q].took \in Nat
    BY DEF Shape, TxRecords, ProviderInvariant, ProviderRecords
  <2>2. QED
    BY <1>4, <1>5, <2>1 DEF DatabaseCallReturns, ProviderCallReturns
<1>6. ASSUME NEW q \in Requests, InTransactionStep(q) PROVE Rest'
  <2>1. UNCHANGED <<abandoned, leased, closing>>
    BY <1>6 DEF InTransactionStep, requestVars
  <2>2. ended' = ended /\ (faults' = faults \/ (faults < MaxFaults /\ faults' = faults + 1))
    <3>1. ASSUME NEW k \in Connections, Connect(q, k) PROVE ended' = ended /\ faults' = faults
      BY <3>1 DEF Connect
    <3>2. ASSUME ConnectFails(q) \/ StatementDone(q) PROVE ended' = ended /\ faults' = faults
      BY <3>2 DEF ConnectFails, StatementDone
    <3>3. ASSUME StatementFails(q)
          PROVE  ended' = ended /\ (faults' = faults \/ Fault)
      BY <3>3 DEF StatementFails, RollBack
    <3>4. ASSUME StatementLate(q)
          PROVE  ended' = ended /\ Fault
      BY <3>4 DEF StatementLate, RollBack
    <3>5. ASSUME StatementUnsent(q) PROVE ended' = ended /\ faults' = faults
      BY <3>5 DEF StatementUnsent, GiveUp, RollBack
    <3>6. ASSUME ConnectionLost(q) PROVE ended' = ended /\ Fault
      BY <3>6 DEF ConnectionLost, RollBack
    <3>7. ended' = ended /\ (faults' = faults \/ Fault)
      <4>1. CASE \E k \in Connections : Connect(q, k)
        BY <3>1, <4>1
      <4>2. CASE StatementLate(q)
        BY <3>4, <4>2
      <4>3. QED
        BY <1>6, <3>2, <3>3, <3>5, <3>6, <4>1, <4>2 DEF InTransactionStep, CallStep
    <3>8. QED
      BY <3>7 DEF Fault
  <2>3. QED
    BY <1>1, <2>1, <2>2 DEF Rest
<1>7. ASSUME NEW q \in Requests, ClientGoes(q) PROVE Rest'
  BY <1>7 DEF ClientGoes, txVars, Rest
<1>8. CASE Shutdown \/ DatabaseCloses
  BY <1>8 DEF Shutdown, DatabaseCloses, EndPool, txVars, requestVars, Rest
<1>9. CASE UNCHANGED <<ended, faults, abandoned, leased, closing>>
  BY <1>9 DEF Rest
<1>10. QED
  BY <1>3, <1>5, <1>6, <1>7, <1>8, <1>9
  DEF Next, Step, AtProviderStep, ServerEnds, LateEnds, Finished, vars, txVars, requestVars

\* Requests, transactions, connections and calls keep their types: a call is not
\* attempted more often than MaxAttempts (callProvider), and no count of statements
\* or time becomes negative (withTenant).
THEOREM TypeCorrect == Spec => []TypeOK
<1> DEFINE Inv == CallsInvariant /\ PublishInvariant /\ CountInvariant /\ ProviderInvariant
                  /\ ReadInvariant /\ Rest
<1>1. Init => Inv
  <2>1. Init => Rest
    <3> SUFFICES ASSUME Init PROVE Rest
      OBVIOUS
    <3>1. 0 \in 0 .. MaxFaults
      BY TenantAssumptions
    <3>2. /\ ended = FALSE /\ faults = 0 /\ abandoned = {} /\ closing = FALSE
          /\ leased = [r \in Requests |-> 0]
      BY DEF Init, TxInit
    <3>3. QED
      BY <3>1, <3>2 DEF Rest
  <2>2. QED
    BY <2>1, CallsInvariantInit, PublishInvariantInit, CountInvariantInit, ProviderInvariantInit,
       ReadInvariantInit
<1>2. Inv /\ [Next]_vars => Inv'
  <2> SUFFICES ASSUME Inv, [Next]_vars PROVE Inv'
    OBVIOUS
  <2>1. CallsInvariant' /\ PublishInvariant' /\ CountInvariant' /\ ProviderInvariant'
    BY CallsInvariantNext, PublishInvariantNext, CountInvariantNext, ProviderInvariantNext
  <2>2. ReadInvariant' /\ Rest'
    BY ReadInvariantNext, RestNext DEF CallsInvariant
  <2>3. QED
    BY <2>1, <2>2
<1>3. Inv => TypeOK
  <2> SUFFICES ASSUME Inv PROVE TypeOK
    OBVIOUS
  <2>1. tx \in [Requests ->
          [step : InTransaction \union {"none", "connect"}, name : CallNames \union {None},
           left : Nat, asked : BOOLEAN, spent : Nat]]
    BY DEF CallsInvariant, Shape, TxRecords, CountInvariant
  <2>2. sent \in [Requests -> 0 .. MaxAttempts]
    <3>1. ASSUME NEW r \in Requests PROVE sent[r] \in 0 .. MaxAttempts
      <4>1. sent[r] \in {0, 1}
        BY ProgramAssumption DEF PublishInvariant, PublishState, ReadInvariant, ReadState
      <4>2. QED
        BY <4>1, ProviderAssumptions
    <3>2. sent = [r \in Requests |-> sent[r]]
      BY DEF ReadInvariant
    <3>3. QED
      BY <3>1, <3>2
  <2>3. /\ conn \in [Connections ->
              [owner : Requests \union {None}, alive : BOOLEAN,
               session : {"clean", "open", "aborted"},
               tenant : {TenantOf[r] : r \in Requests} \union {None},
               writes : SUBSET Calls,
               late : [kind : InTransaction, call : Calls] \union {None}]]
        /\ fate \in [Calls -> {"none", "acknowledged", "failed", "doubtful"}]
        /\ committed \subseteq Calls
        /\ at \in [Requests -> Stages]
    BY DEF CallsInvariant, Shape, Sessions, LateStatements
  <2>4. calling \in [Requests ->
          [step : {"none", "attempt", "sleep", "answered", "failed"}, policy : Policies,
           attempt : 0 .. MaxAttempts, took : Nat]]
    BY DEF ProviderInvariant, ProviderRecords
  <2>5. QED
    BY <2>1, <2>2, <2>3, <2>4 DEF TypeOK, Rest
<1>4. QED
  BY <1>1, <1>2, <1>3, PTL DEF Spec
=============================================================================
