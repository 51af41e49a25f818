---------------------- MODULE SnapshotHydrationProofs ----------------------
(***************************************************************************)
(* Proofs about SnapshotHydration, for any number of clients, replicas and *)
(* comments, any page sizes and budget, and every fault.                   *)
(***************************************************************************)
EXTENDS SnapshotHydration, FiniteSetTheorems, WellFoundedInduction, TLAPS

-----------------------------------------------------------------------------
(***************************************************************************)
(* Lemmas about sets of comments                                           *)
(***************************************************************************)
\* A set of numbers that is not empty has a least element, and Min is it.
LEMMA MinIsLeast ==
    ASSUME NEW T, T \subseteq Nat, T # {}
    PROVE  Min(T) \in T /\ \A y \in T : Min(T) <= y
<1>1. PICK x \in T : \A y \in T : ~(<<y, x>> \in OpToRel(<, Nat))
  BY NatLessThanWellFounded, WFMin
<1>2. \A y \in T : ~(<<y, x>> \in OpToRel(<, Nat)) => x <= y
  BY DEF OpToRel
<1>3. \E z \in T : \A y \in T : z =< y
  BY <1>1, <1>2
<1> QED BY <1>3 DEF Min

\* A bounded set of numbers that is not empty has a greatest element.
LEMMA MaxIsGreatest ==
    ASSUME NEW n \in Nat, NEW T, T \subseteq 0 .. n, T # {}
    PROVE  Max(T) \in T /\ \A y \in T : y <= Max(T)
<1> DEFINE U == {n - i : i \in T}
<1>1. \A i \in T : n - i \in Nat
  OBVIOUS
<1>2. U \subseteq Nat /\ U # {}
  BY <1>1, Zenon
<1>3. PICK m \in U : \A u \in U : m <= u
  BY <1>2, MinIsLeast, Zenon
<1>4. PICK x \in T : m = n - x
  BY Zenon
<1>5. \A y \in T : x >= y
  <2> TAKE y \in T
  <2>1. n - y \in U
    BY Zenon
  <2>2. n - x <= n - y
    BY <2>1, <1>3, <1>4, Zenon
  <2> QED BY <2>2
<1>6. \E z \in T : \A y \in T : z >= y
  BY <1>5
<1> HIDE DEF U
<1> QED BY <1>6 DEF Max

\* The larger of two numbers.
LEMMA MaxOfTwo ==
    ASSUME NEW a \in Nat, NEW b \in Nat
    PROVE  Max({a, b}) = IF a >= b THEN a ELSE b
<1>1. PICK n \in Nat : a <= n /\ b <= n
  <2>1. a + b \in Nat /\ a <= a + b /\ b <= a + b
    OBVIOUS
  <2> QED BY <2>1
<1>2. {a, b} \subseteq 0 .. n
  BY <1>1
<1>3. Max({a, b}) \in {a, b} /\ \A y \in {a, b} : y <= Max({a, b})
  BY <1>2, MaxIsGreatest
<1> QED BY <1>3

\* What is newer than a comment of a page, and comes before the page's
\* cursor, is on the page; and a page is empty only if there is nothing left.
LEMMA NewestIsUpwardClosed ==
    ASSUME NEW k \in Nat \ {0}, NEW n \in Nat, NEW S, S \subseteq 1 .. n
    PROVE  /\ Newest(k, S) \subseteq S
           /\ \A i \in Newest(k, S), j \in S : i <= j => j \in Newest(k, S)
           /\ S # {} => Newest(k, S) # {}
<1> DEFINE Above(i) == {j \in S : j > i}
<1>1. IsFiniteSet(S)
  <2>1. IsFiniteSet(1 .. n)
    BY FS_Interval
  <2>2. S \in SUBSET (1 .. n)
    OBVIOUS
  <2> QED BY <2>1, <2>2, FS_Subset
<1>2. \A i \in S : IsFiniteSet(Above(i)) /\ Cardinality(Above(i)) \in Nat
  <2> TAKE i \in S
  <2>1. Above(i) \in SUBSET S
    OBVIOUS
  <2> QED BY <2>1, <1>1, FS_Subset, FS_CardinalityType
<1>3. ASSUME NEW i \in Newest(k, S), NEW j \in S, i <= j
      PROVE  j \in Newest(k, S)
  <2>1. i \in S /\ Cardinality(Above(i)) < k
    BY DEF Newest
  <2>2. \A x \in S : x > j => x > i
    BY <2>1, <1>3
  <2>3. Above(j) \in SUBSET Above(i)
    BY <2>2, Zenon
  <2>4. Cardinality(Above(j)) <= Cardinality(Above(i))
    BY <2>1, <2>3, <1>2, FS_Subset, Zenon
  <2>5. Cardinality(Above(j)) < k
    BY <2>1, <2>4, <1>2
  <2> QED BY <2>5 DEF Newest
<1>4. ASSUME S # {}
      PROVE  Newest(k, S) # {}
  <2>1. PICK m \in S : \A y \in S : y <= m
    <3>1. S \subseteq 0 .. n
      OBVIOUS
    <3> QED BY <3>1, <1>4, MaxIsGreatest
  <2>2. \A y \in S : ~(y > m)
    BY <2>1
  <2>3. Above(m) = {}
    BY <2>2, Zenon
  <2>4. Cardinality(Above(m)) = 0
    BY <2>3, FS_EmptySet, Zenon
  <2> QED BY <2>1, <2>4 DEF Newest
<1> QED BY <1>3, <1>4 DEF Newest

-----------------------------------------------------------------------------
(***************************************************************************)
(* Type correctness                                                        *)
(***************************************************************************)
FetchedPages == [items : SUBSET Comments, began : Times, storedAt : Times]

\* A request that is going to read a page, or holds one, has budget left.
Reading == {"fetch", "restart", "upsert", "save"}

InBudget == \A c \in Clients : pc[c] \in Reading => hydrations[c] < MaxHydrations

Typed == TypeOK /\ InBudget

\* The constants, and the values that stand for nothing read yet.
LEMMA ConstantTypes ==
    /\ MaxComments \in Nat /\ MaxHydrations \in Nat \ {0}
    /\ Limit \in Nat \ {0} /\ ProviderPageLimit \in Nat \ {0}
    /\ Unread \in SnapshotStates /\ NoPage \in FetchedPages
BY BoundsAssumption DEF Unread, SnapshotStates, NoPage, FetchedPages, Times

\* Pages of either kind are sets of comments that exist.
LEMMA PageTypes ==
    ASSUME TypeOK
    PROVE  /\ \A a : Page(a) \subseteq stored
           /\ \A cursor : ProviderPage(cursor) \subseteq 1 .. published
           /\ \A cursor : ProviderPage(cursor) \subseteq Comments
<1>1. 1 .. published \subseteq Comments
  BY ConstantTypes DEF TypeOK, Times, Comments
<1>2. \A cursor : ProviderPage(cursor) \subseteq 1 .. published
  BY DEF ProviderPage, Newest
<1>3. \A a : Page(a) \subseteq stored
  BY DEF Page, Oldest
<1> QED BY <1>1, <1>2, <1>3

\* What hydrate makes of a page is a snapshot state.
LEMMA NextStateType ==
    ASSUME NEW page \in FetchedPages, NEW previous \in SnapshotStates
    PROVE  /\ NextState(page) \in SnapshotStates
           /\ Following(NextState(page), previous) \in SnapshotStates
<1>1. page.items # {} => Min(page.items) \in Comments
  <2>1. page.items \subseteq Nat /\ page.items \subseteq Comments
    BY DEF FetchedPages, Comments
  <2> QED BY <2>1, MinIsLeast
<1>2. NextState(page) \in SnapshotStates
  BY <1>1 DEF NextState, SnapshotStates, FetchedPages
<1>3. Max({NextState(page).began, previous.began}) \in Times
  BY <1>2, ConstantTypes, MaxOfTwo DEF SnapshotStates, Times
<1>4. ASSUME NEW s \in SnapshotStates, NEW t \in Times
      PROVE  [s EXCEPT !.began = t] \in SnapshotStates
  BY <1>4 DEF SnapshotStates
<1> QED BY <1>2, <1>3, <1>4 DEF Following

\* A request that ends leaves its locals empty.
LEMMA ForgetTypes ==
    ASSUME TypeOK, NEW c \in Clients, Forget(c)
    PROVE  /\ state' \in [Clients -> SnapshotStates]
           /\ expected' \in [Clients -> SnapshotStates]
           /\ fetched' \in [Clients -> FetchedPages]
           /\ hydrations' \in [Clients -> 0 .. MaxHydrations]
           /\ at' \in [Clients -> Processes \union {None}]
           /\ \A d \in Clients \ {c} : hydrations'[d] = hydrations[d]
BY ConstantTypes DEF TypeOK, Forget, FetchedPages

\* An answer gives the client a cursor and a page.
LEMMA AnswerTypes ==
    ASSUME TypeOK, NEW c \in Clients, NEW s \in SnapshotStates, Answer(c, s)
    PROVE  /\ after' \in [Clients -> Times]
           /\ partialRun' \in [Clients -> BOOLEAN]
           /\ got' \in [Clients -> SUBSET Comments]
           /\ vouched' \in [Clients -> Times]
           /\ syncedAt' \in [Clients -> Times \union {None}]
<1> DEFINE items == Page(after[c])
<1>1. items \subseteq Comments
  BY PageTypes DEF TypeOK
<1>2. items # {} => Max(items) \in Times
  <2>1. items \subseteq 0 .. MaxComments
    BY <1>1, ConstantTypes DEF Comments
  <2> HIDE DEF items
  <2> QED BY <2>1, MaxIsGreatest, ConstantTypes DEF Times
<1> HIDE DEF items
<1>3. after' \in [Clients -> Times]
  <2>1. after' = [after EXCEPT ![c] = IF items = {} THEN after[c] ELSE Max(items)]
    BY DEF Answer, items
  <2> QED BY <2>1, <1>2 DEF TypeOK
<1>4. got' \in [Clients -> SUBSET Comments]
  <2>1. got' = [got EXCEPT ![c] = got[c] \union items]
    BY DEF Answer, items
  <2> QED BY <2>1, <1>1 DEF TypeOK
<1>5. /\ partialRun' \in [Clients -> BOOLEAN]
      /\ vouched' \in [Clients -> Times]
      /\ syncedAt' \in [Clients -> Times \union {None}]
  <2>1. PartialRun(c, s) \in BOOLEAN
    BY DEF PartialRun, TypeOK, SnapshotStates
  <2>2. s.began \in Times /\ s.completedAt \in Times \union {None}
    BY DEF SnapshotStates
  <2>3. /\ partialRun' = [partialRun EXCEPT ![c] = PartialRun(c, s)]
        /\ vouched' = [vouched EXCEPT ![c] = s.began]
        /\ syncedAt' = [syncedAt EXCEPT ![c] = IF PartialRun(c, s) THEN None ELSE s.completedAt]
    BY DEF Answer
  <2> QED BY <2>1, <2>2, <2>3 DEF TypeOK
<1> QED BY <1>3, <1>4, <1>5

\* The type invariant in three parts.
StoreTypes ==
    /\ published \in Times
    /\ stored \subseteq Comments
    /\ snapshot \in SnapshotStates
    /\ aged \in BOOLEAN

RequestTypes ==
    /\ inFlight \in [Processes -> Clients \union {None}]
    /\ pc \in [Clients -> {"idle", "ended"} \union Waiting]
    /\ at \in [Clients -> Processes \union {None}]
    /\ state \in [Clients -> SnapshotStates]
    /\ expected \in [Clients -> SnapshotStates]
    /\ fetched \in [Clients -> FetchedPages]
    /\ hydrations \in [Clients -> 0 .. MaxHydrations]
    /\ InBudget

ClientTypes ==
    /\ after \in [Clients -> Times]
    /\ partialRun \in [Clients -> BOOLEAN]
    /\ got \in [Clients -> SUBSET Comments]
    /\ vouched \in [Clients -> Times]
    /\ syncedAt \in [Clients -> Times \union {None}]

\* The parts say what the whole says.
LEMMA TypedParts == Typed <=> StoreTypes /\ RequestTypes /\ ClientTypes
BY Zenon DEF Typed, TypeOK, StoreTypes, RequestTypes, ClientTypes, FetchedPages

\* How a request ends keeps the types: refused, answered, or with the
\* hydration it runs.
LEMMA EndTypes ==
    ASSUME Typed, NEW c \in Clients
    PROVE  /\ Refuse(c) => RequestTypes' /\ ClientTypes'
           /\ \A s \in SnapshotStates : Answer(c, s) => RequestTypes' /\ ClientTypes'
           /\ \A s \in SnapshotStates : Settle(c, s) => RequestTypes' /\ ClientTypes'
           /\ Reject(c) => RequestTypes' /\ ClientTypes'
<1>1. TypeOK /\ RequestTypes /\ ClientTypes
  BY TypedParts DEF Typed
<1>2. ASSUME NEW l \in {"idle", "ended"}, Goto(c, l), Forget(c)
      PROVE  /\ pc' \in [Clients -> {"idle", "ended"} \union Waiting]
             /\ InBudget'
  <2>1. pc' \in [Clients -> {"idle", "ended"} \union Waiting]
    BY <1>1, <1>2 DEF RequestTypes, Goto
  <2>2. \A d \in Clients \ {c} : pc'[d] = pc[d] /\ hydrations'[d] = hydrations[d]
    BY <1>1, <1>2, ForgetTypes DEF Goto, RequestTypes
  <2>3. pc'[c] \notin Reading
    BY <1>1, <1>2 DEF Goto, RequestTypes, Reading
  <2> QED BY <1>1, <2>1, <2>2, <2>3 DEF InBudget, RequestTypes
<1>3. Refuse(c) => RequestTypes' /\ ClientTypes'
  <2> HAVE Refuse(c)
  <2>1. Goto(c, "idle") /\ Forget(c) /\ UNCHANGED <<inFlight, clientVars>>
    BY DEF Refuse
  <2> QED BY <1>1, <1>2, <2>1, ForgetTypes DEF RequestTypes, ClientTypes, clientVars
<1>4. ASSUME NEW s \in SnapshotStates, Answer(c, s)
      PROVE  RequestTypes' /\ ClientTypes'
  <2>1. /\ \E l \in {"idle", "ended"} : Goto(c, l)
        /\ Forget(c) /\ UNCHANGED inFlight
    BY <1>4 DEF Answer
  <2>2. ClientTypes'
    BY <1>1, <1>4, AnswerTypes DEF ClientTypes
  <2> QED BY <1>1, <1>2, <2>1, <2>2, ForgetTypes DEF RequestTypes
<1>5. ASSUME NEW s \in SnapshotStates, Settle(c, s)
      PROVE  RequestTypes' /\ ClientTypes'
  <2>1. /\ inFlight' \in [Processes -> Clients \union {None}]
        /\ pc' \in [Clients -> {"idle", "ended"} \union Waiting]
        /\ state' \in [Clients -> SnapshotStates]
    BY <1>1, <1>5 DEF Settle, RequestTypes, Waiting
  <2>2. \A d \in Clients : pc'[d] = pc[d] \/ pc'[d] = "page"
    BY <1>5 DEF Settle
  <2>3. InBudget'
    BY <1>1, <1>5, <2>2 DEF Settle, RequestTypes, InBudget, Reading
  <2> QED BY <1>1, <1>5, <2>1, <2>3 DEF Settle, RequestTypes, ClientTypes, clientVars
<1>6. Reject(c) => RequestTypes' /\ ClientTypes'
  <2> HAVE Reject(c)
  <2>1. /\ inFlight' \in [Processes -> Clients \union {None}]
        /\ pc' \in [Clients -> {"idle", "ended"} \union Waiting]
    BY <1>1 DEF Reject, RequestTypes, Waiting
  <2>2. \A d \in Clients : /\ pc'[d] \in {pc[d], "page", "idle"}
                           /\ d # c => hydrations'[d] = hydrations[d]
                           /\ d = c => pc'[d] = "idle"
    BY <1>1, ForgetTypes DEF Reject
  <2>3. InBudget'
    BY <1>1, <2>2 DEF RequestTypes, InBudget, Reading
  <2> QED BY <1>1, <2>1, <2>3, ForgetTypes DEF Reject, RequestTypes, ClientTypes, clientVars
<1> QED BY <1>3, <1>4, <1>5, <1>6

\* A request that goes on keeps the types, if it has budget where it needs it.
LEMMA GotoTypes ==
    ASSUME Typed, NEW c \in Clients, NEW l \in Waiting, Goto(c, l),
           \A d \in Clients \ {c} : hydrations'[d] = hydrations[d],
           l \in Reading => hydrations'[c] < MaxHydrations
    PROVE  /\ pc' \in [Clients -> {"idle", "ended"} \union Waiting]
           /\ InBudget'
<1>1. RequestTypes
  BY TypedParts
<1>2. pc' \in [Clients -> {"idle", "ended"} \union Waiting]
  BY <1>1 DEF RequestTypes, Goto
<1>3. \A d \in Clients : pc'[d] = IF d = c THEN l ELSE pc[d]
  BY <1>1 DEF RequestTypes, Goto
<1> QED BY <1>1, <1>2, <1>3 DEF RequestTypes, InBudget

\* Every step of a request keeps the types.
LEMMA StepTypes ==
    ASSUME Typed, NEW c \in Clients, Step(c)
    PROVE  StoreTypes' /\ RequestTypes' /\ ClientTypes'
<1>1. TypeOK /\ InBudget /\ StoreTypes /\ RequestTypes /\ ClientTypes
  BY TypedParts DEF Typed
<1>2. UNCHANGED <<published, stored, snapshot, aged>> => StoreTypes'
  BY <1>1 DEF StoreTypes
<1>3. UNCHANGED clientVars => ClientTypes'
  BY <1>1 DEF ClientTypes, clientVars
<1>4. ASSUME NEW l \in Waiting, Goto(c, l), UNCHANGED <<inFlight, requestVars>>,
             l \in Reading => hydrations[c] < MaxHydrations
      PROVE  RequestTypes'
  <2>1. /\ pc' \in [Clients -> {"idle", "ended"} \union Waiting]
        /\ InBudget'
    BY <1>1, <1>4, GotoTypes DEF requestVars
  <2> QED BY <1>1, <1>4, <2>1 DEF RequestTypes, requestVars
<1>5. ASSUME NEW cursor, pc[c] \in {"fetch", "restart"}, Deliver(c, cursor)
      PROVE  RequestTypes' /\ ClientTypes'
  <2>1. hydrations[c] < MaxHydrations
    BY <1>1, <1>5 DEF InBudget, Reading
  <2>2. /\ pc' \in [Clients -> {"idle", "ended"} \union Waiting]
        /\ InBudget'
    <3>1. "upsert" \in Waiting /\ UNCHANGED hydrations /\ Goto(c, "upsert")
      BY <1>5 DEF Deliver, Waiting, Hydrating
    <3> QED BY <3>1, <2>1, GotoTypes
  <2>3. [ items |-> ProviderPage(cursor),
          began |-> IF cursor = None THEN published ELSE state[c].began,
          storedAt |-> 0 ] \in FetchedPages
    <3>1. ProviderPage(cursor) \subseteq Comments
      BY <1>1, PageTypes
    <3>2. state[c].began \in Times /\ published \in Times /\ 0 \in Times
      BY <1>1, ConstantTypes DEF StoreTypes, RequestTypes, SnapshotStates, Times
    <3> QED BY <3>1, <3>2 DEF FetchedPages
  <2>4. fetched' \in [Clients -> FetchedPages]
    BY <1>1, <1>5, <2>3, Zenon DEF Deliver, RequestTypes
  <2> QED BY <1>1, <1>5, <2>2, <2>4, <1>3 DEF Deliver, RequestTypes
<1>6. CASE Fetch(c)
  BY <1>2, <1>5, <1>6 DEF Fetch
<1>7. CASE CursorRejected(c)
  <2>1. hydrations[c] < MaxHydrations
    BY <1>1, <1>7 DEF InBudget, Reading, CursorRejected
  <2> QED BY <1>2, <1>3, <1>4, <1>7, <2>1 DEF CursorRejected, Waiting, Hydrating
<1>8. CASE Restart(c)
  BY <1>2, <1>5, <1>8 DEF Restart
<1>9. CASE FetchFails(c)
  BY <1>2, <1>9, EndTypes DEF FetchFails
<1>10. CASE JoinTimesOut(c)
  BY <1>2, <1>3, <1>4, <1>10 DEF JoinTimesOut, Waiting, Reading
<1>11. ASSUME NEW out \in Database, FindPost(c, out)
       PROVE  StoreTypes' /\ RequestTypes' /\ ClientTypes'
  <2>1. CASE out # "ok"
    BY <1>2, <1>11, <2>1, EndTypes DEF FindPost
  <2>2. CASE out = "ok"
    <3>1. /\ pc' \in [Clients -> {"idle", "ended"} \union Waiting]
          /\ InBudget'
      <4>1. "list" \in Waiting /\ "list" \notin Reading /\ UNCHANGED hydrations /\ Goto(c, "list")
        BY <1>11, <2>2 DEF FindPost, Waiting, Reading
      <4> QED BY <4>1, GotoTypes
    <3>2. /\ expected' \in [Clients -> SnapshotStates]
          /\ state' \in [Clients -> SnapshotStates]
      BY <1>1, <1>11, <2>2, ConstantTypes DEF FindPost, RequestTypes, StoreTypes
    <3> QED BY <1>1, <1>2, <1>3, <1>11, <2>2, <3>1, <3>2 DEF FindPost, RequestTypes
  <2> QED BY <2>1, <2>2
<1>12. ASSUME NEW out \in Database, ListPage(c, out)
       PROVE  StoreTypes' /\ RequestTypes' /\ ClientTypes'
  <2>1. state[c] \in SnapshotStates
    BY <1>1 DEF RequestTypes
  <2>2. CASE Refuse(c) \/ Answer(c, state[c])
    BY <1>2, <1>12, <2>1, <2>2, EndTypes DEF ListPage
  <2>3. CASE Goto(c, "join") /\ UNCHANGED <<inFlight, requestVars, clientVars>>
    BY <1>2, <1>3, <1>4, <1>12, <2>3 DEF ListPage, Waiting, Reading
  <2>4. CASE /\ inFlight' = [inFlight EXCEPT ![at[c]] = c]
             /\ Goto(c, "run")
             /\ UNCHANGED <<requestVars, clientVars>>
    <3>1. /\ pc' \in [Clients -> {"idle", "ended"} \union Waiting]
          /\ InBudget'
      BY <2>4, GotoTypes DEF requestVars, Waiting, Hydrating, Reading
    <3>2. inFlight' \in [Processes -> Clients \union {None}]
      BY <1>1, <2>4 DEF RequestTypes
    <3> QED BY <1>1, <1>2, <1>3, <1>12, <2>4, <3>1, <3>2 DEF ListPage, RequestTypes, requestVars
  <2> QED BY <1>12, <2>2, <2>3, <2>4 DEF ListPage
<1>13. ASSUME NEW out \in Database, Run(c, out)
       PROVE  StoreTypes' /\ RequestTypes' /\ ClientTypes'
  <2>1. state[c] \in SnapshotStates
    BY <1>1 DEF RequestTypes
  <2>2. CASE Reject(c) \/ Settle(c, state[c])
    BY <1>2, <1>13, <2>1, <2>2, EndTypes DEF Run
  <2>3. CASE /\ BudgetLeft(c) /\ Goto(c, "fetch")
             /\ UNCHANGED <<inFlight, requestVars, clientVars>>
    BY <1>2, <1>3, <1>4, <1>13, <2>3 DEF Run, BudgetLeft, Waiting, Hydrating
  <2> QED BY <1>13, <2>2, <2>3 DEF Run
<1>14. ASSUME NEW out \in Database, Upsert(c, out)
       PROVE  StoreTypes' /\ RequestTypes' /\ ClientTypes'
  <2>1. StoreTypes'
    <3>1. fetched[c].items \subseteq Comments
      BY <1>1 DEF RequestTypes, FetchedPages
    <3> QED BY <1>1, <1>14, <3>1 DEF Upsert, StoreTypes
  <2>2. CASE out # "ok"
    BY <1>14, <2>1, <2>2, EndTypes DEF Upsert
  <2>3. CASE out = "ok"
    <3>1. hydrations[c] < MaxHydrations
      BY <1>1, <1>14 DEF InBudget, Reading, Upsert
    <3>2. /\ pc' \in [Clients -> {"idle", "ended"} \union Waiting]
          /\ InBudget'
      <4>1. "save" \in Waiting /\ UNCHANGED hydrations /\ Goto(c, "save")
        BY <1>14, <2>3 DEF Upsert, Waiting, Hydrating
      <4> QED BY <3>1, <4>1, GotoTypes
    <3>3. fetched' \in [Clients -> FetchedPages]
      BY <1>1, <1>14, <2>3 DEF Upsert, RequestTypes, StoreTypes, FetchedPages
    <3> QED BY <1>1, <1>3, <1>14, <2>1, <2>3, <3>2, <3>3 DEF Upsert, RequestTypes
  <2> QED BY <2>2, <2>3
<1>15. ASSUME NEW out \in Database, Save(c, out)
       PROVE  StoreTypes' /\ RequestTypes' /\ ClientTypes'
  <2> DEFINE next == Following(NextState(fetched[c]), snapshot)
  <2>1. next \in SnapshotStates
    BY <1>1, NextStateType DEF RequestTypes, StoreTypes
  <2>2. hydrations[c] + 1 \in 0 .. MaxHydrations
    BY <1>1, <1>15, ConstantTypes DEF InBudget, Reading, Save, RequestTypes
  <2>3. /\ pc[c] = "save"
        /\ (snapshot' = next /\ aged' = FALSE) \/ UNCHANGED <<snapshot, aged>>
        /\ UNCHANGED <<published, stored>>
        /\ \/ Reject(c)
           \/ /\ hydrations' = [hydrations EXCEPT ![c] = hydrations[c] + 1]
              /\ fetched' = [fetched EXCEPT ![c] = NoPage]
              /\ \/ /\ Goto(c, "run")
                    /\ state' = [state EXCEPT ![c] = next]
                    /\ expected' = [expected EXCEPT ![c] = next]
                 \/ Goto(c, "reread") /\ UNCHANGED <<state, expected>>
              /\ UNCHANGED <<inFlight, at, clientVars>>
    BY <1>15, Zenon DEF Save, Counted
  <2> HIDE DEF next
  <2>4. StoreTypes'
    BY <1>1, <2>1, <2>3 DEF StoreTypes
  <2>5. CASE Reject(c)
    BY <2>4, <2>5, EndTypes
  <2>6. ASSUME ~Reject(c)
        PROVE  RequestTypes' /\ ClientTypes'
    <3>1. \E l \in {"run", "reread"} : Goto(c, l)
      BY <2>3, <2>6
    <3>2. /\ pc' \in [Clients -> {"idle", "ended"} \union Waiting]
          /\ InBudget'
      <4>1. \A d \in Clients \ {c} : hydrations'[d] = hydrations[d]
        BY <1>1, <2>3, <2>6 DEF RequestTypes
      <4> QED BY <3>1, <4>1, GotoTypes DEF Waiting, Hydrating, Reading
    <3>3. /\ hydrations' \in [Clients -> 0 .. MaxHydrations]
          /\ fetched' \in [Clients -> FetchedPages]
          /\ state' \in [Clients -> SnapshotStates]
          /\ expected' \in [Clients -> SnapshotStates]
      BY <1>1, <2>1, <2>2, <2>3, <2>6, ConstantTypes DEF RequestTypes
    <3> QED BY <1>1, <1>3, <2>3, <2>6, <3>2, <3>3 DEF RequestTypes
  <2> QED BY <2>4, <2>5, <2>6
<1>16. ASSUME NEW out \in Database, Reread(c, out)
       PROVE  StoreTypes' /\ RequestTypes' /\ ClientTypes'
  BY <1>1, <1>2, <1>16, EndTypes DEF Reread, StoreTypes
<1>17. ASSUME NEW out \in Database, ReadPage(c, out)
       PROVE  StoreTypes' /\ RequestTypes' /\ ClientTypes'
  BY <1>1, <1>2, <1>17, EndTypes DEF ReadPage, RequestTypes
<1> QED BY <1>6, <1>7, <1>8, <1>9, <1>10, <1>11, <1>12, <1>13, <1>14, <1>15, <1>16, <1>17
        DEF Step

\* So does every other step.
LEMMA NextTypes == Typed /\ [Next]_vars => Typed'
<1> SUFFICES ASSUME Typed, [Next]_vars
             PROVE  StoreTypes' /\ RequestTypes' /\ ClientTypes'
  BY TypedParts, Zenon DEF Typed, TypeOK, StoreTypes, RequestTypes, ClientTypes, FetchedPages
<1>1. TypeOK /\ InBudget /\ StoreTypes /\ RequestTypes /\ ClientTypes
  BY TypedParts DEF Typed
<1>2. ASSUME NEW c \in Clients, Step(c)
      PROVE  StoreTypes' /\ RequestTypes' /\ ClientTypes'
  BY <1>2, StepTypes
<1>3. ASSUME NEW c \in Clients, NEW p \in Processes, Begin(c, p)
      PROVE  StoreTypes' /\ RequestTypes' /\ ClientTypes'
  <2>1. /\ pc' \in [Clients -> {"idle", "ended"} \union Waiting]
        /\ InBudget'
    <3>1. "find" \in Waiting /\ "find" \notin Reading /\ UNCHANGED hydrations /\ Goto(c, "find")
      BY <1>3 DEF Begin, Waiting, Reading
    <3> QED BY <3>1, GotoTypes
  <2>2. at' \in [Clients -> Processes \union {None}]
    BY <1>1, <1>3 DEF Begin, RequestTypes
  <2> QED BY <1>1, <1>3, <2>1, <2>2 DEF Begin, StoreTypes, RequestTypes, ClientTypes, clientVars
<1>4. ASSUME NEW c \in Clients, NewRun(c)
      PROVE  StoreTypes' /\ RequestTypes' /\ ClientTypes'
  <2>1. /\ pc' \in [Clients -> {"idle", "ended"} \union Waiting]
        /\ InBudget'
    BY <1>1, <1>4 DEF NewRun, Goto, RequestTypes, InBudget, Reading, requestVars
  <2>2. ClientTypes'
    BY <1>1, <1>4, ConstantTypes DEF NewRun, ClientTypes, Times
  <2> QED BY <1>1, <1>4, <2>1, <2>2 DEF NewRun, StoreTypes, RequestTypes, requestVars
<1>5. ASSUME NEW p \in Processes, Crash(p)
      PROVE  StoreTypes' /\ RequestTypes' /\ ClientTypes'
  <2>1. /\ inFlight' \in [Processes -> Clients \union {None}]
        /\ pc' \in [Clients -> {"idle", "ended"} \union Waiting]
        /\ at' \in [Clients -> Processes \union {None}]
        /\ state' \in [Clients -> SnapshotStates]
        /\ expected' \in [Clients -> SnapshotStates]
    BY <1>1, <1>5, ConstantTypes DEF Crash, RequestTypes
  <2>2. /\ fetched' \in [Clients -> FetchedPages]
        /\ hydrations' \in [Clients -> 0 .. MaxHydrations]
    BY <1>1, <1>5, ConstantTypes DEF Crash, RequestTypes
  <2>3. InBudget'
    BY <1>1, <1>5 DEF Crash, InBudget, Reading
  <2> QED BY <1>1, <1>5, <2>1, <2>2, <2>3 DEF Crash, StoreTypes, RequestTypes, ClientTypes, clientVars
<1>6. CASE Publish \/ Age \/ UNCHANGED vars
  <2>1. StoreTypes'
    <3>1. published < MaxComments => published + 1 \in Times
      BY <1>1, ConstantTypes DEF StoreTypes, Times
    <3> QED BY <1>1, <1>6, <3>1 DEF Publish, Age, vars, StoreTypes
  <2>2. RequestTypes' /\ ClientTypes'
    BY <1>1, <1>6 DEF Publish, Age, vars, RequestTypes, ClientTypes, InBudget, requestVars, clientVars
  <2> QED BY <2>1, <2>2
<1> QED BY <1>2, <1>3, <1>4, <1>5, <1>6 DEF Next

\* The initial values have their types.
LEMMA InitTypes == Init => Typed
<1> SUFFICES ASSUME Init PROVE StoreTypes /\ RequestTypes /\ ClientTypes
  BY TypedParts
<1>1. 0 \in Times /\ 0 \in 0 .. MaxHydrations
  BY ConstantTypes DEF Times
<1>2. StoreTypes /\ ClientTypes
  BY <1>1, ConstantTypes DEF Init, StoreTypes, ClientTypes
<1>3. RequestTypes
  BY <1>1, ConstantTypes DEF Init, RequestTypes, InBudget, Reading
<1> QED BY <1>2, <1>3

\* The read path keeps its types, and no request reads more pages than its
\* budget (MAX_HYDRATIONS_PER_REQUEST).
THEOREM TypeCorrectness == Spec => []TypeOK
<1>1. Typed => TypeOK
  BY DEF Typed
<1> QED BY <1>1, InitTypes, NextTypes, PTL DEF Spec

-----------------------------------------------------------------------------
(***************************************************************************)
(* Single flight                                                           *)
(***************************************************************************)
\* A request at work is on a process.
Placed == \A c \in Clients : pc[c] \in Waiting => at[c] \in Processes

FlightInv == Typed /\ Placed /\ SingleFlight

\* What a request is to the map of hydrations: it runs one, waits for one, or
\* neither.
Role(l) == IF l \in Hydrating THEN "runs" ELSE IF l = "join" THEN "joins" ELSE "none"

\* A step that leaves the roles, the places and the map alone preserves it.
LEMMA SameRoles ==
    ASSUME FlightInv, UNCHANGED inFlight,
           \A c \in Clients :
             /\ Role(pc'[c]) = Role(pc[c])
             /\ Role(pc[c]) # "none" => at'[c] = at[c]
             /\ pc'[c] \in Waiting => at'[c] \in Processes
    PROVE  Placed' /\ SingleFlight'
<1>1. \A c \in Clients : /\ pc'[c] \in Hydrating <=> pc[c] \in Hydrating
                         /\ pc'[c] = "join" <=> pc[c] = "join"
  BY DEF Role, Hydrating
<1>2. \A c \in Clients : pc[c] \in Hydrating \/ pc[c] = "join" => at'[c] = at[c]
  BY DEF Role
<1>3. \A p \in Processes : inFlight[p] \in Clients \union {None}
  BY DEF FlightInv, Typed, TypeOK
<1>4. None \notin Clients
  BY NoneAssumption
<1> QED BY <1>1, <1>2, <1>3, <1>4 DEF FlightInv, Placed, SingleFlight

\* A hydration that ends, however it does, releases its process and wakes those
\* who waited for it.
LEMMA HydrationEnds ==
    ASSUME FlightInv, NEW c \in Clients, pc[c] \in Hydrating,
           inFlight' = [inFlight EXCEPT ![at[c]] = None],
           \A d \in Clients :
             /\ pc'[d] = IF d = c THEN pc'[c]
                         ELSE IF d \in Joiners(c) THEN "page" ELSE pc[d]
             /\ d # c => at'[d] = at[d],
           pc'[c] \in {"idle", "page"},
           pc'[c] = "page" => at'[c] = at[c]
    PROVE  Placed' /\ SingleFlight'
<1>1. /\ \A d \in Clients : pc[d] \in Hydrating => inFlight[at[d]] = d
      /\ \A p \in Processes :
           inFlight[p] # None => pc[inFlight[p]] \in Hydrating /\ at[inFlight[p]] = p
      /\ \A d \in Clients : pc[d] = "join" => inFlight[at[d]] # None
      /\ \A d \in Clients : pc[d] \in Waiting => at[d] \in Processes
      /\ inFlight \in [Processes -> Clients \union {None}]
  BY DEF FlightInv, SingleFlight, Placed, Typed, TypeOK
<1>2. /\ pc'[c] \notin Hydrating /\ pc'[c] # "join"
      /\ "page" \notin Hydrating /\ "page" # "join"
      /\ "join" \in Waiting /\ "page" \in Waiting /\ "idle" \notin Waiting
      /\ Hydrating \subseteq Waiting
  BY DEF Hydrating, Waiting
<1>3. at[c] \in Processes /\ inFlight[at[c]] = c
  BY <1>1, <1>2
<1>4. \A p \in Processes : inFlight'[p] = IF p = at[c] THEN None ELSE inFlight[p]
  BY <1>1
<1>5. \A d \in Clients : pc'[d] \in Hydrating => pc[d] = pc'[d] /\ d # c /\ at'[d] = at[d]
  BY <1>2
<1>6. \A d \in Clients : pc'[d] = "join" => /\ pc[d] = "join" /\ d # c /\ at'[d] = at[d]
                                            /\ at[d] # at[c]
  BY <1>2 DEF Joiners
<1>7. Placed'
  <2> SUFFICES ASSUME NEW d \in Clients, pc'[d] \in Waiting PROVE at'[d] \in Processes
    BY DEF Placed
  <2>1. CASE d = c
    BY <1>2, <1>3, <2>1
  <2>2. CASE d # c
    <3>1. pc[d] \in Waiting /\ at'[d] = at[d]
      BY <1>2, <2>2 DEF Joiners
    <3> QED BY <1>1, <3>1
  <2> QED BY <2>1, <2>2
<1>8. \A d \in Clients : pc'[d] \in Hydrating => inFlight'[at'[d]] = d
  BY <1>1, <1>2, <1>3, <1>4, <1>5
<1>9. \A d \in Clients : pc'[d] = "join" => inFlight'[at'[d]] # None
  BY <1>1, <1>2, <1>4, <1>6
<1>10. ASSUME NEW p \in Processes, inFlight'[p] # None
       PROVE  pc'[inFlight'[p]] \in Hydrating /\ at'[inFlight'[p]] = p
  <2>1. p # at[c] /\ inFlight'[p] = inFlight[p]
    BY <1>4, <1>10
  <2>2. PICK d \in Clients : inFlight[p] = d /\ pc[d] \in Hydrating /\ at[d] = p
    BY <1>1, <1>10, <2>1
  <2>3. d # c /\ d \notin Joiners(c)
    BY <1>2, <2>1, <2>2 DEF Joiners
  <2> QED BY <2>1, <2>2, <2>3
<1> QED BY <1>7, <1>8, <1>9, <1>10 DEF SingleFlight

\* The two ways in which the code ends a hydration.
LEMMA SettleOrReject ==
    ASSUME FlightInv, NEW c \in Clients, pc[c] \in Hydrating
    PROVE  /\ \A s : Settle(c, s) => Placed' /\ SingleFlight'
           /\ Reject(c) => Placed' /\ SingleFlight'
<1>1. pc[c] \notin {"join", "idle", "page"} /\ c \notin Joiners(c)
  BY DEF Hydrating, Joiners
<1>2. at \in [Clients -> Processes \union {None}] /\ pc \in [Clients -> {"idle", "ended"} \union Waiting]
  BY DEF FlightInv, Typed, TypeOK
<1>3. ASSUME NEW s, Settle(c, s)
      PROVE  Placed' /\ SingleFlight'
  <2>1. \A d \in Clients :
             /\ pc'[d] = IF d \in {c} \union Joiners(c) THEN "page" ELSE pc[d]
             /\ at'[d] = at[d]
    BY <1>3 DEF Settle
  <2> QED BY <1>1, <1>3, <2>1, HydrationEnds DEF Settle
<1>4. ASSUME Reject(c)
      PROVE  Placed' /\ SingleFlight'
  <2>1. \A d \in Clients :
             /\ pc'[d] = IF d = c THEN "idle" ELSE IF d \in Joiners(c) THEN "page" ELSE pc[d]
             /\ d # c => at'[d] = at[d]
    BY <1>2, <1>4 DEF Reject, Forget
  <2> QED BY <1>1, <1>4, <2>1, HydrationEnds DEF Reject
<1> QED BY <1>3, <1>4

\* A step of one request that goes on in its role.
LEMMA GoesOn ==
    ASSUME FlightInv, UNCHANGED inFlight, NEW c \in Clients, NEW l, Goto(c, l),
           Role(l) = Role(pc[c]),
           \A d \in Clients \ {c} : at'[d] = at[d],
           at'[c] = at[c] \/ (Role(l) = "none" /\ l \notin Waiting),
           l \in Waiting => pc[c] \in Waiting
    PROVE  Placed' /\ SingleFlight'
<1>1. \A d \in Clients : pc'[d] = IF d = c THEN l ELSE pc[d]
  BY DEF FlightInv, Typed, TypeOK, Goto
<1>2. \A d \in Clients : pc[d] \in Waiting => at[d] \in Processes
  BY DEF FlightInv, Placed
<1>3. \A d \in Clients : pc'[d] \in Waiting => at'[d] \in Processes
  BY <1>1, <1>2
<1>4. \A d \in Clients : /\ Role(pc'[d]) = Role(pc[d])
                         /\ Role(pc[d]) # "none" => at'[d] = at[d]
  BY <1>1
<1> QED BY <1>3, <1>4, SameRoles

\* A step of a waiting request that moves nobody between the roles.
LEMMA StaysOn ==
    ASSUME FlightInv, NEW c \in Clients, pc[c] \in Waiting, UNCHANGED <<inFlight, at>>
    PROVE  \A l : Goto(c, l) /\ Role(l) = Role(pc[c]) => Placed' /\ SingleFlight'
<1> SUFFICES ASSUME NEW l, Goto(c, l), Role(l) = Role(pc[c]) PROVE Placed' /\ SingleFlight'
  OBVIOUS
<1>1. /\ UNCHANGED inFlight /\ at'[c] = at[c] /\ \A d \in Clients \ {c} : at'[d] = at[d]
      /\ l \in Waiting => pc[c] \in Waiting
  OBVIOUS
<1> QED BY <1>1, GoesOn

\* The roles of the program counters.
LEMMA Roles ==
    /\ \A l \in Hydrating : Role(l) = "runs" /\ l \in Waiting
    /\ \A l \in {"find", "list", "page"} : Role(l) = "none" /\ l \in Waiting
    /\ \A l \in {"idle", "ended"} : Role(l) = "none" /\ l \notin Waiting
    /\ {"run", "fetch", "restart", "upsert", "save", "reread"} \subseteq Hydrating
BY DEF Role, Hydrating, Waiting

\* Every step keeps hydration single-flight.
LEMMA NextFlight == FlightInv /\ [Next]_vars => FlightInv'
<1> SUFFICES ASSUME FlightInv, [Next]_vars PROVE Placed' /\ SingleFlight'
  BY NextTypes DEF FlightInv
<1>1. /\ TypeOK /\ Placed /\ SingleFlight
      /\ pc \in [Clients -> {"idle", "ended"} \union Waiting]
      /\ at \in [Clients -> Processes \union {None}]
      /\ inFlight \in [Processes -> Clients \union {None}]
  BY DEF FlightInv, Typed, TypeOK
<1>2. ASSUME NEW c \in Clients, Refuse(c), Role(pc[c]) = "none"
      PROVE  Placed' /\ SingleFlight'
  <2>1. /\ Goto(c, "idle") /\ UNCHANGED inFlight
        /\ \A d \in Clients \ {c} : at'[d] = at[d]
    BY <1>1, <1>2 DEF Refuse, Forget
  <2>2. Role("idle") = "none" /\ "idle" \notin Waiting
    BY DEF Role, Hydrating, Waiting
  <2> QED BY <1>2, <2>1, <2>2, GoesOn
<1>3. ASSUME NEW c \in Clients, NEW s, Answer(c, s), Role(pc[c]) = "none"
      PROVE  Placed' /\ SingleFlight'
  <2>1. /\ UNCHANGED inFlight
        /\ \E l \in {"idle", "ended"} : Goto(c, l)
        /\ \A d \in Clients \ {c} : at'[d] = at[d]
    BY <1>1, <1>3 DEF Answer, Forget
  <2>2. \A l \in {"idle", "ended"} : Role(l) = "none" /\ l \notin Waiting
    BY DEF Role, Hydrating, Waiting
  <2> QED BY <1>3, <2>1, <2>2, GoesOn
<1>4. ASSUME NEW c \in Clients, Step(c)
      PROVE  Placed' /\ SingleFlight'
  <2>1. CASE Fetch(c) \/ Restart(c) \/ CursorRejected(c)
    <3>1. /\ UNCHANGED <<inFlight, at>> /\ pc[c] \in {"fetch", "restart"}
          /\ \E l \in {"upsert", "restart"} : Goto(c, l)
      BY <2>1 DEF Fetch, Restart, CursorRejected, Deliver, requestVars
    <3> QED BY <3>1, Roles, StaysOn
  <2>2. CASE FetchFails(c)
    BY <2>2, SettleOrReject DEF FetchFails, Hydrating
  <2>3. CASE JoinTimesOut(c)
    <3>1. \A d \in Clients : pc'[d] = IF d = c THEN "page" ELSE pc[d]
      BY <1>1, <2>3 DEF JoinTimesOut, Goto
    <3>2. UNCHANGED <<inFlight, at>> /\ pc[c] = "join"
      BY <2>3 DEF JoinTimesOut, requestVars
    <3> QED BY <1>1, <3>1, <3>2 DEF Placed, SingleFlight, Hydrating, Waiting
  <2>4. ASSUME NEW out \in Database, FindPost(c, out)
        PROVE  Placed' /\ SingleFlight'
    <3>1. Role(pc[c]) = "none" /\ Role("list") = "none" /\ pc[c] \in Waiting
      BY <2>4, Roles DEF FindPost
    <3>2. Refuse(c) \/ (Goto(c, "list") /\ UNCHANGED <<inFlight, at>>)
      BY <2>4 DEF FindPost
    <3> QED BY <1>2, <3>1, <3>2, StaysOn
  <2>5. ASSUME NEW out \in Database, ListPage(c, out)
        PROVE  Placed' /\ SingleFlight'
    <3>1. pc[c] = "list" /\ Role(pc[c]) = "none" /\ pc[c] \in Waiting
      BY <2>5 DEF ListPage, Role, Hydrating, Waiting
    <3>2. at[c] \in Processes
      BY <1>1, <3>1 DEF Placed
    <3>3. CASE Refuse(c) \/ Answer(c, state[c])
      BY <1>2, <1>3, <3>1, <3>3
    <3>4. CASE /\ InFlight(c) /\ Goto(c, "join") /\ UNCHANGED inFlight
               /\ UNCHANGED requestVars
      <4>1. \A d \in Clients : pc'[d] = IF d = c THEN "join" ELSE pc[d]
        BY <1>1, <3>4 DEF Goto
      <4> QED BY <1>1, <3>1, <3>2, <3>4, <4>1
              DEF Placed, SingleFlight, Hydrating, Waiting, InFlight, requestVars
    <3>5. CASE /\ ~InFlight(c)
               /\ inFlight' = [inFlight EXCEPT ![at[c]] = c]
               /\ Goto(c, "run")
               /\ UNCHANGED requestVars
      <4>1. \A d \in Clients : pc'[d] = IF d = c THEN "run" ELSE pc[d]
        BY <1>1, <3>5 DEF Goto
      <4>2. /\ \A p \in Processes : inFlight'[p] = IF p = at[c] THEN c ELSE inFlight[p]
            /\ inFlight[at[c]] = None /\ UNCHANGED at /\ c # None
        BY <1>1, <3>5, NoneAssumption DEF InFlight, requestVars
      <4>3. Placed'
        BY <1>1, <3>1, <4>1, <4>2 DEF Placed
      <4>4. \A d \in Clients : pc[d] \in Hydrating \union {"join"} => at[d] # at[c]
        BY <1>1, <4>2, NoneAssumption DEF SingleFlight
      <4>5. "run" \in Hydrating /\ "run" # "join" /\ pc[c] \notin Hydrating
        BY <3>1 DEF Hydrating
      <4>6. \A d \in Clients : pc[d] \in Hydrating \union {"join"} => at[d] \in Processes
        BY <1>1 DEF Placed, Waiting
      <4>7. \A p \in Processes : inFlight[p] # None => inFlight[p] \in Clients /\ inFlight[p] # c
        BY <1>1, <4>5 DEF SingleFlight
      <4> QED BY <1>1, <3>2, <4>1, <4>2, <4>3, <4>4, <4>5, <4>6, <4>7 DEF SingleFlight
    <3> QED BY <2>5, <3>3, <3>4, <3>5 DEF ListPage
  <2>6. ASSUME NEW out \in Database, Run(c, out)
        PROVE  Placed' /\ SingleFlight'
    <3>1. pc[c] \in Hydrating /\ pc[c] \in Waiting /\ Role("fetch") = Role(pc[c])
      BY <2>6, Roles DEF Run
    <3>2. \/ Reject(c) \/ Settle(c, state[c])
          \/ Goto(c, "fetch") /\ UNCHANGED <<inFlight, at>>
      BY <2>6 DEF Run, requestVars
    <3> QED BY <3>1, <3>2, SettleOrReject, StaysOn
  <2>7. ASSUME NEW out \in Database, Upsert(c, out)
        PROVE  Placed' /\ SingleFlight'
    <3>1. pc[c] \in Hydrating /\ pc[c] \in Waiting /\ Role("save") = Role(pc[c])
      BY <2>7, Roles DEF Upsert
    <3>2. Reject(c) \/ (Goto(c, "save") /\ UNCHANGED <<inFlight, at>>)
      BY <2>7 DEF Upsert
    <3> QED BY <3>1, <3>2, SettleOrReject, StaysOn
  <2>8. ASSUME NEW out \in Database, Save(c, out)
        PROVE  Placed' /\ SingleFlight'
    <3>1. pc[c] \in Hydrating /\ pc[c] \in Waiting
          /\ \A l \in {"run", "reread"} : Role(l) = Role(pc[c])
      BY <2>8, Roles DEF Save
    <3>2. Reject(c) \/ ((\E l \in {"run", "reread"} : Goto(c, l)) /\ UNCHANGED <<inFlight, at>>)
      BY <2>8 DEF Save
    <3> QED BY <3>1, <3>2, SettleOrReject, StaysOn
  <2>9. ASSUME NEW out \in Database, Reread(c, out)
        PROVE  Placed' /\ SingleFlight'
    BY <2>9, SettleOrReject DEF Reread, Hydrating
  <2>10. ASSUME NEW out \in Database, ReadPage(c, out)
         PROVE  Placed' /\ SingleFlight'
    <3>1. Role(pc[c]) = "none"
      BY <2>10 DEF ReadPage, Role, Hydrating
    <3> QED BY <1>2, <1>3, <2>10, <3>1 DEF ReadPage
  <2> QED BY <1>4, <2>1, <2>2, <2>3, <2>4, <2>5, <2>6, <2>7, <2>8, <2>9, <2>10 DEF Step
<1>5. ASSUME NEW c \in Clients, NEW p \in Processes, Begin(c, p)
      PROVE  Placed' /\ SingleFlight'
  <2>1. \A d \in Clients : /\ pc'[d] = IF d = c THEN "find" ELSE pc[d]
                           /\ at'[d] = IF d = c THEN p ELSE at[d]
    BY <1>1, <1>5 DEF Begin, Goto
  <2>2. Role("find") = "none" /\ Role(pc[c]) = "none" /\ UNCHANGED inFlight
    BY <1>5 DEF Begin, Role, Hydrating
  <2> QED BY <1>1, <2>1, <2>2, SameRoles DEF Placed
<1>6. ASSUME NEW c \in Clients, NewRun(c)
      PROVE  Placed' /\ SingleFlight'
  <2>1. /\ Goto(c, "idle") /\ UNCHANGED <<inFlight, at>>
        /\ Role("idle") = Role(pc[c]) /\ "idle" \notin Waiting
    BY <1>6 DEF NewRun, requestVars, Role, Hydrating, Waiting
  <2> QED BY <2>1, GoesOn
<1>7. ASSUME NEW p \in Processes, Crash(p)
      PROVE  Placed' /\ SingleFlight'
  <2> DEFINE lost == {c \in Clients : at[c] = p /\ pc[c] \in Waiting}
  <2>1. /\ \A c \in Clients : pc'[c] = IF c \in lost THEN "idle" ELSE pc[c]
        /\ \A c \in Clients : at'[c] = IF c \in lost THEN None ELSE at[c]
        /\ \A q \in Processes : inFlight'[q] = IF q = p THEN None ELSE inFlight[q]
    BY <1>1, <1>7 DEF Crash
  <2>2. "idle" \notin Waiting /\ Hydrating \subseteq Waiting /\ "join" \in Waiting
    BY DEF Hydrating, Waiting
  <2>3. \A c \in Clients : pc'[c] \in Waiting =>
             pc'[c] = pc[c] /\ at'[c] = at[c] /\ at[c] \in Processes /\ at[c] # p
    BY <1>1, <2>1, <2>2 DEF Placed
  <2>4. \A q \in Processes : inFlight[q] # None /\ q # p =>
             inFlight[q] \in Clients /\ inFlight[q] \notin lost
    BY <1>1 DEF SingleFlight
  <2> QED BY <1>1, <2>1, <2>2, <2>3, <2>4 DEF Placed, SingleFlight
<1>8. CASE Publish \/ Age \/ UNCHANGED vars
  <2>1. UNCHANGED <<pc, at, inFlight>>
    BY <1>8 DEF Publish, Age, vars, requestVars
  <2> QED BY <1>1, <2>1 DEF Placed, SingleFlight
<1> QED BY <1>4, <1>5, <1>6, <1>7, <1>8 DEF Next

\* A process reads a post from the platform once at a time, and nobody waits
\* for a hydration that is over (the map inFlight of CommentService).
THEOREM OneHydrationPerProcess == Spec => []SingleFlight
<1>1. Init => FlightInv
  <2>1. Init => Placed /\ SingleFlight
    BY DEF Init, Placed, SingleFlight, Waiting, Hydrating
  <2> QED BY <2>1, InitTypes DEF FlightInv
<1>2. FlightInv => SingleFlight
  BY DEF FlightInv
<1> QED BY <1>1, <1>2, NextFlight, PTL DEF Spec
=============================================================================
