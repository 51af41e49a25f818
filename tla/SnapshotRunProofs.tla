------------------------- MODULE SnapshotRunProofs -------------------------
(***************************************************************************)
(* A run that ends with syncedAt is complete as long as snapshots do not   *)
(* go stale; and reading implements its contract, stale or not.  Proofs    *)
(* for any number of clients, replicas and comments, and every fault.      *)
(*                                                                         *)
(* The argument: an exhausted snapshot is never written again, so a run    *)
(* that began over one is read from a table that holds all the snapshot    *)
(* stands for; every page of it leaves no gap before its cursor.           *)
(***************************************************************************)
EXTENDS SnapshotCoverageProofs

-----------------------------------------------------------------------------
\* A request that believes the snapshot exhausted is right, and one that
\* hydrates works from what it believes the row holds.
LatestOf(c) ==
    /\ state[c].exhausted => state[c] = snapshot
    /\ pc[c] \in Trusting => state[c] = expected[c]
    /\ pc[c] \in Reading => ~state[c].exhausted

\* A run that began over an exhausted snapshot has received all of it, up to
\* its cursor.
SoFar(c) ==
    pc[c] # "ended" /\ after[c] # 0 /\ ~partialRun[c] =>
      /\ snapshot.exhausted
      /\ \A i \in 1 .. snapshot.began : i <= after[c] => i \in got[c]

Complete(c) == pc[c] = "ended" /\ syncedAt[c] # None => 1 .. vouched[c] \subseteq got[c]

RunInv ==
    /\ CoverInv
    /\ ~aged
    /\ \A c \in Clients : LatestOf(c) /\ SoFar(c) /\ Complete(c)

-----------------------------------------------------------------------------
\* What is older than a comment of a page served, and comes after the page's
\* cursor, is on the page.
LEMMA OldestIsDownwardClosed ==
    ASSUME NEW k \in Nat, NEW n \in Nat, NEW S, S \subseteq 1 .. n,
           NEW i \in Oldest(k, S), NEW j \in S, j <= i
    PROVE  j \in Oldest(k, S)
<1> DEFINE Below(x) == {y \in S : y < x}
<1>1. IsFiniteSet(S)
  <2>1. IsFiniteSet(1 .. n)
    BY FS_Interval
  <2>2. S \in SUBSET (1 .. n)
    OBVIOUS
  <2> QED BY <2>1, <2>2, FS_Subset
<1>2. i \in S /\ Cardinality(Below(i)) < k
  BY DEF Oldest
<1>3. \A x \in S : IsFiniteSet(Below(x)) /\ Cardinality(Below(x)) \in Nat
  <2> TAKE x \in S
  <2>1. Below(x) \in SUBSET S
    OBVIOUS
  <2> QED BY <2>1, <1>1, FS_Subset, FS_CardinalityType
<1>4. \A x \in S : x < j => x < i
  BY <1>2
<1>5. Below(j) \in SUBSET Below(i)
  BY <1>4, Zenon
<1>6. Cardinality(Below(j)) <= Cardinality(Below(i))
  BY <1>2, <1>3, <1>5, FS_Subset, Zenon
<1>7. Cardinality(Below(j)) < k
  BY <1>2, <1>3, <1>6
<1> QED BY <1>7 DEF Oldest

\* A page served leaves no gap between the cursor before it and the one after.
LEMMA PageLeavesNoGap ==
    ASSUME TypeOK, NEW a \in Times, Page(a) # {}
    PROVE  /\ Max(Page(a)) \in Nat
           /\ \A i \in stored : i > a /\ i <= Max(Page(a)) => i \in Page(a)
<1> DEFINE S == {i \in stored : i > a}
<1>1. S \subseteq 1 .. MaxComments /\ Page(a) = Oldest(Limit, S)
  BY DEF TypeOK, Comments, Page
<1>2. Page(a) \subseteq 0 .. MaxComments
  BY <1>1, ConstantTypes DEF Oldest
<1>3. Max(Page(a)) \in Page(a)
  BY <1>2, ConstantTypes, MaxIsGreatest
<1>4. ASSUME NEW i \in stored, i > a, i <= Max(Page(a))
      PROVE  i \in Page(a)
  <2>1. i \in S
    BY <1>4
  <2> HIDE DEF S
  <2> QED BY <1>1, <1>3, <1>4, <2>1, ConstantTypes, OldestIsDownwardClosed
<1>5. Max(Page(a)) \in Nat
  BY <1>2, <1>3
<1> QED BY <1>4, <1>5

-----------------------------------------------------------------------------
\* An exhausted snapshot is not written again.
Stays == snapshot.exhausted => snapshot' = snapshot

\* A run goes on, or has ended, over a snapshot that stays.
LEMMA RunKept ==
    ASSUME RunInv, Stays, UNCHANGED clientVars, NEW d \in Clients,
           pc'[d] = "ended" <=> pc[d] = "ended"
    PROVE  SoFar(d)' /\ Complete(d)'
<1>1. SoFar(d) /\ Complete(d)
  BY DEF RunInv
<1>2. UNCHANGED <<after, partialRun, got, vouched, syncedAt>>
  BY DEF clientVars
<1>3. SoFar(d)'
  BY <1>1, <1>2 DEF SoFar, Stays
<1>4. Complete(d)'
  BY <1>1, <1>2 DEF Complete
<1> QED BY <1>3, <1>4

\* A request that the step does not touch.
LEMMA LatestKept ==
    ASSUME RunInv, Stays, NEW d \in Clients,
           pc'[d] = pc[d], state'[d] = state[d], expected'[d] = expected[d]
    PROVE  LatestOf(d)'
BY DEF RunInv, LatestOf, Stays

\* A request that no longer hydrates.
LEMMA LatestLetsGo ==
    ASSUME NEW d \in Clients, pc'[d] \notin Trusting,
           state'[d].exhausted => state'[d] = snapshot'
    PROVE  LatestOf(d)'
BY DEF LatestOf, Trusting

\* The page that ends a request leaves no gap in its run, and ends the run only
\* when it was the last.
LEMMA AnswerKeepsRun ==
    ASSUME RunInv, NEW c \in Clients, Answer(c, state[c]), pc[c] \in {"list", "page"},
           UNCHANGED <<published, stored, snapshot, aged>>
    PROVE  \A d \in Clients : SoFar(d)' /\ Complete(d)'
<1> DEFINE s == state[c]
           a == after[c]
           items == Page(a)
<1>1. /\ TypeOK /\ LatestOf(c) /\ SoFar(c)
      /\ snapshot \in SnapshotStates /\ a \in Times
      /\ stored \subseteq Comments
      /\ snapshot.exhausted => 1 .. snapshot.began \subseteq stored
  BY DEF RunInv, CoverInv, Typed, TypeOK, RowSound, SoundAt, Covered
<1>2. /\ pc' = [pc EXCEPT ![c] = IF PageHasMore(a) \/ ~s.exhausted THEN "idle" ELSE "ended"]
      /\ after' = [after EXCEPT ![c] = IF items = {} THEN a ELSE Max(items)]
      /\ partialRun' = [partialRun EXCEPT ![c] = PartialRun(c, s)]
      /\ got' = [got EXCEPT ![c] = got[c] \union items]
      /\ vouched' = [vouched EXCEPT ![c] = s.began]
      /\ syncedAt' = [syncedAt EXCEPT ![c] = IF PartialRun(c, s) THEN None ELSE s.completedAt]
  BY DEF Answer, Goto
<1>3. /\ pc'[c] = IF PageHasMore(a) \/ ~s.exhausted THEN "idle" ELSE "ended"
      /\ after'[c] = IF items = {} THEN a ELSE Max(items)
      /\ partialRun'[c] = PartialRun(c, s)
      /\ got'[c] = got[c] \union items
      /\ vouched'[c] = s.began
      /\ syncedAt'[c] = IF PartialRun(c, s) THEN None ELSE s.completedAt
  BY <1>1, <1>2 DEF TypeOK
<1>4. s.exhausted => s = snapshot
  BY <1>1 DEF LatestOf
<1>5. ASSUME ~PartialRun(c, s)
      PROVE  /\ snapshot.exhausted
             /\ \A i \in 1 .. snapshot.began : i <= a => i \in got[c]
  <2>1. CASE a = 0
    <3>1. snapshot.exhausted
      BY <1>4, <1>5, <2>1 DEF PartialRun, StartingRun
    <3> QED BY <2>1, <3>1
  <2>2. CASE a # 0
    BY <1>1, <1>5, <2>2 DEF PartialRun, StartingRun, SoFar
  <2> QED BY <2>1, <2>2
<1>6. /\ items # {} => Max(items) \in Nat
      /\ items # {} => \A i \in stored : i > a /\ i <= Max(items) => i \in items
  BY <1>1, PageLeavesNoGap
<1>7. ~PageHasMore(a) => \A i \in stored : i > a => i \in items
  BY DEF PageHasMore
<1> HIDE DEF s, a, items
<1>8. SoFar(c)'
  <2> SUFFICES ASSUME pc'[c] # "ended", after'[c] # 0, ~partialRun'[c]
               PROVE  /\ snapshot.exhausted
                      /\ \A i \in 1 .. snapshot.began : i <= after'[c] => i \in got'[c]
    BY DEF SoFar
  <2>1. /\ snapshot.exhausted
        /\ \A i \in 1 .. snapshot.began : i <= a => i \in got[c]
    BY <1>3, <1>5
  <2> SUFFICES ASSUME NEW i \in 1 .. snapshot.began, i <= after'[c], ~(i <= a) PROVE i \in items
    BY <1>3, <2>1
  <2>2. items # {} /\ after'[c] = Max(items)
    BY <1>3
  <2>3. i \in stored /\ i > a /\ i <= Max(items)
    BY <1>1, <2>1, <2>2, ConstantTypes DEF Times
  <2> QED BY <1>6, <2>2, <2>3
<1>9. Complete(c)'
  <2> SUFFICES ASSUME pc'[c] = "ended", syncedAt'[c] # None
               PROVE  1 .. vouched'[c] \subseteq got'[c]
    BY DEF Complete
  <2>1. ~PartialRun(c, s) /\ s = snapshot /\ ~PageHasMore(a) /\ vouched'[c] = snapshot.began
    BY <1>3, <1>4
  <2>2. /\ snapshot.exhausted
        /\ \A i \in 1 .. snapshot.began : i <= a => i \in got[c]
    BY <1>5, <2>1
  <2> SUFFICES ASSUME NEW i \in 1 .. snapshot.began, ~(i <= a) PROVE i \in items
    BY <1>3, <2>1, <2>2
  <2>3. i \in stored /\ i > a
    BY <1>1, <2>2, ConstantTypes DEF Times
  <2> QED BY <1>7, <2>1, <2>3
<1>10. ASSUME NEW d \in Clients, d # c
       PROVE  SoFar(d)' /\ Complete(d)'
  <2>1. /\ pc'[d] = pc[d] /\ after'[d] = after[d] /\ partialRun'[d] = partialRun[d]
        /\ got'[d] = got[d] /\ vouched'[d] = vouched[d] /\ syncedAt'[d] = syncedAt[d]
    BY <1>1, <1>2, <1>10 DEF TypeOK
  <2>2. SoFar(d) /\ Complete(d)
    BY DEF RunInv
  <2> QED BY <2>1, <2>2 DEF SoFar, Complete
<1> QED BY <1>8, <1>9, <1>10

-----------------------------------------------------------------------------
Others(c) ==
    \A d \in Clients \ {c} :
      pc'[d] = pc[d] /\ state'[d] = state[d] /\ expected'[d] = expected[d]

\* A step of one request that does not answer it.
LEMMA OneMoves ==
    ASSUME RunInv, Stays, UNCHANGED clientVars, NEW c \in Clients, Others(c), LatestOf(c)',
           pc[c] # "ended", pc'[c] # "ended"
    PROVE  \A d \in Clients : LatestOf(d)' /\ SoFar(d)' /\ Complete(d)'
<1> SUFFICES ASSUME NEW d \in Clients PROVE LatestOf(d)' /\ SoFar(d)' /\ Complete(d)'
  OBVIOUS
<1>1. LatestOf(d)'
  BY LatestKept DEF Others
<1>2. pc'[d] = "ended" <=> pc[d] = "ended"
  BY DEF Others
<1> QED BY <1>1, <1>2, RunKept

\* The ends of a hydration.
LEMMA HydrationKeepsRuns ==
    ASSUME RunInv, Stays, NEW c \in Clients, pc[c] \in Hydrating
    PROVE  /\ Reject(c) => \A d \in Clients : LatestOf(d)' /\ SoFar(d)' /\ Complete(d)'
           /\ \A s : Settle(c, s) /\ (s.exhausted => s = snapshot) =>
                \A d \in Clients : LatestOf(d)' /\ SoFar(d)' /\ Complete(d)'
<1>1. /\ pc \in [Clients -> {"idle", "ended"} \union Waiting]
      /\ state \in [Clients -> SnapshotStates]
      /\ expected \in [Clients -> SnapshotStates]
      /\ \A d \in Clients : state[d].exhausted => state[d] = snapshot
  BY DEF RunInv, CoverInv, Typed, TypeOK, LatestOf
<1>2. /\ "page" \notin Trusting /\ "idle" \notin Trusting /\ pc[c] # "ended"
      /\ ~Unread.exhausted
  BY DEF Trusting, Reading, Hydrating, Unread
<1>3. ASSUME Reject(c), NEW d \in Clients
      PROVE  LatestOf(d)' /\ SoFar(d)' /\ Complete(d)'
  <2>1. /\ pc'[d] = IF d = c THEN "idle" ELSE IF d \in Joiners(c) THEN "page" ELSE pc[d]
        /\ state'[d] = IF d = c THEN Unread ELSE state[d]
        /\ d # c => expected'[d] = expected[d]
        /\ UNCHANGED clientVars
    BY <1>1, <1>3 DEF Reject, Forget
  <2>2. pc'[d] = "ended" <=> pc[d] = "ended"
    BY <1>2, <2>1 DEF Joiners
  <2>3. LatestOf(d)'
    <3>1. CASE d = c
      BY <1>2, <2>1, <3>1, LatestLetsGo
    <3>2. CASE d # c /\ d \in Joiners(c)
      BY <1>1, <1>2, <2>1, <3>2, LatestLetsGo DEF Stays
    <3>3. CASE d # c /\ d \notin Joiners(c)
      BY <2>1, <3>3, LatestKept
    <3> QED BY <3>1, <3>2, <3>3
  <2> QED BY <2>1, <2>2, <2>3, RunKept
<1>4. ASSUME NEW s, Settle(c, s), s.exhausted => s = snapshot, NEW d \in Clients
      PROVE  LatestOf(d)' /\ SoFar(d)' /\ Complete(d)'
  <2>1. /\ pc'[d] = IF d \in {c} \union Joiners(c) THEN "page" ELSE pc[d]
        /\ state'[d] = IF d \in {c} \union Joiners(c) THEN s ELSE state[d]
        /\ expected'[d] = expected[d]
        /\ UNCHANGED clientVars
    BY <1>4 DEF Settle
  <2>2. pc'[d] = "ended" <=> pc[d] = "ended"
    BY <1>2, <2>1 DEF Joiners
  <2>3. LatestOf(d)'
    <3>1. CASE d \in {c} \union Joiners(c)
      BY <1>2, <1>4, <2>1, <3>1, LatestLetsGo DEF Stays
    <3>2. CASE d \notin {c} \union Joiners(c)
      BY <2>1, <3>2, LatestKept
    <3> QED BY <3>1, <3>2
  <2> QED BY <2>1, <2>2, <2>3, RunKept
<1> QED BY <1>3, <1>4

\* The answer and the refusal of a request.
LEMMA EndKeepsRuns ==
    ASSUME RunInv, UNCHANGED <<published, stored, snapshot, aged>>, NEW c \in Clients,
           pc[c] \in {"find", "list", "page"}
    PROVE  /\ Refuse(c) => \A d \in Clients : LatestOf(d)' /\ SoFar(d)' /\ Complete(d)'
           /\ Answer(c, state[c]) /\ pc[c] # "find" =>
                \A d \in Clients : LatestOf(d)' /\ SoFar(d)' /\ Complete(d)'
<1>1. /\ pc \in [Clients -> {"idle", "ended"} \union Waiting]
      /\ state \in [Clients -> SnapshotStates]
      /\ expected \in [Clients -> SnapshotStates]
  BY DEF RunInv, CoverInv, Typed, TypeOK
<1>2. ASSUME Forget(c), NEW l \in {"idle", "ended"}, Goto(c, l)
      PROVE  Others(c) /\ LatestOf(c)' /\ pc'[c] = l
  <2>1. Others(c) /\ pc'[c] = l /\ state'[c] = Unread
    BY <1>1, <1>2 DEF Others, Forget, Goto
  <2>2. pc'[c] \notin Trusting /\ ~Unread.exhausted
    BY <2>1 DEF Trusting, Reading, Unread
  <2> QED BY <2>1, <2>2, LatestLetsGo
<1>3. Stays
  BY DEF Stays
<1>4. ASSUME Refuse(c)
      PROVE  \A d \in Clients : LatestOf(d)' /\ SoFar(d)' /\ Complete(d)'
  <2>1. Others(c) /\ LatestOf(c)' /\ pc'[c] = "idle" /\ UNCHANGED clientVars
    BY <1>2, <1>4 DEF Refuse
  <2> QED BY <1>3, <2>1, OneMoves
<1>5. ASSUME Answer(c, state[c]), pc[c] # "find", NEW d \in Clients
      PROVE  LatestOf(d)' /\ SoFar(d)' /\ Complete(d)'
  <2>1. Others(c) /\ LatestOf(c)'
    BY <1>2, <1>5 DEF Answer
  <2>2. LatestOf(d)'
    BY <1>3, <2>1, LatestKept DEF Others
  <2> QED BY <1>5, <2>2, AnswerKeepsRun
<1> QED BY <1>4, <1>5

\* Only a hydration of an incomplete snapshot writes the row.
LEMMA SaveKeepsRuns ==
    ASSUME RunInv, NEW c \in Clients, NEW out \in Database, Save(c, out)
    PROVE  ~aged' /\ \A d \in Clients : LatestOf(d)' /\ SoFar(d)' /\ Complete(d)'
<1> DEFINE next == Following(NextState(fetched[c]), snapshot)
<1>1. /\ pc \in [Clients -> {"idle", "ended"} \union Waiting]
      /\ state \in [Clients -> SnapshotStates]
      /\ expected \in [Clients -> SnapshotStates]
      /\ LatestOf(c) /\ ~aged
  BY DEF RunInv, CoverInv, Typed, TypeOK
<1>2. /\ pc[c] = "save"
      /\ \/ Matches(c) /\ snapshot' = next /\ aged' = FALSE
         \/ UNCHANGED <<snapshot, aged>>
      /\ \/ Reject(c)
         \/ /\ Matches(c) /\ Goto(c, "run") /\ snapshot' = next
            /\ state' = [state EXCEPT ![c] = next]
            /\ expected' = [expected EXCEPT ![c] = next]
            /\ UNCHANGED clientVars
         \/ Goto(c, "reread") /\ UNCHANGED <<state, expected, clientVars>>
  BY DEF Save
<1> HIDE DEF next
<1>3. ~state[c].exhausted /\ state[c] = expected[c]
  BY <1>1, <1>2 DEF LatestOf, Trusting, Reading
<1>4. Stays
  BY <1>2, <1>3 DEF Stays, Matches
<1>5. CASE Reject(c)
  BY <1>1, <1>2, <1>4, <1>5, HydrationKeepsRuns DEF Hydrating
<1>6. CASE /\ Goto(c, "run") /\ snapshot' = next
           /\ state' = [state EXCEPT ![c] = next]
           /\ expected' = [expected EXCEPT ![c] = next]
           /\ UNCHANGED clientVars
  <2>1. /\ Others(c) /\ pc'[c] = "run"
        /\ state'[c] = snapshot' /\ expected'[c] = snapshot'
    BY <1>1, <1>6 DEF Others, Goto
  <2>2. LatestOf(c)'
    BY <2>1 DEF LatestOf, Reading
  <2> QED BY <1>1, <1>2, <1>4, <1>6, <2>1, <2>2, OneMoves
<1>7. CASE Goto(c, "reread") /\ UNCHANGED <<state, expected, clientVars>>
  <2>1. Others(c) /\ pc'[c] = "reread"
    BY <1>1, <1>7 DEF Others, Goto
  <2>2. LatestOf(c)'
    BY <1>1, <1>4, <1>7, <2>1, LatestLetsGo DEF LatestOf, Stays, Trusting, Reading
  <2> QED BY <1>1, <1>2, <1>4, <1>7, <2>1, <2>2, OneMoves
<1> QED BY <1>2, <1>5, <1>6, <1>7

\* Every other step of a request.
LEMMA StepKeepsRuns ==
    ASSUME RunInv, NEW c \in Clients, Step(c)
    PROVE  ~aged' /\ \A d \in Clients : LatestOf(d)' /\ SoFar(d)' /\ Complete(d)'
<1> DEFINE Goal == \A d \in Clients : LatestOf(d)' /\ SoFar(d)' /\ Complete(d)'
<1>1. /\ pc \in [Clients -> {"idle", "ended"} \union Waiting]
      /\ state \in [Clients -> SnapshotStates]
      /\ expected \in [Clients -> SnapshotStates]
      /\ LatestOf(c) /\ ~aged
      /\ \A d \in Clients : state[d].exhausted => state[d] = snapshot
  BY DEF RunInv, CoverInv, Typed, TypeOK, LatestOf
<1>2. UNCHANGED snapshot => Stays
  BY DEF Stays
<1>3. ASSUME NEW l \in Waiting, Goto(c, l), UNCHANGED <<snapshot, state, expected, clientVars>>,
             pc[c] # "ended",
             l \in Trusting => pc[c] \in Trusting,
             l \in Reading => ~state[c].exhausted
      PROVE  Goal
  <2>1. Others(c) /\ pc'[c] = l /\ l # "ended"
    BY <1>1, <1>3 DEF Others, Goto, Waiting, Hydrating
  <2>2. LatestOf(c)'
    BY <1>1, <1>3, <2>1 DEF LatestOf
  <2> QED BY <1>2, <1>3, <2>1, <2>2, OneMoves
<1>4. CASE Fetch(c) \/ CursorRejected(c) \/ Restart(c)
  <2>1. /\ pc[c] \in {"fetch", "restart"} /\ \E l \in {"upsert", "restart"} : Goto(c, l)
        /\ UNCHANGED <<snapshot, aged, state, expected, clientVars>>
    BY <1>4 DEF Fetch, CursorRejected, Restart, Deliver, requestVars
  <2> QED BY <1>1, <1>3, <2>1 DEF LatestOf, Trusting, Reading, Waiting, Hydrating
<1>5. CASE FetchFails(c)
  BY <1>1, <1>2, <1>5, HydrationKeepsRuns DEF FetchFails, Hydrating
<1>6. CASE JoinTimesOut(c)
  BY <1>1, <1>3, <1>6 DEF JoinTimesOut, requestVars, Trusting, Reading, Waiting
<1>7. ASSUME NEW out \in Database, FindPost(c, out)
      PROVE  ~aged' /\ Goal
  <2>1. UNCHANGED <<published, stored, snapshot, aged>> /\ pc[c] = "find"
    BY <1>7 DEF FindPost
  <2>2. CASE Refuse(c)
    BY <1>1, <2>1, <2>2, EndKeepsRuns
  <2>3. CASE ~Refuse(c)
    <3>1. /\ Goto(c, "list") /\ UNCHANGED clientVars
          /\ expected' = [expected EXCEPT ![c] = snapshot]
          /\ state' = [state EXCEPT ![c] = snapshot]
      BY <1>1, <1>7, <2>3 DEF FindPost
    <3>2. Others(c) /\ pc'[c] = "list" /\ state'[c] = snapshot /\ expected'[c] = snapshot
      BY <1>1, <3>1 DEF Others, Goto
    <3>3. LatestOf(c)'
      BY <2>1, <3>2 DEF LatestOf, Reading
    <3> QED BY <1>1, <1>2, <2>1, <3>1, <3>2, <3>3, OneMoves
  <2> QED BY <2>2, <2>3
<1>8. ASSUME NEW out \in Database, ListPage(c, out)
      PROVE  ~aged' /\ Goal
  <2>1. UNCHANGED <<published, stored, snapshot, aged>> /\ pc[c] = "list"
    BY <1>8 DEF ListPage
  <2>2. \/ Refuse(c) \/ Answer(c, state[c])
        \/ ((\E l \in {"join", "run"} : Goto(c, l)) /\ UNCHANGED <<requestVars, clientVars>>)
    BY <1>8 DEF ListPage
  <2>3. CASE Refuse(c) \/ Answer(c, state[c])
    BY <1>1, <2>1, <2>3, EndKeepsRuns
  <2>4. CASE (\E l \in {"join", "run"} : Goto(c, l)) /\ UNCHANGED <<requestVars, clientVars>>
    BY <1>1, <1>3, <2>1, <2>4 DEF requestVars, Trusting, Reading, Waiting, Hydrating
  <2> QED BY <2>2, <2>3, <2>4
<1>9. ASSUME NEW out \in Database, Run(c, out)
      PROVE  ~aged' /\ Goal
  <2>1. UNCHANGED <<snapshot, aged>> /\ pc[c] = "run"
    BY <1>9 DEF Run
  <2>2. \/ Reject(c) \/ Settle(c, state[c])
        \/ (Goto(c, "fetch") /\ ~state[c].exhausted /\ UNCHANGED <<requestVars, clientVars>>)
    BY <1>9 DEF Run, NeedsHydration
  <2>3. CASE Reject(c) \/ Settle(c, state[c])
    BY <1>1, <1>2, <2>1, <2>3, HydrationKeepsRuns DEF Hydrating
  <2>4. CASE Goto(c, "fetch") /\ ~state[c].exhausted /\ UNCHANGED <<requestVars, clientVars>>
    BY <1>1, <1>3, <2>1, <2>4 DEF requestVars, Trusting, Reading, Waiting, Hydrating
  <2> QED BY <2>2, <2>3, <2>4
<1>10. ASSUME NEW out \in Database, Upsert(c, out)
       PROVE  ~aged' /\ Goal
  <2>1. UNCHANGED <<snapshot, aged>> /\ pc[c] = "upsert"
    BY <1>10 DEF Upsert
  <2>2. Reject(c) \/ (Goto(c, "save") /\ UNCHANGED <<state, expected, clientVars>>)
    BY <1>10 DEF Upsert
  <2>3. CASE Reject(c)
    BY <1>1, <1>2, <2>1, <2>3, HydrationKeepsRuns DEF Hydrating
  <2>4. CASE Goto(c, "save") /\ UNCHANGED <<state, expected, clientVars>>
    BY <1>1, <1>3, <2>1, <2>4 DEF LatestOf, Trusting, Reading, Waiting, Hydrating
  <2> QED BY <2>2, <2>3, <2>4
<1>11. ASSUME NEW out \in Database, Reread(c, out)
       PROVE  ~aged' /\ Goal
  BY <1>1, <1>2, <1>11, HydrationKeepsRuns DEF Reread, Hydrating
<1>12. ASSUME NEW out \in Database, ReadPage(c, out)
       PROVE  ~aged' /\ Goal
  BY <1>1, <1>12, EndKeepsRuns DEF ReadPage
<1>13. CASE Fetch(c) \/ CursorRejected(c) \/ Restart(c) \/ FetchFails(c) \/ JoinTimesOut(c)
  BY <1>1, <1>4, <1>5, <1>6, <1>13
     DEF Fetch, CursorRejected, Restart, FetchFails, JoinTimesOut
<1> QED BY <1>7, <1>8, <1>9, <1>10, <1>11, <1>12, <1>13, SaveKeepsRuns DEF Step

\* Every step keeps the runs, where snapshots do not go stale.
LEMMA NextKeepsRuns ==
    ASSUME ~MayAge, RunInv, [Next]_vars
    PROVE  RunInv'
<1>1. CoverInv'
  BY NextSound DEF RunInv
<1>2. /\ pc \in [Clients -> {"idle", "ended"} \union Waiting]
      /\ state \in [Clients -> SnapshotStates]
      /\ \A d \in Clients : LatestOf(d) /\ SoFar(d) /\ Complete(d)
      /\ ~aged
  BY DEF RunInv, CoverInv, Typed, TypeOK
<1>3. UNCHANGED snapshot => Stays
  BY DEF Stays
<1>4. ASSUME NEW c \in Clients, Step(c)
      PROVE  RunInv'
  BY <1>1, <1>4, StepKeepsRuns DEF RunInv
<1>5. ASSUME NEW c \in Clients, NEW p \in Processes, Begin(c, p)
      PROVE  RunInv'
  <2>1. /\ Others(c) /\ pc[c] = "idle" /\ pc'[c] = "find"
        /\ UNCHANGED <<snapshot, aged, state, clientVars>>
    BY <1>2, <1>5 DEF Begin, Others, Goto
  <2>2. LatestOf(c)'
    BY <1>2, <2>1 DEF LatestOf, Trusting, Reading
  <2> QED BY <1>1, <1>2, <1>3, <2>1, <2>2, OneMoves DEF RunInv
<1>6. ASSUME NEW c \in Clients, NewRun(c)
      PROVE  RunInv'
  <2>1. /\ \A d \in Clients : pc'[d] = IF d = c THEN "idle" ELSE pc[d]
        /\ UNCHANGED <<snapshot, aged, state, expected>>
    BY <1>2, <1>6 DEF NewRun, requestVars, Goto
  <2>2. \A d \in Clients : LatestOf(d)'
    BY <1>2, <2>1 DEF LatestOf, Trusting, Reading
  <2>3. /\ \A d \in Clients \ {c} :
             /\ after'[d] = after[d] /\ partialRun'[d] = partialRun[d] /\ got'[d] = got[d]
             /\ vouched'[d] = vouched[d] /\ syncedAt'[d] = syncedAt[d]
        /\ after'[c] = 0
    BY <1>6 DEF NewRun, RunInv, CoverInv, Typed, TypeOK
  <2>4. \A d \in Clients : SoFar(d)' /\ Complete(d)'
    BY <1>2, <2>1, <2>3 DEF SoFar, Complete
  <2> QED BY <1>1, <1>2, <2>1, <2>2, <2>4 DEF RunInv
<1>7. ASSUME NEW p \in Processes, Crash(p)
      PROVE  RunInv'
  <2> DEFINE lost == {c \in Clients : at[c] = p /\ pc[c] \in Waiting}
  <2>1. UNCHANGED <<snapshot, aged, clientVars>>
    BY <1>7 DEF Crash
  <2>2. ASSUME NEW d \in Clients
        PROVE  LatestOf(d)' /\ SoFar(d)' /\ Complete(d)'
    <3>1. /\ pc'[d] = IF d \in lost THEN "idle" ELSE pc[d]
          /\ state'[d] = IF d \in lost THEN Unread ELSE state[d]
          /\ expected'[d] = IF d \in lost THEN Unread ELSE expected[d]
      BY <1>7 DEF Crash
    <3>2. d \in lost => pc[d] # "ended"
      BY DEF Waiting, Hydrating
    <3> HIDE DEF lost
    <3>3. LatestOf(d)'
      <4>1. "idle" \notin Trusting /\ ~Unread.exhausted
        BY DEF Trusting, Reading, Unread
      <4> QED BY <1>3, <2>1, <3>1, <4>1, LatestLetsGo, LatestKept
    <3> QED BY <1>3, <2>1, <3>1, <3>2, <3>3, RunKept
  <2> QED BY <1>1, <1>2, <2>1, <2>2 DEF RunInv
<1>8. CASE Publish \/ Age \/ UNCHANGED vars
  <2>1. UNCHANGED <<snapshot, aged, pc, state, expected, clientVars>>
    BY <1>8 DEF Publish, Age, vars, requestVars
  <2>2. ASSUME NEW d \in Clients
        PROVE  LatestOf(d)' /\ SoFar(d)' /\ Complete(d)'
    BY <1>3, <2>1, LatestKept, RunKept
  <2> QED BY <1>1, <1>2, <2>1, <2>2 DEF RunInv
<1> QED BY <1>4, <1>5, <1>6, <1>7, <1>8 DEF Next

\* No run has started.
LEMMA InitRuns == Init => RunInv
<1> SUFFICES ASSUME Init PROVE RunInv
  OBVIOUS
<1>1. ASSUME NEW c \in Clients
      PROVE  LatestOf(c) /\ SoFar(c) /\ Complete(c)
  BY DEF Init, LatestOf, SoFar, Complete, Trusting, Reading, Unread
<1> QED BY <1>1, InitSound DEF Init, RunInv

\* Where snapshots do not go stale, a run that ends with syncedAt has returned
\* every comment the snapshot it ended over stood for (listComments: the
\* partialRun of the cursor, hasMore, syncedAt).
THEOREM SyncedRunsAreComplete == ~MayAge => (Spec => []CompleteRunSawEverything)
<1> SUFFICES ASSUME ~MayAge PROVE Spec => []CompleteRunSawEverything
  OBVIOUS
<1>1. Init => RunInv
  BY InitRuns
<1>2. RunInv /\ [Next]_vars => RunInv'
  BY NextKeepsRuns
<1>3. RunInv => CompleteRunSawEverything
  BY DEF RunInv, Complete, CompleteRunSawEverything
<1> QED BY <1>1, <1>2, <1>3, PTL DEF Spec

-----------------------------------------------------------------------------
(***************************************************************************)
(* Reading implements its contract                                         *)
(***************************************************************************)
\* A snapshot has a date if, and only if, it is exhausted.
Dated(s) == s.exhausted <=> s.completedAt # None

DatesInv == Dated(snapshot) /\ \A c \in Clients : Dated(state[c])

\* Runs are complete only where snapshots do not go stale.
ReadInv == CoverInv /\ DatesInv /\ (~MayAge => RunInv)

\* What hydrate makes of a page is dated once there is nothing left to read.
LEMMA NextStateDated ==
    ASSUME NEW page \in FetchedPages, NEW previous
    PROVE  Dated(Following(NextState(page), previous))
<1>1. page.storedAt \in Nat
  BY ConstantTypes DEF FetchedPages, Times
<1>2. page.storedAt # None
  BY <1>1, NoneAssumption
<1>3. Dated(NextState(page))
  BY <1>2 DEF NextState, Dated
<1>4. /\ Following(NextState(page), previous).exhausted = NextState(page).exhausted
      /\ Following(NextState(page), previous).completedAt = NextState(page).completedAt
  BY DEF Following, NextState
<1> QED BY <1>3, <1>4 DEF Dated

\* How a request ends, or the hydration it runs, leaves every snapshot dated.
LEMMA EndsDated ==
    ASSUME CoverInv, DatesInv, NEW c \in Clients, NEW d \in Clients
    PROVE  /\ Forget(c) => Dated(state[d])'
           /\ \A s : Settle(c, s) /\ Dated(s) => Dated(state[d])'
<1>1. state \in [Clients -> SnapshotStates] /\ Dated(state[d]) /\ Dated(Unread)
  BY DEF CoverInv, Typed, TypeOK, DatesInv, Dated, Unread
<1>2. Forget(c) => state'[d] \in {Unread, state[d]}
  BY <1>1 DEF Forget
<1>3. \A s : Settle(c, s) => state'[d] \in {s, state[d]}
  BY DEF Settle
<1> QED BY <1>1, <1>2, <1>3 DEF Dated

\* Every step leaves the row, and what requests work from, dated.
LEMMA NextDated ==
    ASSUME CoverInv, DatesInv, [Next]_vars
    PROVE  DatesInv'
<1>1. /\ state \in [Clients -> SnapshotStates] /\ fetched \in [Clients -> FetchedPages]
      /\ Dated(snapshot) /\ Dated(Unread) /\ \A d \in Clients : Dated(state[d])
  BY DEF CoverInv, Typed, TypeOK, FetchedPages, DatesInv, Dated, Unread
<1>2. ASSUME UNCHANGED <<snapshot, state>>
      PROVE  DatesInv'
  BY <1>2 DEF DatesInv, Dated
<1>3. ASSUME UNCHANGED snapshot, NEW c \in Clients,
             Forget(c) \/ \E s \in {state[c], snapshot} : Settle(c, s)
      PROVE  DatesInv'
  <2>1. \A d \in Clients : Dated(state[d])'
    BY <1>1, <1>3, EndsDated
  <2>2. Dated(snapshot)'
    BY <1>1, <1>3 DEF Dated
  <2> QED BY <2>1, <2>2 DEF DatesInv
<1>4. ASSUME NEW c \in Clients, NEW out \in Database, FindPost(c, out)
      PROVE  DatesInv'
  <2>1. CASE out # "ok"
    BY <1>3, <1>4, <2>1 DEF FindPost, Refuse
  <2>2. CASE out = "ok"
    <3>1. UNCHANGED snapshot /\ \A d \in Clients : state'[d] \in {state[d], Unread, snapshot}
      BY <1>1, <1>4, <2>2 DEF FindPost
    <3> QED BY <1>1, <3>1 DEF DatesInv, Dated
  <2> QED BY <2>1, <2>2
<1>5. ASSUME NEW c \in Clients, NEW out \in Database, Save(c, out)
      PROVE  DatesInv'
  <2> DEFINE next == Following(NextState(fetched[c]), snapshot)
  <2>1. Dated(next)
    BY <1>1, NextStateDated
  <2>2. /\ snapshot' \in {snapshot, next}
        /\ \/ Forget(c)
           \/ state' \in {state, [state EXCEPT ![c] = next]}
    BY <1>5 DEF Save, Reject
  <2> HIDE DEF next
  <2>3. \A d \in Clients : Dated(state[d])'
    <3>1. CASE Forget(c)
      BY <3>1, EndsDated
    <3>2. CASE state' \in {state, [state EXCEPT ![c] = next]}
      <4>1. \A d \in Clients : state'[d] \in {state[d], next}
        BY <1>1, <3>2
      <4> QED BY <1>1, <2>1, <4>1 DEF Dated
    <3> QED BY <2>2, <3>1, <3>2
  <2>4. Dated(snapshot)'
    BY <1>1, <2>1, <2>2 DEF Dated
  <2> QED BY <2>3, <2>4 DEF DatesInv
<1>6. ASSUME NEW c \in Clients, NEW out \in Database,
             ListPage(c, out) \/ Run(c, out) \/ Upsert(c, out) \/ Reread(c, out) \/ ReadPage(c, out)
      PROVE  DatesInv'
  <2>1. UNCHANGED snapshot
    BY <1>6 DEF ListPage, Run, Upsert, Reread, ReadPage
  <2>2. Forget(c) \/ (\E s \in {state[c], snapshot} : Settle(c, s)) \/ UNCHANGED state
    BY <1>6 DEF ListPage, Run, Upsert, Reread, ReadPage, Refuse, Answer, Reject, requestVars
  <2> QED BY <1>2, <1>3, <2>1, <2>2
<1>7. ASSUME NEW c \in Clients,
             Fetch(c) \/ CursorRejected(c) \/ Restart(c) \/ FetchFails(c) \/ JoinTimesOut(c)
      PROVE  DatesInv'
  <2>1. UNCHANGED snapshot /\ (Forget(c) \/ UNCHANGED state)
    BY <1>7 DEF Fetch, CursorRejected, Restart, FetchFails, JoinTimesOut, Deliver, Reject, requestVars
  <2> QED BY <1>2, <1>3, <2>1
<1>8. ASSUME NEW p \in Processes, Crash(p)
      PROVE  DatesInv'
  <2>1. UNCHANGED snapshot /\ \A d \in Clients : state'[d] \in {Unread, state[d]}
    BY <1>8 DEF Crash
  <2> QED BY <1>1, <2>1 DEF DatesInv, Dated
<1>9. CASE \/ \E c \in Clients : (\E p \in Processes : Begin(c, p)) \/ NewRun(c)
           \/ Publish \/ Age \/ UNCHANGED vars
  BY <1>2, <1>9 DEF Begin, NewRun, Publish, Age, vars, requestVars
<1> QED BY <1>4, <1>5, <1>6, <1>7, <1>8, <1>9 DEF Next, Step

-----------------------------------------------------------------------------
\* Neither an answer nor a new run.
QuietRuns ==
    /\ UNCHANGED clientVars
    /\ \A d \in Clients : pc'[d] = "ended" <=> pc[d] = "ended"

\* What is quiet is not seen by any client.
LEMMA QuietUnseen == ASSUME QuietRuns PROVE runOf' = runOf
<1>1. UNCHANGED <<after, partialRun, got, syncedAt>>
  BY DEF QuietRuns, clientVars
<1>2. \A d \in Clients : (pc'[d] = "ended") = (pc[d] = "ended")
  BY DEF QuietRuns
<1> QED BY <1>1, <1>2 DEF runOf

\* A request goes on, is refused, or ends the hydration it runs: nobody is
\* answered.
LEMMA QuietEnds ==
    ASSUME CoverInv, NEW c \in Clients, pc[c] \in {"idle"} \union Waiting
    PROVE  /\ Refuse(c) \/ Reject(c) => QuietRuns
           /\ \A s : Settle(c, s) => QuietRuns
           /\ \A l \in Waiting : Goto(c, l) /\ UNCHANGED clientVars => QuietRuns
<1>1. /\ pc \in [Clients -> {"idle", "ended"} \union Waiting]
      /\ "ended" \notin Waiting /\ pc[c] # "ended"
      /\ \A d \in Joiners(c) : pc[d] # "ended"
  BY DEF CoverInv, Typed, TypeOK, Waiting, Hydrating, Joiners
<1>2. Refuse(c) => QuietRuns
  BY <1>1 DEF Refuse, Goto, QuietRuns
<1>3. Reject(c) => QuietRuns
  BY <1>1 DEF Reject, QuietRuns
<1>4. \A s : Settle(c, s) => QuietRuns
  BY <1>1 DEF Settle, QuietRuns
<1>5. \A l \in Waiting : Goto(c, l) /\ UNCHANGED clientVars => QuietRuns
  BY <1>1 DEF Goto, QuietRuns
<1> QED BY <1>2, <1>3, <1>4, <1>5

\* A page is the page of the contract, and it is empty only at the end.
LEMMA PageIsPage ==
    ASSUME TypeOK, NEW a \in Times
    PROVE  /\ Contract!IsPage(Page(a), a)
           /\ PageHasMore(a) <=> Page(a) # Contract!Later(a)
<1> DEFINE S == {i \in stored : i > a}
<1>1. /\ S \subseteq 1 .. MaxComments /\ S \subseteq Nat
      /\ Page(a) = Oldest(Limit, S) /\ Contract!Later(a) = S
  <2>1. S \subseteq 1 .. MaxComments
    BY DEF TypeOK, Comments
  <2>2. Page(a) = Oldest(Limit, S) /\ Contract!Later(a) = S
    BY Zenon DEF Page, Contract!Later
  <2> HIDE DEF S
  <2> QED BY <2>1, <2>2
<1>2. PageHasMore(a) <=> Page(a) # Contract!Later(a)
  <2>1. PageHasMore(a) <=> S # Page(a)
    BY Zenon DEF PageHasMore
  <2> HIDE DEF S
  <2> QED BY <1>1, <2>1
<1> HIDE DEF S
<1>3. Page(a) \subseteq S
  BY <1>1 DEF Oldest
<1>4. ASSUME NEW i \in Page(a), NEW j \in S, j < i
      PROVE  j \in Page(a)
  <2>1. i \in Nat /\ j \in Nat
    BY <1>1, <1>3
  <2>2. j <= i
    BY <1>4, <2>1
  <2> QED BY <1>1, <1>4, <2>2, ConstantTypes, OldestIsDownwardClosed
<1>5. ASSUME S # {}
      PROVE  Page(a) # {}
  <2> DEFINE least == Min(S)
  <2>1. least \in S /\ \A y \in S : least <= y
    BY <1>1, <1>5, MinIsLeast
  <2> HIDE DEF least
  <2>2. \A y \in S : ~(y < least)
    BY <1>1, <2>1
  <2>3. {y \in S : y < least} = {}
    BY <2>2
  <2>4. Cardinality({y \in S : y < least}) = 0
    BY <2>3, FS_EmptySet
  <2>5. least \in Oldest(Limit, S)
    BY <2>1, <2>4, ConstantTypes DEF Oldest
  <2> QED BY <1>1, <2>5
<1>6. Contract!IsPage(Page(a), a)
  BY <1>1, <1>3, <1>4, <1>5 DEF Contract!IsPage
<1> QED BY <1>2, <1>6

\* A snapshot that is dated is one of the contract's.
LEMMA SeenIsSnapshot ==
    ASSUME NEW s \in SnapshotStates, Dated(s), NEW T, Covered(s) \subseteq T, T \subseteq Comments
    PROVE  Seen(s) \in Contract!Snapshots
BY DEF Seen, Contract!Snapshots, SnapshotStates, Dated

\* An answer of the code is an answer of the contract.
LEMMA AnswerIs ==
    ASSUME ReadInv, NEW c \in Clients, Answer(c, state[c]), pc[c] \in {"list", "page"},
           UNCHANGED <<stored, snapshot>>
    PROVE  /\ Page(after[c]) \in SUBSET Comments /\ Seen(state[c]) \in Contract!Snapshots
           /\ Contract!Answer(c, Page(after[c]), Seen(state[c]))
<1> DEFINE s == state[c]
           a == after[c]
           items == Page(a)
           run == [ended |-> s.exhausted /\ items = Contract!Later(a),
                   after |-> IF items = {} THEN a ELSE Max(items),
                   partialRun |-> PartialRun(c, s),
                   got |-> got[c] \union items,
                   syncedAt |-> IF PartialRun(c, s) THEN None ELSE s.completedAt]
<1>1. /\ TypeOK /\ Dated(s) /\ s \in SnapshotStates /\ a \in Times
      /\ Covered(s) \subseteq stored /\ stored \subseteq Comments
  BY DEF ReadInv, DatesInv, CoverInv, Typed, TypeOK, ClientSound, LocalsSound, SoundAt
<1>2. ~MayAge /\ s.exhausted => s = snapshot
  BY DEF ReadInv, RunInv, LatestOf
<1>3. items \in SUBSET Comments /\ Seen(s) \in Contract!Snapshots
  BY <1>1, PageTypes, SeenIsSnapshot
<1>4. Contract!IsPage(items, a) /\ (PageHasMore(a) <=> items # Contract!Later(a))
  BY <1>1, PageIsPage
<1>5. /\ Seen(s).complete = s.exhausted /\ Seen(s).covers = Covered(s)
      /\ Seen(s).completedAt = s.completedAt
  BY DEF Seen
<1>6. /\ pc' = [pc EXCEPT ![c] = IF PageHasMore(a) \/ ~s.exhausted THEN "idle" ELSE "ended"]
      /\ after' = [after EXCEPT ![c] = IF items = {} THEN a ELSE Max(items)]
      /\ partialRun' = [partialRun EXCEPT ![c] = PartialRun(c, s)]
      /\ got' = [got EXCEPT ![c] = got[c] \union items]
      /\ syncedAt' = [syncedAt EXCEPT ![c] = IF PartialRun(c, s) THEN None ELSE s.completedAt]
  BY DEF Answer, Goto
<1>7. runOf[c].after = a /\ runOf[c].partialRun = partialRun[c] /\ runOf[c].got = got[c]
      /\ runOf[c].ended = FALSE
  BY DEF runOf
<1>8. PartialRun(c, s) = IF a = 0 THEN ~s.exhausted ELSE partialRun[c]
  BY DEF PartialRun, StartingRun
<1> HIDE DEF items, a, s
<1>9. runOf' = [runOf EXCEPT ![c] = run]
  <2>1. /\ (pc'[c] = "ended") = (s.exhausted /\ items = Contract!Later(a))
        /\ after'[c] = run.after /\ partialRun'[c] = run.partialRun
        /\ got'[c] = run.got /\ syncedAt'[c] = run.syncedAt
    BY <1>1, <1>4, <1>6 DEF TypeOK
  <2>2. ASSUME NEW d \in Clients, d # c
        PROVE  /\ pc'[d] = pc[d] /\ after'[d] = after[d] /\ partialRun'[d] = partialRun[d]
               /\ got'[d] = got[d] /\ syncedAt'[d] = syncedAt[d]
    BY <1>1, <1>6, <2>2 DEF TypeOK
  <2>3. ASSUME NEW d \in Clients
        PROVE  runOf'[d] = [runOf EXCEPT ![c] = run][d]
    <3>1. CASE d = c
      BY <2>1, <3>1 DEF runOf
    <3>2. CASE d # c
      BY <2>2, <3>2 DEF runOf
    <3> QED BY <3>1, <3>2
  <2> HIDE DEF run
  <2> QED BY <2>3 DEF runOf
<1>10. Seen(snapshot)' = Seen(snapshot)
  BY DEF Seen, Covered
<1>11. Contract!Answer(c, items, Seen(s))
  <2>1. Seen(s).complete /\ ~MayAge => Seen(s) = Seen(snapshot)
    BY <1>2, <1>5
  <2> DEFINE partial == IF runOf[c].after = 0 THEN ~Seen(s).complete ELSE runOf[c].partialRun
             last == Seen(s).complete /\ items = Contract!Later(runOf[c].after)
  <2>2. run = [ended |-> last,
               after |-> IF items = {} THEN runOf[c].after ELSE Max(items),
               partialRun |-> partial,
               got |-> runOf[c].got \union items,
               syncedAt |-> IF partial THEN None ELSE Seen(s).completedAt]
    <3>1. last = (s.exhausted /\ items = Contract!Later(a))
      BY <1>5, <1>7
    <3>2. partial = PartialRun(c, s)
      BY <1>5, <1>7, <1>8
    <3> HIDE DEF last, partial
    <3> QED BY <1>5, <1>7, <3>1, <3>2 DEF run
  <2>3. Contract!Max(items) = Max(items)
    BY Zenon DEF Max, Contract!Max
  <2> HIDE DEF run
  <2> QED BY <1>1, <1>4, <1>5, <1>7, <1>9, <1>10, <2>1, <2>2, <2>3 DEF Contract!Answer
<1> QED BY <1>3, <1>11 DEF items, a, s

\* A write of the row is one the contract allows.
LEMMA SaveIs ==
    ASSUME ReadInv, ReadInv', NEW c \in Clients, NEW out \in Database, Save(c, out)
    PROVE  [Contract!ContractNext]_Contract!contractVars
<1>1. /\ UNCHANGED stored /\ pc[c] = "save" /\ LocalsSound(c)
      /\ RowSound' /\ stored' \subseteq Comments /\ stored \subseteq Comments
      /\ snapshot' \in SnapshotStates /\ Dated(snapshot)'
      /\ pc \in [Clients -> {"idle", "ended"} \union Waiting]
  BY DEF Save, ReadInv, CoverInv, ClientSound, Typed, TypeOK, DatesInv
<1>2. runOf' = runOf
  <2>1. Reject(c) \/ \E l \in Waiting : Goto(c, l) /\ UNCHANGED clientVars
    BY DEF Save, Waiting, Hydrating
  <2>2. pc[c] \in {"idle"} \union Waiting /\ CoverInv
    BY <1>1 DEF Waiting, Hydrating, ReadInv
  <2> QED BY <2>1, <2>2, QuietEnds, QuietUnseen
<1>3. CASE UNCHANGED snapshot
  <2>1. Seen(snapshot)' = Seen(snapshot)
    BY <1>3 DEF Seen, Covered
  <2> QED BY <1>1, <1>2, <2>1 DEF Contract!contractVars
<1>4. CASE snapshot' # snapshot
  <2>1. Matches(c)
    BY <1>4 DEF Save
  <2>2. snapshot.exhausted => MayAge
    <3>1. ~MayAge => state[c] = expected[c] /\ ~state[c].exhausted
      BY <1>1 DEF ReadInv, RunInv, LatestOf, Trusting, Reading
    <3> QED BY <2>1, <3>1 DEF Matches
  <2>3. "rejected" \notin Faults /\ ~snapshot.exhausted => Covered(snapshot) \subseteq Covered(snapshot')
    <3>1. Grows
      <4>1. UNCHANGED published /\ published \in Times
        BY DEF Save, ReadInv, CoverInv, Typed, TypeOK
      <4> QED BY <1>1, <4>1, ConstantTypes DEF Grows, Times
    <3> QED BY <3>1, SaveSound DEF ReadInv
  <2>4. Seen(snapshot)' = Seen(snapshot')
    BY DEF Seen, Covered
  <2>5. Seen(snapshot') \in Contract!Snapshots /\ Covered(snapshot') \subseteq stored
    <3>1. Covered(snapshot') \subseteq stored /\ Dated(snapshot')
      BY <1>1 DEF RowSound, SoundAt, Covered, Dated
    <3> QED BY <1>1, <3>1, SeenIsSnapshot
  <2>6. Contract!Vouch(Seen(snapshot'))
    BY <1>1, <1>2, <2>2, <2>3, <2>4, <2>5 DEF Contract!Vouch, Seen
  <2> QED BY <2>5, <2>6 DEF Contract!ContractNext
<1> QED BY <1>3, <1>4

\* Every step is a step of the contract, or is not seen.
LEMMA NextIs ==
    ASSUME ReadInv, ReadInv', [Next]_vars
    PROVE  [Contract!ContractNext]_Contract!contractVars
<1>1. /\ CoverInv /\ stored \subseteq Comments
      /\ pc \in [Clients -> {"idle", "ended"} \union Waiting]
      /\ fetched \in [Clients -> FetchedPages]
  BY DEF ReadInv, CoverInv, Typed, TypeOK, FetchedPages
<1>2. UNCHANGED snapshot => Seen(snapshot)' = Seen(snapshot)
  BY DEF Seen, Covered
<1>3. ASSUME UNCHANGED <<stored, snapshot>>, QuietRuns
      PROVE  [Contract!ContractNext]_Contract!contractVars
  BY <1>2, <1>3, QuietUnseen DEF Contract!contractVars
<1>4. ASSUME NEW c \in Clients, UNCHANGED <<stored, snapshot>>, pc[c] \in {"idle"} \union Waiting,
             \/ Refuse(c) \/ Reject(c) \/ \E s : Settle(c, s)
             \/ (\E l \in Waiting : Goto(c, l)) /\ UNCHANGED clientVars
      PROVE  [Contract!ContractNext]_Contract!contractVars
  BY <1>1, <1>3, <1>4, QuietEnds
<1>5. ASSUME NEW c \in Clients, UNCHANGED <<stored, snapshot>>, Answer(c, state[c]),
             pc[c] \in {"list", "page"}
      PROVE  [Contract!ContractNext]_Contract!contractVars
  <2>1. /\ Page(after[c]) \in SUBSET Comments /\ Seen(state[c]) \in Contract!Snapshots
        /\ Contract!Answer(c, Page(after[c]), Seen(state[c]))
    BY <1>5, AnswerIs
  <2> QED BY <2>1, Zenon DEF Contract!ContractNext
<1>6. ASSUME NEW c \in Clients, NEW out \in Database, Upsert(c, out)
      PROVE  [Contract!ContractNext]_Contract!contractVars
  <2>1. /\ pc[c] = "upsert" /\ UNCHANGED snapshot
        /\ stored' \in {stored, stored \union fetched[c].items}
        /\ Reject(c) \/ ((\E l \in Waiting : Goto(c, l)) /\ UNCHANGED clientVars)
    BY <1>6 DEF Upsert, Waiting, Hydrating
  <2>2. pc[c] \in {"idle"} \union Waiting
    BY <2>1 DEF Waiting, Hydrating
  <2>3. runOf' = runOf
    BY <1>1, <2>1, <2>2, QuietEnds, QuietUnseen
  <2>4. CASE stored' = stored
    BY <1>4, <2>1, <2>2, <2>4
  <2>5. CASE stored' = stored \union fetched[c].items
    <3>1. fetched[c].items \in SUBSET Comments
      BY <1>1 DEF FetchedPages
    <3>2. Contract!Observe(fetched[c].items)
      BY <1>2, <2>1, <2>3, <2>5 DEF Contract!Observe
    <3> QED BY <3>1, <3>2 DEF Contract!ContractNext
  <2> QED BY <2>1, <2>4, <2>5
<1>7. ASSUME NEW c \in Clients, NEW out \in Database,
             FindPost(c, out) \/ ListPage(c, out) \/ Run(c, out) \/ Reread(c, out) \/ ReadPage(c, out)
      PROVE  [Contract!ContractNext]_Contract!contractVars
  <2>1. UNCHANGED <<stored, snapshot>> /\ pc[c] \in {"find", "list", "run", "reread", "page"}
    BY <1>7 DEF FindPost, ListPage, Run, Reread, ReadPage
  <2>2. pc[c] \in {"idle"} \union Waiting
    BY <2>1 DEF Waiting, Hydrating
  <2>3. \/ Answer(c, state[c]) /\ pc[c] \in {"list", "page"}
        \/ Refuse(c) \/ Reject(c) \/ \E s : Settle(c, s)
        \/ (\E l \in Waiting : Goto(c, l)) /\ UNCHANGED clientVars
    BY <1>7 DEF FindPost, ListPage, Run, Reread, ReadPage, Waiting, Hydrating
  <2> QED BY <1>4, <1>5, <2>1, <2>2, <2>3
<1>8. ASSUME NEW c \in Clients,
             Fetch(c) \/ CursorRejected(c) \/ Restart(c) \/ FetchFails(c) \/ JoinTimesOut(c)
      PROVE  [Contract!ContractNext]_Contract!contractVars
  <2>1. UNCHANGED <<stored, snapshot>> /\ pc[c] \in {"fetch", "restart", "join"}
    BY <1>8 DEF Fetch, CursorRejected, Restart, FetchFails, JoinTimesOut
  <2>2. pc[c] \in {"idle"} \union Waiting
    BY <2>1 DEF Waiting, Hydrating
  <2>3. Reject(c) \/ ((\E l \in Waiting : Goto(c, l)) /\ UNCHANGED clientVars)
    BY <1>8 DEF Fetch, CursorRejected, Restart, FetchFails, JoinTimesOut, Deliver, Waiting, Hydrating
  <2> QED BY <1>4, <2>1, <2>2, <2>3
<1>9. ASSUME NEW c \in Clients, NEW p \in Processes, Begin(c, p)
      PROVE  [Contract!ContractNext]_Contract!contractVars
  BY <1>4, <1>9 DEF Begin, Waiting
<1>10. ASSUME NEW c \in Clients, NewRun(c)
       PROVE  [Contract!ContractNext]_Contract!contractVars
  <2>1. /\ pc[c] = "ended" /\ pc' = [pc EXCEPT ![c] = "idle"]
        /\ after' = [after EXCEPT ![c] = 0]
        /\ partialRun' = [partialRun EXCEPT ![c] = FALSE]
        /\ got' = [got EXCEPT ![c] = {}]
        /\ syncedAt' = [syncedAt EXCEPT ![c] = None]
        /\ UNCHANGED <<stored, snapshot>>
    BY <1>10 DEF NewRun, Goto
  <2>2. ASSUME NEW d \in Clients
        PROVE  runOf'[d] = [runOf EXCEPT ![c] = Contract!NotStarted][d]
    <3>1. CASE d = c
      BY <1>1, <2>1, <3>1 DEF runOf, Contract!NotStarted, CoverInv, Typed, TypeOK
    <3>2. CASE d # c
      BY <1>1, <2>1, <3>2 DEF runOf, CoverInv, Typed, TypeOK
    <3> QED BY <3>1, <3>2
  <2>3. runOf' = [runOf EXCEPT ![c] = Contract!NotStarted]
    BY <2>2 DEF runOf
  <2>4. Contract!StartAgain(c)
    BY <1>2, <2>1, <2>3 DEF Contract!StartAgain, runOf
  <2> QED BY <2>4 DEF Contract!ContractNext
<1>11. ASSUME NEW p \in Processes, Crash(p)
       PROVE  [Contract!ContractNext]_Contract!contractVars
  BY <1>3, <1>11 DEF Crash, QuietRuns, Waiting, Hydrating
<1>12. CASE Publish \/ Age \/ UNCHANGED vars
  BY <1>3, <1>12 DEF Publish, Age, vars, requestVars, QuietRuns
<1>13. ASSUME NEW c \in Clients, NEW out \in Database, Save(c, out)
       PROVE  [Contract!ContractNext]_Contract!contractVars
  BY <1>13, SaveIs
<1> QED BY <1>6, <1>7, <1>8, <1>9, <1>10, <1>11, <1>12, <1>13 DEF Next, Step

\* A post that was never read, and clients that have not started.
LEMMA InitIs == Init => ReadInv /\ Contract!ContractInit
<1> SUFFICES ASSUME Init PROVE ReadInv /\ Contract!ContractInit
  OBVIOUS
<1>1. CoverInv /\ DatesInv
  BY InitSound DEF Init, DatesInv, Dated, Unread
<1>2. RunInv
  BY InitRuns
<1>3. runOf = [c \in Clients |-> Contract!NotStarted]
  BY DEF Init, runOf, Contract!NotStarted
<1>4. Seen(snapshot) = Contract!Nothing
  BY DEF Init, Seen, Covered, Unread, Contract!Nothing
<1> QED BY <1>1, <1>2, <1>3, <1>4 DEF Init, ReadInv, Contract!ContractInit

\* To its clients, reading is a sequence of answers that are each given at one
\* moment, over comments and a row that only ever say what is so: with hydrations
\* that are shared, fail, time out, overtake each other or die with their process
\* (listComments, runHydration, joinHydration, hydrate), whether snapshots go
\* stale or not, and whether the platform honours its cursors or not.
THEOREM ReadingImplementsContract == Spec => ImplementsContract
<1>1. ReadInv /\ [Next]_vars => ReadInv'
  BY NextSound, NextDated, NextKeepsRuns DEF ReadInv
<1>2. ReadInv /\ ReadInv' /\ [Next]_vars => [Contract!ContractNext]_Contract!contractVars
  BY NextIs
<1> QED BY <1>1, <1>2, InitIs, PTL DEF Spec, ImplementsContract, Contract!ContractSpec
=============================================================================
