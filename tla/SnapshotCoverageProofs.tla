---------------------- MODULE SnapshotCoverageProofs -----------------------
(***************************************************************************)
(* What a post's row vouches for is in the table, and stays vouched for:   *)
(* proofs for any number of clients, replicas and comments.                *)
(*                                                                         *)
(* The invariant behind both says of every page in hand that it joins on   *)
(* to what the state it was fetched from covers, although the row may have *)
(* changed since; the compare-and-set then makes that state the row's.     *)
(***************************************************************************)
EXTENDS SnapshotHydrationProofs

-----------------------------------------------------------------------------
(***************************************************************************)
(* The invariant                                                           *)
(***************************************************************************)
\* A snapshot state is sound when p comments are published and those of T
\* stored: its walk began no later than now, reached no comment newer than its
\* beginning, and left every comment it covers in the table.
SoundAt(s, p, T) ==
    /\ s.began <= p
    /\ s.exhausted => s.providerCursor = None
    /\ s.providerCursor # None => s.providerCursor <= s.began
    /\ ~s.exhausted /\ s.providerCursor = None => s.began = 0
    /\ Covered(s) \subseteq T

\* A page joins on to the state e the row is believed to hold: stored, it leaves
\* no gap in what the next state covers.
JoinsAt(page, e, p, T) ==
    /\ page.began <= p
    /\ \A i \in page.items : i <= page.began
    /\ e.providerCursor # None => e.providerCursor <= page.began
    /\ "rejected" \notin Faults /\ e.providerCursor # None =>
         \A i \in page.items : i < e.providerCursor
    /\ Covered(NextState(page)) \subseteq T \union page.items

\* The labels at which the request's state is what the row was, or stands for
\* a stale one.
Trusting == {"list", "run"} \union Reading

RowSound ==
    /\ SoundAt(snapshot, published, stored)
    /\ aged => snapshot.exhausted

LocalsSound(c) ==
    /\ SoundAt(state[c], published, stored)
    /\ SoundAt(expected[c], published, stored)

Believes(c) ==
    /\ pc[c] \in Trusting =>
         state[c] = expected[c] \/ (expected[c].exhausted /\ state[c] = Unread)
    /\ pc[c] = "restart" => "rejected" \in Faults

Holds(c) ==
    /\ pc[c] \in {"upsert", "save"} => JoinsAt(fetched[c], expected[c], published, stored)
    /\ pc[c] = "save" => fetched[c].items \subseteq stored

ClientSound(c) == LocalsSound(c) /\ Believes(c) /\ Holds(c)

CoverInv == Typed /\ RowSound /\ \A c \in Clients : ClientSound(c)

-----------------------------------------------------------------------------
(***************************************************************************)
(* Lemmas about snapshot states and pages                                  *)
(***************************************************************************)
\* What is sound stays so while more is published and stored.
LEMMA SoundGrows ==
    ASSUME NEW s \in SnapshotStates, NEW p \in Times, NEW q \in Times, p <= q,
           NEW S, NEW T, S \subseteq T, SoundAt(s, p, S)
    PROVE  SoundAt(s, q, T)
<1>1. s.began \in Nat /\ p \in Nat /\ q \in Nat
  BY ConstantTypes DEF SnapshotStates, Times
<1>2. s.began <= q
  BY <1>1 DEF SoundAt
<1>3. Covered(s) \subseteq T
  BY DEF SoundAt
<1> QED BY <1>2, <1>3 DEF SoundAt

\* So does what joins on.
LEMMA JoinsGrows ==
    ASSUME NEW page \in FetchedPages, NEW e, NEW p \in Times, NEW q \in Times, p <= q,
           NEW S, NEW T, S \subseteq T, JoinsAt(page, e, p, S)
    PROVE  JoinsAt(page, e, q, T)
<1>1. page.began \in Nat /\ p \in Nat /\ q \in Nat
  BY ConstantTypes DEF FetchedPages, Times
<1>2. page.began <= q
  BY <1>1 DEF JoinsAt
<1>3. Covered(NextState(page)) \subseteq T \union page.items
  BY DEF JoinsAt
<1> QED BY <1>2, <1>3 DEF JoinsAt

\* Nothing read yet vouches for nothing.
LEMMA UnreadIsSound ==
    ASSUME NEW p \in Times, NEW T
    PROVE  SoundAt(Unread, p, T)
<1>1. p \in Nat
  BY ConstantTypes DEF Times
<1> QED BY <1>1 DEF SoundAt, Unread, Covered

\* A sound state of the types, spelled out.
LEMMA StateFacts ==
    ASSUME NEW s \in SnapshotStates
    PROVE  /\ s.began \in Nat
           /\ s.providerCursor # None => s.providerCursor \in Nat \ {0}
           /\ s.exhausted \in BOOLEAN
           /\ Covered(s) \subseteq Nat
BY ConstantTypes DEF SnapshotStates, Times, Comments, Covered

\* The page read from a sound state joins on to it, and a page read from the
\* start of the stream joins on to anything.
LEMMA PageJoins ==
    ASSUME TypeOK, NEW s \in SnapshotStates, NEW e \in SnapshotStates,
           SoundAt(s, published, stored), SoundAt(e, published, stored),
           s = e \/ (e.exhausted /\ s = Unread),
           NEW cursor \in {s.providerCursor, None},
           "rejected" \notin Faults => cursor = s.providerCursor,
           NEW page,
           page = [ items |-> ProviderPage(cursor),
                    began |-> IF cursor = None THEN published ELSE s.began,
                    storedAt |-> 0 ]
    PROVE  JoinsAt(page, e, published, stored)
<1> DEFINE S == {i \in 1 .. published : cursor # None => i < cursor}
           items == Newest(ProviderPageLimit, S)
<1>1. page.items = items /\ page.began = IF cursor = None THEN published ELSE s.began
  BY DEF ProviderPage
<1>2. /\ published \in Nat /\ s.began \in Nat
      /\ cursor # None => cursor \in Nat \ {0}
  BY StateFacts, ConstantTypes DEF TypeOK, Times
<1>3. cursor # None => /\ cursor = s.providerCursor /\ s = e /\ ~s.exhausted
                       /\ cursor <= s.began /\ s.began <= published
  BY DEF SoundAt, Unread
<1>4. /\ items \subseteq S
      /\ \A i \in items, j \in S : i <= j => j \in items
      /\ S # {} => items # {}
  <2>1. ProviderPageLimit \in Nat \ {0} /\ S \subseteq 1 .. published
    BY ConstantTypes
  <2> HIDE DEF S
  <2> QED BY <2>1, <1>2, NewestIsUpwardClosed DEF items
<1>5. page.began <= published /\ page.began \in Nat
  BY <1>1, <1>2, <1>3
<1>6. ASSUME NEW i \in items
      PROVE  i \in Nat \ {0} /\ i <= page.began
  <2>1. i \in 1 .. published /\ (cursor # None => i < cursor)
    BY <1>4
  <2> QED BY <1>1, <1>2, <1>3, <2>1
<1>7. e.providerCursor # None => e.providerCursor <= page.began
  <2>1. e.providerCursor # None => e.providerCursor <= e.began /\ e.began <= published /\ s = e
    BY DEF SoundAt
  <2>2. e.providerCursor # None => e.providerCursor \in Nat /\ e.began \in Nat
    BY StateFacts
  <2> QED BY <1>1, <1>2, <2>1, <2>2
<1>8. ASSUME "rejected" \notin Faults, e.providerCursor # None, NEW i \in items
      PROVE  i < e.providerCursor
  <2>1. cursor = e.providerCursor
    BY <1>8 DEF SoundAt
  <2> QED BY <1>4, <1>8, <2>1
<1>9. Covered(NextState(page)) \subseteq stored \union items
  <2>1. ASSUME NEW j \in 1 .. page.began, j \notin S
        PROVE  j \in stored
    <3>1. cursor # None /\ cursor <= j /\ j <= s.began
      BY <1>1, <1>2, <1>3, <1>5, <2>1
    <3>2. Covered(s) = cursor .. s.began
      BY <1>3, <3>1 DEF Covered
    <3> QED BY <1>2, <3>1, <3>2 DEF SoundAt
  <2>2. CASE items # {} /\ 1 \notin items
    <3>1. items \subseteq Nat
      BY <1>6
    <3>2. Min(items) \in items
      BY <2>2, <3>1, MinIsLeast
    <3>3. Min(items) # None /\ Min(items) \in Nat \ {0}
      BY <1>6, <3>2, NoneAssumption
    <3>4. Covered(NextState(page)) = Min(items) .. page.began
      BY <1>1, <2>2, <3>3 DEF Covered, NextState
    <3> SUFFICES ASSUME NEW j \in Min(items) .. page.began PROVE j \in stored \union items
      BY <3>4
    <3>5. j \in 1 .. page.began /\ Min(items) <= j
      BY <1>5, <3>3
    <3> QED BY <1>4, <2>1, <3>2, <3>5
  <2>3. CASE items = {} \/ 1 \in items
    <3>1. Covered(NextState(page)) = 1 .. page.began
      BY <1>1, <2>3 DEF Covered, NextState
    <3> SUFFICES ASSUME NEW j \in 1 .. page.began PROVE j \in stored \union items
      BY <3>1
    <3>2. j \in S => j \in items
      <4>1. 1 \in items /\ j \in S => j \in items
        BY <1>4
      <4> QED BY <1>4, <2>3, <4>1
    <3> QED BY <2>1, <3>2
  <2> QED BY <2>2, <2>3
<1> HIDE DEF items
<1> QED BY <1>1, <1>5, <1>6, <1>7, <1>8, <1>9 DEF JoinsAt

\* What hydrate makes of a page: there is a cursor, which is on the page, or
\* the stream is exhausted.
LEMMA NextStateFacts ==
    ASSUME NEW page \in FetchedPages
    PROVE  LET n == NextState(page)
           IN  /\ n \in SnapshotStates
               /\ n.began = page.began
               /\ n.exhausted => n.providerCursor = None
               /\ ~n.exhausted => n.providerCursor # None /\ n.providerCursor \in page.items
<1>1. NextState(page) \in SnapshotStates
  BY NextStateType, ConstantTypes
<1>2. page.items \subseteq Nat /\ page.items \subseteq Comments
  BY DEF FetchedPages, Comments
<1>3. page.items # {} => Min(page.items) \in page.items
  BY <1>2, MinIsLeast
<1>4. None \notin page.items
  BY <1>2, NoneAssumption
<1> QED BY <1>1, <1>3, <1>4 DEF NextState

\* A page that joins on to what the row holds, stored and counted as read, makes
\* a sound row; and unless the platform rejects cursors, the row covers what it
\* covered.
LEMMA SavedIsSound ==
    ASSUME NEW page \in FetchedPages, NEW e \in SnapshotStates, NEW s \in SnapshotStates,
           NEW p \in Times, NEW T, JoinsAt(page, e, p, T), page.items \subseteq T,
           SoundAt(s, p, T), s.providerCursor = e.providerCursor, s.exhausted = e.exhausted
    PROVE  /\ SoundAt(Following(NextState(page), s), p, T)
           /\ "rejected" \notin Faults /\ ~s.exhausted =>
                Covered(s) \subseteq Covered(Following(NextState(page), s))
<1> DEFINE n == NextState(page)
           m == Max({n.began, s.began})
           next == Following(n, s)
<1>1. /\ n \in SnapshotStates /\ n.began = page.began
      /\ n.exhausted => n.providerCursor = None
      /\ ~n.exhausted => n.providerCursor # None /\ n.providerCursor \in page.items
  BY NextStateFacts
<1> HIDE DEF n
<1>2. /\ page.began \in Nat /\ s.began \in Nat /\ p \in Nat
      /\ page.began <= p /\ s.began <= p
      /\ page.items \subseteq Nat \ {0}
  BY StateFacts, ConstantTypes DEF FetchedPages, Times, Comments, JoinsAt, SoundAt
<1>3. m = IF page.began >= s.began THEN page.began ELSE s.began
  BY <1>1, <1>2, MaxOfTwo
<1>4. /\ next.began = m
      /\ next.providerCursor = n.providerCursor
      /\ next.exhausted = n.exhausted
  BY <1>1 DEF Following, SnapshotStates
<1> HIDE DEF m, next
<1>5. m \in Nat /\ page.began <= m /\ s.began <= m /\ m <= p
  BY <1>2, <1>3
<1>6. /\ ~n.exhausted => /\ n.providerCursor \in Nat \ {0} /\ n.providerCursor <= page.began
                         /\ n.providerCursor # None /\ n.providerCursor \in page.items
      /\ n.exhausted \in BOOLEAN
  BY <1>1, <1>2, StateFacts DEF JoinsAt
<1>7. /\ n.exhausted => Covered(n) = 1 .. page.began /\ Covered(next) = 1 .. m
      /\ ~n.exhausted => /\ Covered(n) = n.providerCursor .. page.began
                         /\ Covered(next) = n.providerCursor .. m
  BY <1>1, <1>4 DEF Covered
<1>8. Covered(n) \subseteq T
  BY DEF JoinsAt, n
<1>9. Covered(next) \subseteq T
  <2> SUFFICES ASSUME NEW j \in Covered(next) PROVE j \in T
    OBVIOUS
  <2>1. j \in Nat \ {0} /\ j <= m
    BY <1>5, <1>6, <1>7
  <2>2. CASE j <= page.began
    BY <1>2, <1>5, <1>6, <1>7, <1>8, <2>1, <2>2
  <2>3. CASE j > page.began
    <3>1. j <= s.began /\ s.began # 0
      BY <1>2, <1>3, <2>1, <2>3
    <3>2. s.exhausted \/ s.providerCursor # None
      BY <3>1 DEF SoundAt
    <3>3. s.providerCursor # None => s.providerCursor <= page.began /\ s.providerCursor \in Nat
      BY StateFacts DEF JoinsAt
    <3>4. j \in Covered(s)
      BY <1>2, <2>1, <2>3, <3>1, <3>2, <3>3 DEF Covered
    <3> QED BY <3>4 DEF SoundAt
  <2> QED BY <1>2, <2>1, <2>2, <2>3
<1>10. SoundAt(next, p, T)
  <2>1. next.providerCursor # None => next.providerCursor <= next.began
    BY <1>1, <1>2, <1>4, <1>5, <1>6
  <2> QED BY <1>1, <1>4, <1>5, <1>9, <2>1 DEF SoundAt
<1>11. ASSUME "rejected" \notin Faults, ~s.exhausted
       PROVE  Covered(s) \subseteq Covered(next)
  <2>1. CASE s.providerCursor = None
    BY <1>11, <2>1 DEF Covered
  <2>2. CASE s.providerCursor # None
    <3>1. Covered(s) = s.providerCursor .. s.began /\ s.providerCursor \in Nat \ {0}
      BY <1>11, <2>2, StateFacts DEF Covered
    <3>2. ~n.exhausted => n.providerCursor < s.providerCursor
      BY <1>6, <1>11, <2>2 DEF JoinsAt
    <3> SUFFICES ASSUME NEW j \in Covered(s) PROVE j \in Covered(next)
      OBVIOUS
    <3>3. j \in Nat \ {0} /\ s.providerCursor <= j /\ j <= m
      BY <1>2, <1>5, <3>1
    <3> QED BY <1>5, <1>6, <1>7, <3>1, <3>2, <3>3
  <2> QED BY <2>1, <2>2
<1> QED BY <1>10, <1>11 DEF next, n

-----------------------------------------------------------------------------
(***************************************************************************)
(* Steps                                                                   *)
(***************************************************************************)
\* Comments are only ever published and stored.
Grows == published' \in Times /\ published <= published' /\ stored \subseteq stored'

\* What a request or the row holds stays sound.
LEMMA StillSound ==
    ASSUME CoverInv, Grows
    PROVE  /\ SoundAt(Unread, published', stored')
           /\ SoundAt(snapshot, published', stored')
           /\ \A c \in Clients : /\ SoundAt(state[c], published', stored')
                                 /\ SoundAt(expected[c], published', stored')
<1>1. /\ published \in Times /\ snapshot \in SnapshotStates
      /\ \A c \in Clients : state[c] \in SnapshotStates /\ expected[c] \in SnapshotStates
      /\ SoundAt(snapshot, published, stored)
      /\ \A c \in Clients : /\ SoundAt(state[c], published, stored)
                            /\ SoundAt(expected[c], published, stored)
  BY DEF CoverInv, Typed, TypeOK, RowSound, ClientSound, LocalsSound
<1> QED BY <1>1, SoundGrows, UnreadIsSound DEF Grows

\* A request that the step does not touch.
LEMMA Untouched ==
    ASSUME CoverInv, Grows, NEW d \in Clients,
           pc'[d] = pc[d], state'[d] = state[d], expected'[d] = expected[d],
           fetched'[d] = fetched[d]
    PROVE  ClientSound(d)'
<1>1. /\ Believes(d) /\ Holds(d)
      /\ published \in Times /\ fetched[d] \in FetchedPages
  BY DEF CoverInv, ClientSound, Typed, TypeOK, FetchedPages
<1>2. LocalsSound(d)'
  BY StillSound DEF LocalsSound
<1>3. pc[d] \in {"upsert", "save"} => JoinsAt(fetched[d], expected[d], published', stored')
  BY <1>1, JoinsGrows DEF Holds, Grows
<1>4. Believes(d)' /\ Holds(d)'
  BY <1>1, <1>3 DEF Believes, Holds, Grows
<1> QED BY <1>2, <1>4 DEF ClientSound

\* A request that has, or needs, no page any more.
LEMMA LetsGo ==
    ASSUME CoverInv, Grows, NEW d \in Clients, pc'[d] \notin Trusting,
           SoundAt(state'[d], published', stored'),
           expected'[d] \in {expected[d], Unread}
    PROVE  ClientSound(d)'
<1>1. LocalsSound(d)'
  BY StillSound DEF LocalsSound
<1>2. Believes(d)' /\ Holds(d)'
  BY DEF Believes, Holds, Trusting, Reading
<1> QED BY <1>1, <1>2 DEF ClientSound

\* However a request ends, or the hydration it runs.
LEMMA EndsSound ==
    ASSUME CoverInv, Grows, NEW c \in Clients
    PROVE  /\ Refuse(c) => \A d \in Clients : ClientSound(d)'
           /\ \A s : Answer(c, s) => \A d \in Clients : ClientSound(d)'
           /\ \A s : Settle(c, s) /\ SoundAt(s, published', stored') =>
                \A d \in Clients : ClientSound(d)'
           /\ Reject(c) => \A d \in Clients : ClientSound(d)'
<1>1. /\ pc \in [Clients -> {"idle", "ended"} \union Waiting]
      /\ state \in [Clients -> SnapshotStates]
      /\ expected \in [Clients -> SnapshotStates]
      /\ fetched \in [Clients -> FetchedPages]
  BY DEF CoverInv, Typed, TypeOK, FetchedPages
<1>2. "idle" \notin Trusting /\ "ended" \notin Trusting /\ "page" \notin Trusting
  BY DEF Trusting, Reading
<1>3. ASSUME Forget(c)
      PROVE  /\ state'[c] = Unread /\ expected'[c] = Unread
             /\ \A d \in Clients \ {c} : /\ state'[d] = state[d] /\ expected'[d] = expected[d]
                                         /\ fetched'[d] = fetched[d]
  BY <1>1, <1>3 DEF Forget
<1>4. ASSUME Forget(c), \E l \in {"idle", "ended"} : Goto(c, l), NEW d \in Clients
      PROVE  ClientSound(d)'
  <2>1. CASE d = c
    <3>1. pc'[d] \notin Trusting
      BY <1>1, <1>2, <1>4, <2>1 DEF Goto
    <3> QED BY <1>3, <1>4, <2>1, <3>1, StillSound, LetsGo
  <2>2. CASE d # c
    <3>1. pc'[d] = pc[d]
      BY <1>1, <1>4, <2>2 DEF Goto
    <3> QED BY <1>3, <1>4, <2>2, <3>1, Untouched
  <2> QED BY <2>1, <2>2
<1>5. ASSUME NEW s, Settle(c, s), SoundAt(s, published', stored'), NEW d \in Clients
      PROVE  ClientSound(d)'
  <2>1. /\ pc'[d] = IF d \in {c} \union Joiners(c) THEN "page" ELSE pc[d]
        /\ state'[d] = IF d \in {c} \union Joiners(c) THEN s ELSE state[d]
        /\ expected'[d] = expected[d] /\ fetched'[d] = fetched[d]
    BY <1>5 DEF Settle
  <2>2. CASE d \in {c} \union Joiners(c)
    BY <1>2, <1>5, <2>1, <2>2, LetsGo
  <2>3. CASE d \notin {c} \union Joiners(c)
    BY <2>1, <2>3, Untouched
  <2> QED BY <2>2, <2>3
<1>6. ASSUME Reject(c), NEW d \in Clients
      PROVE  ClientSound(d)'
  <2>1. /\ pc'[d] = IF d = c THEN "idle" ELSE IF d \in Joiners(c) THEN "page" ELSE pc[d]
        /\ Forget(c)
    BY <1>6 DEF Reject
  <2>2. CASE d = c
    BY <1>2, <1>3, <2>1, <2>2, StillSound, LetsGo
  <2>3. CASE d # c /\ d \in Joiners(c)
    BY <1>2, <1>3, <2>1, <2>3, StillSound, LetsGo
  <2>4. CASE d # c /\ d \notin Joiners(c)
    BY <1>3, <2>1, <2>4, Untouched
  <2> QED BY <2>2, <2>3, <2>4
<1> QED BY <1>4, <1>5, <1>6 DEF Refuse, Answer

\* A request that goes on with the locals it has.
LEMMA GoesOnSound ==
    ASSUME CoverInv, Grows, NEW c \in Clients, NEW l, Goto(c, l), UNCHANGED <<state, expected, fetched>>,
           ClientSound(c)'
    PROVE  \A d \in Clients : ClientSound(d)'
<1> SUFFICES ASSUME NEW d \in Clients, d # c PROVE ClientSound(d)'
  OBVIOUS
<1>1. pc'[d] = pc[d]
  BY DEF CoverInv, Typed, TypeOK, Goto
<1> QED BY <1>1, Untouched

\* The page a request is given joins on to what it believes the row holds.
LEMMA DeliverSound ==
    ASSUME CoverInv, Grows, NEW c \in Clients, NEW cursor \in {state[c].providerCursor, None},
           Deliver(c, cursor), pc[c] \in {"fetch", "restart"}, UNCHANGED <<published, stored>>,
           "rejected" \notin Faults => cursor = state[c].providerCursor
    PROVE  \A d \in Clients : ClientSound(d)'
<1>1. /\ TypeOK /\ LocalsSound(c) /\ Believes(c)
      /\ state[c] \in SnapshotStates /\ expected[c] \in SnapshotStates
      /\ pc \in [Clients -> {"idle", "ended"} \union Waiting]
      /\ fetched \in [Clients -> FetchedPages]
  BY DEF CoverInv, ClientSound, Typed, TypeOK, FetchedPages
<1> DEFINE page == [ items |-> ProviderPage(cursor),
                     began |-> IF cursor = None THEN published ELSE state[c].began,
                     storedAt |-> 0 ]
<1>2. JoinsAt(page, expected[c], published, stored)
  <2>1. state[c] = expected[c] \/ (expected[c].exhausted /\ state[c] = Unread)
    BY <1>1 DEF Believes, Trusting, Reading
  <2>2. /\ SoundAt(state[c], published, stored)
        /\ SoundAt(expected[c], published, stored)
    BY <1>1 DEF LocalsSound
  <2> HIDE DEF page
  <2>3. page = [ items |-> ProviderPage(cursor),
                 began |-> IF cursor = None THEN published ELSE state[c].began,
                 storedAt |-> 0 ]
    BY DEF page
  <2> QED BY <1>1, <2>1, <2>2, <2>3, PageJoins
<1>3. /\ fetched' = [fetched EXCEPT ![c] = page]
      /\ pc' = [pc EXCEPT ![c] = "upsert"]
      /\ UNCHANGED <<state, expected>>
  BY DEF Deliver, Goto
<1> HIDE DEF page
<1>4. ClientSound(c)'
  <2>1. fetched'[c] = page /\ pc'[c] = "upsert"
    BY <1>1, <1>3
  <2>2. Holds(c)'
    BY <1>2, <1>3, <2>1 DEF Holds
  <2>3. Believes(c)'
    BY <1>1, <1>3, <2>1 DEF Believes, Trusting, Reading
  <2>4. LocalsSound(c)'
    BY <1>1, <1>3 DEF LocalsSound
  <2> QED BY <2>2, <2>3, <2>4 DEF ClientSound
<1>5. ASSUME NEW d \in Clients, d # c
      PROVE  ClientSound(d)'
  <2>1. pc'[d] = pc[d] /\ fetched'[d] = fetched[d]
    BY <1>1, <1>3, <1>5
  <2> QED BY <1>3, <2>1, Untouched
<1> QED BY <1>4, <1>5

\* Once the upsert is acknowledged, what the page holds is in the table.
LEMMA UpsertSound ==
    ASSUME CoverInv, Grows, NEW c \in Clients, NEW out \in Database, Upsert(c, out)
    PROVE  \A d \in Clients : ClientSound(d)'
<1>1. /\ TypeOK /\ ClientSound(c)
      /\ pc \in [Clients -> {"idle", "ended"} \union Waiting]
      /\ fetched \in [Clients -> FetchedPages]
      /\ published \in Times
  BY DEF CoverInv, Typed, TypeOK, FetchedPages
<1>2. CASE out # "ok"
  BY <1>2, EndsSound DEF Upsert
<1>3. CASE out = "ok"
  <2>1. /\ pc[c] = "upsert" /\ pc' = [pc EXCEPT ![c] = "save"]
        /\ fetched' = [fetched EXCEPT ![c].storedAt = published]
        /\ stored' = stored \union fetched[c].items
        /\ UNCHANGED <<published, state, expected>>
    BY <1>3 DEF Upsert, Goto
  <2>2. /\ fetched'[c].items = fetched[c].items
        /\ fetched'[c].began = fetched[c].began
    BY <1>1, <2>1 DEF FetchedPages
  <2>3. Covered(NextState(fetched'[c])) = Covered(NextState(fetched[c]))
    BY <2>2 DEF NextState, Covered
  <2>4. JoinsAt(fetched[c], expected[c], published, stored)
    BY <1>1, <2>1 DEF ClientSound, Holds
  <2>5. JoinsAt(fetched'[c], expected[c], published, stored')
    BY <2>1, <2>2, <2>3, <2>4 DEF JoinsAt
  <2>6. ClientSound(c)'
    <3>1. pc'[c] = "save"
      BY <1>1, <2>1
    <3>2. Holds(c)'
      BY <2>1, <2>2, <2>5 DEF Holds
    <3>3. Believes(c)'
      BY <1>1, <2>1, <3>1 DEF ClientSound, Believes, Trusting, Reading
    <3>4. LocalsSound(c)'
      BY <2>1, StillSound DEF LocalsSound
    <3> QED BY <3>2, <3>3, <3>4 DEF ClientSound
  <2>7. ASSUME NEW d \in Clients, d # c
        PROVE  ClientSound(d)'
    <3>1. pc'[d] = pc[d] /\ fetched'[d] = fetched[d]
      BY <1>1, <2>1, <2>7
    <3> QED BY <2>1, <3>1, Untouched
  <2> QED BY <2>6, <2>7
<1> QED BY <1>2, <1>3

\* The write of the row is sound, whether it goes through, fails, or is lost to
\* another hydration; and the row gives up nothing it covered.
LEMMA SaveSound ==
    ASSUME CoverInv, Grows, NEW c \in Clients, NEW out \in Database, Save(c, out)
    PROVE  /\ RowSound'
           /\ \A d \in Clients : ClientSound(d)'
           /\ "rejected" \notin Faults /\ ~snapshot.exhausted =>
                Covered(snapshot) \subseteq Covered(snapshot')
<1> DEFINE next == Following(NextState(fetched[c]), snapshot)
<1>1. /\ TypeOK /\ ClientSound(c) /\ RowSound
      /\ pc \in [Clients -> {"idle", "ended"} \union Waiting]
      /\ state \in [Clients -> SnapshotStates]
      /\ expected \in [Clients -> SnapshotStates]
      /\ fetched \in [Clients -> FetchedPages]
      /\ published \in Times /\ snapshot \in SnapshotStates
  BY DEF CoverInv, Typed, TypeOK, FetchedPages
<1>2. /\ pc[c] = "save" /\ UNCHANGED <<published, stored>>
      /\ \/ Matches(c) /\ snapshot' = next /\ aged' = FALSE
         \/ UNCHANGED <<snapshot, aged>>
  BY DEF Save
<1>3. Matches(c) => /\ SoundAt(next, published, stored)
                    /\ "rejected" \notin Faults /\ ~snapshot.exhausted =>
                         Covered(snapshot) \subseteq Covered(next)
  <2>1. /\ JoinsAt(fetched[c], expected[c], published, stored)
        /\ fetched[c].items \subseteq stored
        /\ SoundAt(snapshot, published, stored)
        /\ fetched[c] \in FetchedPages /\ expected[c] \in SnapshotStates
    BY <1>1, <1>2 DEF ClientSound, Holds, RowSound
  <2>2. Matches(c) => /\ snapshot.providerCursor = expected[c].providerCursor
                      /\ snapshot.exhausted = expected[c].exhausted
    BY DEF Matches
  <2> QED BY <1>1, <2>1, <2>2, SavedIsSound
<1>4. \/ Reject(c)
      \/ /\ fetched' = [fetched EXCEPT ![c] = NoPage]
         /\ \/ /\ Matches(c) /\ Goto(c, "run")
               /\ state' = [state EXCEPT ![c] = next]
               /\ expected' = [expected EXCEPT ![c] = next]
            \/ Goto(c, "reread") /\ UNCHANGED <<state, expected>>
  BY DEF Save
<1> HIDE DEF next
<1>5. RowSound'
  BY <1>1, <1>2, <1>3 DEF RowSound
<1>6. "rejected" \notin Faults /\ ~snapshot.exhausted => Covered(snapshot) \subseteq Covered(snapshot')
  BY <1>2, <1>3
<1>7. CASE Reject(c)
  BY <1>5, <1>6, <1>7, EndsSound
<1>8. CASE /\ fetched' = [fetched EXCEPT ![c] = NoPage]
           /\ Matches(c) /\ Goto(c, "run")
           /\ state' = [state EXCEPT ![c] = next]
           /\ expected' = [expected EXCEPT ![c] = next]
  <2>1. pc'[c] = "run" /\ state'[c] = next /\ expected'[c] = next
    BY <1>1, <1>8 DEF Goto
  <2>2. ClientSound(c)'
    BY <1>2, <1>3, <1>8, <2>1 DEF ClientSound, LocalsSound, Believes, Holds
  <2>3. ASSUME NEW d \in Clients, d # c
        PROVE  ClientSound(d)'
    <3>1. /\ pc'[d] = pc[d] /\ fetched'[d] = fetched[d]
          /\ state'[d] = state[d] /\ expected'[d] = expected[d]
      BY <1>1, <1>8, <2>3 DEF Goto
    <3> QED BY <3>1, Untouched
  <2> QED BY <1>5, <1>6, <2>2, <2>3
<1>9. CASE /\ fetched' = [fetched EXCEPT ![c] = NoPage]
           /\ Goto(c, "reread") /\ UNCHANGED <<state, expected>>
  <2>1. pc'[c] \notin Trusting
    BY <1>1, <1>9 DEF Goto, Trusting, Reading
  <2>2. ClientSound(c)'
    BY <1>9, <2>1, StillSound, LetsGo
  <2>3. ASSUME NEW d \in Clients, d # c
        PROVE  ClientSound(d)'
    <3>1. pc'[d] = pc[d] /\ fetched'[d] = fetched[d]
      BY <1>1, <1>9, <2>3 DEF Goto
    <3> QED BY <1>9, <3>1, Untouched
  <2> QED BY <1>5, <1>6, <2>2, <2>3
<1> QED BY <1>4, <1>7, <1>8, <1>9

\* Every other step of a request leaves the row alone.
LEMMA StepSound ==
    ASSUME CoverInv, Grows, NEW c \in Clients, Step(c)
    PROVE  /\ RowSound'
           /\ \A d \in Clients : ClientSound(d)'
           /\ "rejected" \notin Faults /\ ~snapshot.exhausted =>
                Covered(snapshot) \subseteq Covered(snapshot')
<1>1. /\ TypeOK /\ ClientSound(c) /\ RowSound
      /\ pc \in [Clients -> {"idle", "ended"} \union Waiting]
      /\ expected \in [Clients -> SnapshotStates]
      /\ state \in [Clients -> SnapshotStates]
      /\ published \in Times /\ snapshot \in SnapshotStates
  BY DEF CoverInv, Typed, TypeOK
<1>2. UNCHANGED <<snapshot, aged>> => RowSound'
  BY <1>1, StillSound DEF RowSound
<1>3. ASSUME NEW out \in Database, Save(c, out)
      PROVE  /\ RowSound'
             /\ \A d \in Clients : ClientSound(d)'
             /\ "rejected" \notin Faults /\ ~snapshot.exhausted =>
                  Covered(snapshot) \subseteq Covered(snapshot')
  BY <1>3, SaveSound
<1>4. ASSUME NEW l \in {"join", "page", "reread"}, Goto(c, l), UNCHANGED requestVars
      PROVE  \A d \in Clients : ClientSound(d)'
  <2>1. pc'[c] \notin Trusting
    BY <1>1, <1>4 DEF Goto, Trusting, Reading
  <2>2. ClientSound(c)'
    BY <1>4, <2>1, StillSound, LetsGo DEF requestVars
  <2> QED BY <1>4, <2>2, GoesOnSound DEF requestVars
<1>5. ASSUME NEW l \in {"run", "fetch", "restart"}, Goto(c, l), UNCHANGED requestVars,
             pc[c] \in {"list", "run", "fetch"}, l = "restart" => "rejected" \in Faults
      PROVE  \A d \in Clients : ClientSound(d)'
  <2>1. pc'[c] = l /\ UNCHANGED <<state, expected, fetched>>
    BY <1>1, <1>5 DEF Goto, requestVars
  <2>2. Believes(c)' /\ Holds(c)'
    BY <1>1, <1>5, <2>1 DEF ClientSound, Believes, Holds, Trusting, Reading
  <2>3. LocalsSound(c)'
    BY <2>1, StillSound DEF LocalsSound
  <2> QED BY <1>5, <2>1, <2>2, <2>3, GoesOnSound DEF ClientSound
<1>6. CASE Fetch(c)
  BY <1>2, <1>6, DeliverSound DEF Fetch
<1>7. CASE CursorRejected(c)
  BY <1>2, <1>5, <1>7 DEF CursorRejected
<1>8. CASE Restart(c)
  <2>1. "rejected" \in Faults
    BY <1>1, <1>8 DEF Restart, ClientSound, Believes
  <2> QED BY <1>2, <1>8, <2>1, DeliverSound DEF Restart
<1>9. CASE FetchFails(c)
  BY <1>2, <1>9, EndsSound DEF FetchFails
<1>10. CASE JoinTimesOut(c)
  BY <1>2, <1>4, <1>10 DEF JoinTimesOut
<1>11. ASSUME NEW out \in Database, FindPost(c, out)
       PROVE  RowSound' /\ (\A d \in Clients : ClientSound(d)') /\ UNCHANGED snapshot
  <2>1. CASE Refuse(c)
    BY <1>2, <1>11, <2>1, EndsSound DEF FindPost
  <2>2. CASE ~Refuse(c)
    <3>1. /\ pc' = [pc EXCEPT ![c] = "list"]
          /\ expected' = [expected EXCEPT ![c] = snapshot]
          /\ state' = [state EXCEPT ![c] = IF aged THEN Unread ELSE snapshot]
          /\ UNCHANGED <<published, stored, snapshot, aged, fetched>>
      BY <1>11, <2>2 DEF FindPost, Goto
    <3>2. pc'[c] = "list" /\ expected'[c] = snapshot /\ state'[c] = IF aged THEN Unread ELSE snapshot
      BY <1>1, <3>1
    <3>3. ClientSound(c)'
      <4>1. LocalsSound(c)'
        BY <3>2, StillSound DEF LocalsSound
      <4>2. Believes(c)' /\ Holds(c)'
        BY <1>1, <3>2 DEF RowSound, Believes, Holds
      <4> QED BY <4>1, <4>2 DEF ClientSound
    <3>4. ASSUME NEW d \in Clients, d # c
          PROVE  ClientSound(d)'
      <4>1. /\ pc'[d] = pc[d] /\ state'[d] = state[d] /\ expected'[d] = expected[d]
            /\ fetched'[d] = fetched[d]
        BY <1>1, <3>1, <3>4
      <4> QED BY <4>1, Untouched
    <3> QED BY <1>2, <3>1, <3>3, <3>4
  <2> QED BY <2>1, <2>2
<1>12. ASSUME NEW out \in Database, ListPage(c, out)
       PROVE  RowSound' /\ (\A d \in Clients : ClientSound(d)') /\ UNCHANGED snapshot
  <2>1. UNCHANGED <<snapshot, aged>> /\ pc[c] = "list"
    BY <1>12 DEF ListPage
  <2>2. \/ Refuse(c) \/ Answer(c, state[c])
        \/ ((\E l \in {"join", "run"} : Goto(c, l)) /\ UNCHANGED requestVars)
    BY <1>12 DEF ListPage
  <2> QED BY <1>2, <1>4, <1>5, <2>1, <2>2, EndsSound
<1>13. ASSUME NEW out \in Database, Run(c, out)
       PROVE  RowSound' /\ (\A d \in Clients : ClientSound(d)') /\ UNCHANGED snapshot
  <2>1. UNCHANGED <<snapshot, aged>> /\ pc[c] = "run"
    BY <1>13 DEF Run
  <2>2. \/ Reject(c) \/ Settle(c, state[c])
        \/ (Goto(c, "fetch") /\ UNCHANGED requestVars)
    BY <1>13 DEF Run
  <2>3. SoundAt(state[c], published', stored')
    BY StillSound
  <2> QED BY <1>2, <1>5, <2>1, <2>2, <2>3, EndsSound
<1>14. ASSUME NEW out \in Database, Upsert(c, out)
       PROVE  RowSound' /\ (\A d \in Clients : ClientSound(d)') /\ UNCHANGED snapshot
  BY <1>2, <1>14, UpsertSound DEF Upsert
<1>15. ASSUME NEW out \in Database, Reread(c, out)
       PROVE  RowSound' /\ (\A d \in Clients : ClientSound(d)') /\ UNCHANGED snapshot
  BY <1>2, <1>15, StillSound, EndsSound DEF Reread
<1>16. ASSUME NEW out \in Database, ReadPage(c, out)
       PROVE  RowSound' /\ (\A d \in Clients : ClientSound(d)') /\ UNCHANGED snapshot
  BY <1>2, <1>16, EndsSound DEF ReadPage
<1>17. UNCHANGED snapshot \/ \E out \in Database : Save(c, out)
  BY <1>11, <1>12, <1>13, <1>14, <1>15, <1>16
     DEF Step, Fetch, CursorRejected, Restart, FetchFails, JoinTimesOut
<1>18. RowSound' /\ \A d \in Clients : ClientSound(d)'
  BY <1>3, <1>6, <1>7, <1>8, <1>9, <1>10, <1>11, <1>12, <1>13, <1>14, <1>15, <1>16 DEF Step
<1> QED BY <1>3, <1>17, <1>18

\* Every step keeps the invariant, and one that does not follow a rejected
\* cursor gives up nothing an incomplete row covered.
LEMMA NextSound ==
    ASSUME CoverInv, [Next]_vars
    PROVE  /\ CoverInv'
           /\ "rejected" \notin Faults /\ ~snapshot.exhausted =>
                Covered(snapshot) \subseteq Covered(snapshot')
<1> DEFINE Kept == "rejected" \notin Faults /\ ~snapshot.exhausted =>
                     Covered(snapshot) \subseteq Covered(snapshot')
<1>1. /\ Typed /\ Typed' /\ TypeOK /\ RowSound
      /\ pc \in [Clients -> {"idle", "ended"} \union Waiting]
  BY NextTypes DEF CoverInv, Typed, TypeOK
<1>2. Grows
  <2>1. published \in Nat /\ published' \in Times
    BY <1>1, ConstantTypes DEF Typed, TypeOK, Times
  <2>2. published' \in {published, published + 1}
    BY DEF Next, Step, vars, Begin, FindPost, ListPage, Run, Fetch, CursorRejected, Restart,
           FetchFails, Upsert, Save, Reread, JoinTimesOut, ReadPage, NewRun, Publish, Age, Crash
  <2>3. stored \subseteq stored'
    BY DEF Next, Step, vars, Begin, FindPost, ListPage, Run, Fetch, CursorRejected, Restart,
           FetchFails, Upsert, Save, Reread, JoinTimesOut, ReadPage, NewRun, Publish, Age, Crash
  <2> QED BY <2>1, <2>2, <2>3 DEF Grows
<1>3. ASSUME UNCHANGED snapshot, aged' => aged \/ snapshot.exhausted
      PROVE  RowSound' /\ Kept
  BY <1>1, <1>2, <1>3, StillSound DEF RowSound
<1>4. ASSUME NEW c \in Clients, Step(c)
      PROVE  RowSound' /\ Kept /\ \A d \in Clients : ClientSound(d)'
  BY <1>2, <1>4, StepSound
<1>5. ASSUME NEW c \in Clients, NEW l \in {"find", "idle"}, Goto(c, l),
             UNCHANGED <<snapshot, aged, state, expected, fetched>>
      PROVE  RowSound' /\ Kept /\ \A d \in Clients : ClientSound(d)'
  <2>1. pc'[c] \notin Trusting
    BY <1>1, <1>5 DEF Goto, Trusting, Reading
  <2>2. ClientSound(c)'
    BY <1>2, <1>5, <2>1, StillSound, LetsGo
  <2> QED BY <1>2, <1>3, <1>5, <2>2, GoesOnSound
<1>6. ASSUME NEW c \in Clients, NEW p \in Processes, Begin(c, p)
      PROVE  RowSound' /\ Kept /\ \A d \in Clients : ClientSound(d)'
  BY <1>5, <1>6 DEF Begin
<1>7. ASSUME NEW c \in Clients, NewRun(c)
      PROVE  RowSound' /\ Kept /\ \A d \in Clients : ClientSound(d)'
  BY <1>5, <1>7 DEF NewRun, requestVars
<1>8. ASSUME NEW p \in Processes, Crash(p)
      PROVE  RowSound' /\ Kept /\ \A d \in Clients : ClientSound(d)'
  <2> DEFINE lost == {c \in Clients : at[c] = p /\ pc[c] \in Waiting}
  <2>1. UNCHANGED <<snapshot, aged>>
    BY <1>8 DEF Crash
  <2>2. ASSUME NEW d \in Clients
        PROVE  ClientSound(d)'
    <3>1. /\ pc'[d] = IF d \in lost THEN "idle" ELSE pc[d]
          /\ state'[d] = IF d \in lost THEN Unread ELSE state[d]
          /\ expected'[d] = IF d \in lost THEN Unread ELSE expected[d]
          /\ fetched'[d] = IF d \in lost THEN NoPage ELSE fetched[d]
      BY <1>8 DEF Crash
    <3> HIDE DEF lost
    <3>2. CASE d \in lost
      <4>1. "idle" \notin Trusting
        BY DEF Trusting, Reading
      <4> QED BY <1>2, <3>1, <3>2, <4>1, StillSound, LetsGo
    <3>3. CASE d \notin lost
      BY <1>2, <3>1, <3>3, Untouched
    <3> QED BY <3>2, <3>3
  <2> QED BY <1>3, <2>1, <2>2
<1>9. CASE Publish \/ Age \/ UNCHANGED vars
  <2>1. /\ UNCHANGED <<snapshot, pc, state, expected, fetched>>
        /\ aged' => aged \/ snapshot.exhausted
    BY <1>9 DEF Publish, Age, vars, requestVars
  <2>2. \A d \in Clients : ClientSound(d)'
    BY <1>2, <2>1, Untouched
  <2>3. RowSound' /\ Kept
    BY <1>3, <2>1
  <2> QED BY <1>1, <2>2, <2>3 DEF CoverInv
<1> QED BY <1>1, <1>4, <1>6, <1>7, <1>8, <1>9 DEF Next, CoverInv

\* A post that was never read vouches for nothing.
LEMMA InitSound == Init => CoverInv
<1> SUFFICES ASSUME Init PROVE CoverInv
  OBVIOUS
<1>1. Typed /\ published \in Times
  BY InitTypes DEF Typed, TypeOK
<1>2. SoundAt(Unread, published, stored)
  BY <1>1, UnreadIsSound
<1>3. RowSound
  BY <1>2 DEF Init, RowSound
<1>4. ASSUME NEW c \in Clients
      PROVE  ClientSound(c)
  BY <1>2 DEF Init, ClientSound, LocalsSound, Believes, Holds, Trusting, Reading
<1> QED BY <1>1, <1>3, <1>4 DEF CoverInv

\* The row of a post, and the state a request works from, vouch for no comment
\* that is not in the table, whatever fails between storing a page and counting
\* it as read (hydrate), and whoever hydrates the post meanwhile.
THEOREM StoredBeforeCounted == Spec => []CoveredIsStored
<1>1. CoverInv => CoveredIsStored
  BY DEF CoverInv, CoveredIsStored, RowSound, ClientSound, LocalsSound, SoundAt
<1> QED BY <1>1, InitSound, NextSound, PTL DEF Spec

\* On a platform that honours its cursors, an incomplete snapshot keeps what it
\* has read, however many hydrations race to write it (saveSnapshotState).
THEOREM NothingReadAgain == "rejected" \notin Faults => (Spec => SnapshotMovesForward)
<1> SUFFICES ASSUME "rejected" \notin Faults PROVE Spec => SnapshotMovesForward
  OBVIOUS
<1>1. CoverInv /\ [Next]_vars => [~snapshot.exhausted => Covered(snapshot) \subseteq Covered(snapshot')]_vars
  BY NextSound
<1> QED BY <1>1, InitSound, NextSound, PTL DEF Spec, SnapshotMovesForward
=============================================================================
