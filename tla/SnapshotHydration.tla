------------------------- MODULE SnapshotHydration -------------------------
(***************************************************************************)
(* CommentService.listComments: pages of a post's comments, served from    *)
(* the database and completed from the platform.                           *)
(*                                                                         *)
(* Clients follow cursors through pagination runs, one request at a time;  *)
(* requests of different clients run concurrently, on any replica.  There  *)
(* is one action per awaited call: it performs the call and the handler's  *)
(* code up to the next await.  pc[c] names the call c's request awaits.    *)
(*                                                                         *)
(* Comments are numbered in the order of their publication, which is the   *)
(* order of the keyset a page is read by.  The platform returns the newest *)
(* first.  The clock is the number of comments published so far.           *)
(***************************************************************************)
EXTENDS FiniteSetsExt

CONSTANTS
    Clients,
    Processes,              \* replicas of the service
    None,                   \* null
    MaxComments,            \* bound: comments ever published on the post
    Limit,                  \* comments per page served
    ProviderPageLimit,      \* comments per page the platform returns
    MaxHydrations,          \* MAX_HYDRATIONS_PER_REQUEST
    Faults,                 \* what may go wrong
    MayAge                  \* may a completed snapshot outlive its lifetime?

ASSUME BoundsAssumption ==
    /\ MaxComments \in Nat
    /\ {Limit, ProviderPageLimit, MaxHydrations} \subseteq Nat \ {0}

ASSUME NoneAssumption == None \notin Nat \union Clients \union Processes

ASSUME FaultsAssumption ==
    /\ Faults \subseteq {"provider", "rejected", "database", "crash"}
    /\ MayAge \in BOOLEAN

VARIABLES
    published,  \* comments on the platform: 1 .. published
    stored,     \* the comments table
    snapshot,   \* the snapshot state in the post's row
    aged,       \* is the completed snapshot past its lifetime?
    inFlight,   \* who hydrates the post, per process
    pc, at,     \* the call each client's request awaits, and its process
    state,      \* the snapshot state the request works from
    expected,   \* what it believes the post's row holds
    fetched,    \* the platform page it holds
    hydrations, \* how many platform pages it has read
    after,      \* the client's cursor: position, 0 for null ...
    partialRun, \* ... and whether its run is partial
    got,        \* the comments the client's run has received
    vouched,    \* what the snapshot of its last answer stood for
    syncedAt    \* as of the client's last answer

requestVars == <<at, state, expected, fetched, hydrations>>
clientVars == <<after, partialRun, got, vouched, syncedAt>>
vars == <<published, stored, snapshot, aged, inFlight, pc, requestVars, clientVars>>

-----------------------------------------------------------------------------
Comments == 1 .. MaxComments

Times == 0 .. MaxComments

\* PostSnapshotState.  began is not in the code: it is the time at which the
\* walk through the platform's stream began that this state is the result of.
SnapshotStates ==
    [ providerCursor : Comments \union {None},
      exhausted : BOOLEAN,
      completedAt : Times \union {None},
      began : Times ]

Unread == [providerCursor |-> None, exhausted |-> FALSE, completedAt |-> None, began |-> 0]

\* The comments that a snapshot in this state is supposed to hold.
Covered(s) ==
    IF s.exhausted THEN 1 .. s.began
    ELSE IF s.providerCursor = None THEN {} ELSE s.providerCursor .. s.began

\* A page the platform returned, and when it had been stored.
NoPage == [items |-> {}, began |-> 0, storedAt |-> 0]

\* The n oldest and the n newest of a set of comments.
Oldest(n, S) == {i \in S : Cardinality({j \in S : j < i}) < n}
Newest(n, S) == {i \in S : Cardinality({j \in S : j > i}) < n}

\* A page of the platform: the newest comments before the cursor, which is the
\* last comment delivered.
ProviderPage(cursor) ==
    Newest(ProviderPageLimit, {i \in 1 .. published : cursor # None => i < cursor})

\* listByPost, and whether it found one row too many.
Page(a) == Oldest(Limit, {i \in stored : i > a})
PageHasMore(a) == {i \in stored : i > a} # Page(a)

\* What hydrate makes of a page once it is stored.
NextStateForgetful(page) ==                                         \* mutant
    [ providerCursor |-> None,
      exhausted |-> 1 \in page.items,
      completedAt |-> IF 1 \in page.items THEN page.storedAt ELSE None,
      began |-> page.began ]
NextState(page) ==
    IF page.items # {} /\ 1 \notin page.items
    THEN [ providerCursor |-> Min(page.items), exhausted |-> FALSE,
           completedAt |-> None, began |-> page.began ]
    ELSE [ providerCursor |-> None, exhausted |-> TRUE,
           completedAt |-> page.storedAt, began |-> page.began ]

StartingRun(c) == after[c] = 0

NeedsHydration(c, s) ==
    ~s.exhausted /\ (StartingRun(c) \/ Cardinality(Page(after[c])) < Limit)

BudgetUnlimited(c) == TRUE                                          \* mutant
BudgetLeft(c) == hydrations[c] < MaxHydrations

Uncounted(c) == hydrations[c]                                       \* mutant
Counted(c) == hydrations[c] + 1

\* The pcs of a request that runs the hydration of its process.
Hydrating == {"run", "fetch", "restart", "upsert", "save", "reread"}

Waiting == {"find", "list", "join", "page"} \union Hydrating

Database == IF "database" \in Faults THEN {"ok", "failed", "unacknowledged"} ELSE {"ok"}

-----------------------------------------------------------------------------
\* A client starts with no cursor, on a post that was never read.
Init ==
    /\ published = 0
    /\ stored = {}
    /\ snapshot = Unread
    /\ aged = FALSE
    /\ inFlight = [p \in Processes |-> None]
    /\ pc = [c \in Clients |-> "idle"]
    /\ at = [c \in Clients |-> None]
    /\ state = [c \in Clients |-> Unread]
    /\ expected = [c \in Clients |-> Unread]
    /\ fetched = [c \in Clients |-> NoPage]
    /\ hydrations = [c \in Clients |-> 0]
    /\ after = [c \in Clients |-> 0]
    /\ partialRun = [c \in Clients |-> FALSE]
    /\ got = [c \in Clients |-> {}]
    /\ vouched = [c \in Clients |-> 0]
    /\ syncedAt = [c \in Clients |-> None]

\* The locals of a request are gone with it.
Forget(c) ==
    /\ state' = [state EXCEPT ![c] = Unread]
    /\ expected' = [expected EXCEPT ![c] = Unread]
    /\ fetched' = [fetched EXCEPT ![c] = NoPage]
    /\ hydrations' = [hydrations EXCEPT ![c] = 0]
    /\ at' = [at EXCEPT ![c] = None]

Goto(c, l) == pc' = [pc EXCEPT ![c] = l]

\* The request ends in an error, and the client keeps its cursor.
Refuse(c) == Goto(c, "idle") /\ Forget(c) /\ UNCHANGED <<inFlight, clientVars>>

\* A run is partial when it began over an incomplete snapshot; the cursor
\* carries that along.
PartialRunNow(c, s) == ~s.exhausted                                 \* mutant
PartialRun(c, s) == IF StartingRun(c) THEN ~s.exhausted ELSE partialRun[c]

\* The request ends with the page read now.
Answer(c, s) ==
    LET items == Page(after[c])
        hasMore == PageHasMore(after[c]) \/ ~s.exhausted
    IN  /\ Goto(c, IF hasMore THEN "idle" ELSE "ended")
        /\ after' = [after EXCEPT ![c] = IF items = {} THEN @ ELSE Max(items)]
        /\ partialRun' = [partialRun EXCEPT ![c] = PartialRun(c, s)]
        /\ got' = [got EXCEPT ![c] = @ \union items]
        /\ vouched' = [vouched EXCEPT ![c] = s.began]
        /\ syncedAt' = [syncedAt EXCEPT ![c] = IF PartialRun(c, s) THEN None ELSE s.completedAt]
        /\ Forget(c)
        /\ UNCHANGED inFlight

-----------------------------------------------------------------------------
\* The client asks for the next page of its run, of whichever replica.
Begin(c, p) ==
    /\ pc[c] = "idle"
    /\ Goto(c, "find")
    /\ at' = [at EXCEPT ![c] = p]
    /\ UNCHANGED <<published, stored, snapshot, aged, inFlight, state, expected, fetched,
                   hydrations, clientVars>>

\* A completed snapshot past its lifetime is read as one that was never read;
\* a later write still compares with what the row holds.
FindPost(c, out) ==
    /\ pc[c] = "find"
    /\ IF out # "ok" THEN Refuse(c)
       ELSE /\ Goto(c, "list")
            /\ expected' = [expected EXCEPT ![c] = snapshot]
            /\ state' = [state EXCEPT ![c] = IF aged THEN Unread ELSE snapshot]
            /\ UNCHANGED <<inFlight, at, fetched, hydrations, clientVars>>
    /\ UNCHANGED <<published, stored, snapshot, aged>>

\* The page decides whether to hydrate; who hydrates, and who joins, is decided
\* with nothing awaited in between.
InFlight(c) == inFlight[at[c]] # None

ListPage(c, out) ==
    /\ pc[c] = "list"
    /\ \/ out # "ok" /\ Refuse(c)
       \/ out = "ok" /\ ~NeedsHydration(c, state[c]) /\ Answer(c, state[c])
       \/ /\ out = "ok" /\ NeedsHydration(c, state[c])
          /\ \/ InFlight(c) /\ Goto(c, "join") /\ UNCHANGED inFlight
             \/ /\ ~InFlight(c)
                /\ inFlight' = [inFlight EXCEPT ![at[c]] = c]
                /\ Goto(c, "run")
          /\ UNCHANGED <<requestVars, clientVars>>
    /\ UNCHANGED <<published, stored, snapshot, aged>>

-----------------------------------------------------------------------------
\* The joiners of the hydration that c runs.
JoinersForgotten(c) == {}                                           \* mutant
Joiners(c) == {d \in Clients : pc[d] = "join" /\ at[d] = at[c]}

\* The hydration is over: it leaves the map, and c and the joiners go on with
\* the state it reached.
Settle(c, s) ==
    LET heard == {c} \union Joiners(c)
    IN  /\ inFlight' = [inFlight EXCEPT ![at[c]] = None]
        /\ pc' = [d \in Clients |-> IF d \in heard THEN "page" ELSE pc[d]]
        /\ state' = [d \in Clients |-> IF d \in heard THEN s ELSE state[d]]
        /\ UNCHANGED <<at, expected, fetched, hydrations, clientVars>>

\* The hydration failed: the failure is its own request's, and the joiners go
\* on with what they had.
Reject(c) ==
    /\ inFlight' = [inFlight EXCEPT ![at[c]] = None]
    /\ pc' = [d \in Clients |-> IF d = c THEN "idle"
                                ELSE IF d \in Joiners(c) THEN "page" ELSE pc[d]]
    /\ Forget(c)
    /\ UNCHANGED clientVars

\* The head of runHydration's loop.
Run(c, out) ==
    /\ pc[c] = "run"
    /\ \/ out # "ok" /\ Reject(c)
       \/ /\ out = "ok" /\ NeedsHydration(c, state[c]) /\ BudgetLeft(c)
          /\ Goto(c, "fetch")
          /\ UNCHANGED <<inFlight, requestVars, clientVars>>
       \/ /\ out = "ok" /\ ~(NeedsHydration(c, state[c]) /\ BudgetLeft(c))
          /\ Settle(c, state[c])
    /\ UNCHANGED <<published, stored, snapshot, aged>>

\* A page arrives.  A walk begins with the page that has no cursor.
Deliver(c, cursor) ==
    /\ fetched' = [fetched EXCEPT ![c] =
                     [ items |-> ProviderPage(cursor),
                       began |-> IF cursor = None THEN published ELSE state[c].began,
                       storedAt |-> 0 ]]
    /\ Goto(c, "upsert")
    /\ UNCHANGED <<inFlight, at, state, expected, hydrations, clientVars>>

Fetch(c) ==
    /\ pc[c] = "fetch"
    /\ Deliver(c, state[c].providerCursor)
    /\ UNCHANGED <<published, stored, snapshot, aged>>

\* The platform no longer knows the cursor: the stream is read from the start.
CursorRejected(c) ==
    /\ "rejected" \in Faults
    /\ pc[c] = "fetch"
    /\ state[c].providerCursor # None
    /\ Goto(c, "restart")
    /\ UNCHANGED <<published, stored, snapshot, aged, inFlight, requestVars, clientVars>>

Restart(c) ==
    /\ pc[c] = "restart"
    /\ Deliver(c, None)
    /\ UNCHANGED <<published, stored, snapshot, aged>>

FetchFails(c) ==
    /\ "provider" \in Faults
    /\ pc[c] \in {"fetch", "restart"}
    /\ Reject(c)
    /\ UNCHANGED <<published, stored, snapshot, aged>>

\* upsertMany, which an empty page does without.
UpsertSkipped(c, out) ==                                            \* mutant
    /\ pc[c] = "upsert"
    /\ Goto(c, "save")
    /\ UNCHANGED <<published, stored, snapshot, aged, inFlight, requestVars, clientVars>>
Upsert(c, out) ==
    /\ pc[c] = "upsert"
    /\ fetched[c].items = {} => out = "ok"
    /\ stored' = IF out = "failed" THEN stored ELSE stored \union fetched[c].items
    /\ IF out # "ok" THEN Reject(c)
       ELSE /\ Goto(c, "save")
            /\ fetched' = [fetched EXCEPT ![c].storedAt = published]
            /\ UNCHANGED <<inFlight, at, state, expected, hydrations, clientVars>>
    /\ UNCHANGED <<published, snapshot, aged>>

\* saveSnapshotState: the write goes through only if the row still holds what
\* the request believes it holds.  completedAt is not compared.
MatchesUnguarded(c) == TRUE                                         \* mutant
Matches(c) ==
    /\ snapshot.providerCursor = expected[c].providerCursor
    /\ snapshot.exhausted = expected[c].exhausted

\* A state that follows on another one vouches for what either vouched for.
Following(s, previous) == [s EXCEPT !.began = Max({s.began, previous.began})]

Save(c, out) ==
    LET next == Following(NextState(fetched[c]), snapshot)
    IN  /\ pc[c] = "save"
        /\ IF Matches(c) /\ out # "failed"
           THEN snapshot' = next /\ aged' = FALSE
           ELSE UNCHANGED <<snapshot, aged>>
        /\ IF out # "ok" THEN Reject(c)
           ELSE /\ hydrations' = [hydrations EXCEPT ![c] = Counted(c)]
                /\ fetched' = [fetched EXCEPT ![c] = NoPage]
                /\ IF Matches(c)
                   THEN /\ Goto(c, "run")
                        /\ state' = [state EXCEPT ![c] = next]
                        /\ expected' = [expected EXCEPT ![c] = next]
                   ELSE Goto(c, "reread") /\ UNCHANGED <<state, expected>>
                /\ UNCHANGED <<inFlight, at, clientVars>>
        /\ UNCHANGED <<published, stored>>

\* Someone else was first: take the state they reached, and stop.
Reread(c, out) ==
    /\ pc[c] = "reread"
    /\ IF out = "ok" THEN Settle(c, snapshot) ELSE Reject(c)
    /\ UNCHANGED <<published, stored, snapshot, aged>>

\* A joiner waits only so long, and then goes on with what it had.
JoinTimesOut(c) ==
    /\ pc[c] = "join"
    /\ Goto(c, "page")
    /\ UNCHANGED <<published, stored, snapshot, aged, inFlight, requestVars, clientVars>>

\* The page is read again after the hydration, and answered.
ReadPage(c, out) ==
    /\ pc[c] = "page"
    /\ IF out = "ok" THEN Answer(c, state[c]) ELSE Refuse(c)
    /\ UNCHANGED <<published, stored, snapshot, aged>>

-----------------------------------------------------------------------------
\* The client starts another run.
NewRun(c) ==
    /\ pc[c] = "ended"
    /\ Goto(c, "idle")
    /\ after' = [after EXCEPT ![c] = 0]
    /\ partialRun' = [partialRun EXCEPT ![c] = FALSE]
    /\ got' = [got EXCEPT ![c] = {}]
    /\ vouched' = [vouched EXCEPT ![c] = 0]
    /\ syncedAt' = [syncedAt EXCEPT ![c] = None]
    /\ UNCHANGED <<published, stored, snapshot, aged, inFlight, requestVars>>

\* Someone comments on the platform.
Publish ==
    /\ published < MaxComments
    /\ published' = published + 1
    /\ UNCHANGED <<stored, snapshot, aged, inFlight, pc, requestVars, clientVars>>

\* The completed snapshot outlives its lifetime.
Age ==
    /\ MayAge
    /\ snapshot.exhausted /\ ~aged
    /\ aged' = TRUE
    /\ UNCHANGED <<published, stored, snapshot, inFlight, pc, requestVars, clientVars>>

\* A process dies with the requests it runs; their clients keep their cursors.
Crash(p) ==
    LET lost == {c \in Clients : at[c] = p /\ pc[c] \in Waiting}
    IN  /\ "crash" \in Faults
        /\ lost # {}
        /\ inFlight' = [inFlight EXCEPT ![p] = None]
        /\ pc' = [c \in Clients |-> IF c \in lost THEN "idle" ELSE pc[c]]
        /\ state' = [c \in Clients |-> IF c \in lost THEN Unread ELSE state[c]]
        /\ expected' = [c \in Clients |-> IF c \in lost THEN Unread ELSE expected[c]]
        /\ fetched' = [c \in Clients |-> IF c \in lost THEN NoPage ELSE fetched[c]]
        /\ hydrations' = [c \in Clients |-> IF c \in lost THEN 0 ELSE hydrations[c]]
        /\ at' = [c \in Clients |-> IF c \in lost THEN None ELSE at[c]]
        /\ UNCHANGED <<published, stored, snapshot, aged, clientVars>>

\* One step of the request of c.
Step(c) ==
    \/ Fetch(c) \/ CursorRejected(c) \/ Restart(c) \/ FetchFails(c) \/ JoinTimesOut(c)
    \/ \E out \in Database :
         \/ FindPost(c, out) \/ ListPage(c, out) \/ Run(c, out) \/ Upsert(c, out)
         \/ Save(c, out) \/ Reread(c, out) \/ ReadPage(c, out)

Next ==
    \/ \E c \in Clients : (\E p \in Processes : Begin(c, p)) \/ Step(c) \/ NewRun(c)
    \/ \E p \in Processes : Crash(p)
    \/ Publish \/ Age

Spec == Init /\ [][Next]_vars

\* Every await of a request that is not killed settles: database and provider
\* calls have timeouts, and so has joining.
ServedSpec == Spec /\ \A c \in Clients : WF_vars(Step(c))

\* Clients that follow their cursors, and start again at the end.
PersistentSpec ==
    /\ ServedSpec
    /\ \A c \in Clients :
         WF_vars((\E p \in Processes : Begin(c, p)) \/ NewRun(c))

-----------------------------------------------------------------------------
\* Every variable has its type (PostSnapshotState, ListCommentsResult, and the
\* locals of listComments and runHydration).
TypeOK ==
    /\ published \in Times
    /\ stored \subseteq Comments
    /\ snapshot \in SnapshotStates
    /\ aged \in BOOLEAN
    /\ inFlight \in [Processes -> Clients \union {None}]
    /\ pc \in [Clients -> {"idle", "ended"} \union Waiting]
    /\ at \in [Clients -> Processes \union {None}]
    /\ state \in [Clients -> SnapshotStates]
    /\ expected \in [Clients -> SnapshotStates]
    /\ fetched \in [Clients -> [items : SUBSET Comments, began : Times, storedAt : Times]]
    /\ hydrations \in [Clients -> 0 .. MaxHydrations]
    /\ after \in [Clients -> Times]
    /\ partialRun \in [Clients -> BOOLEAN]
    /\ got \in [Clients -> SUBSET Comments]
    /\ vouched \in [Clients -> Times]
    /\ syncedAt \in [Clients -> Times \union {None}]

\* The row of a post, and the state a request works from, never claim a comment
\* that is not in the table: a page is stored before the state that counts it
\* as read, whatever fails in between and however many hydrations interleave.
CoveredIsStored ==
    /\ Covered(snapshot) \subseteq stored
    /\ \A c \in Clients : Covered(state[c]) \subseteq stored

\* A run that ends with syncedAt has returned every comment the snapshot it
\* ended over stood for, as long as no snapshot goes stale: whoever hydrated
\* it, and whatever failed on the way (the partialRun flag of the cursor, and
\* hasMore).
CompleteRunSawEverything ==
    \A c \in Clients :
        pc[c] = "ended" /\ syncedAt[c] # None => 1 .. vouched[c] \subseteq got[c]

\* A process reads a post from the platform once at a time, the map of running
\* hydrations says who does, and nobody waits for one that is over.
SingleFlight ==
    /\ \A c \in Clients : pc[c] \in Hydrating => inFlight[at[c]] = c
    /\ \A p \in Processes :
         inFlight[p] # None => pc[inFlight[p]] \in Hydrating /\ at[inFlight[p]] = p
    /\ \A c \in Clients : pc[c] = "join" => inFlight[at[c]] # None

\* The platform's stream is not read again by an incomplete snapshot: unless the
\* platform rejects a cursor, a write never gives up what it has read
\* (saveSnapshotState's compare-and-set, against concurrent hydrations).
SnapshotMovesForward ==
    [][~snapshot.exhausted => Covered(snapshot) \subseteq Covered(snapshot')]_vars

\* A read ends, whatever the platform answers: hydration has a budget.
EveryReadEnds ==
    \A c \in Clients : pc[c] = "find" ~> pc[c] \in {"idle", "ended"}

\* Once snapshots no longer go stale and the platform no longer rejects a
\* cursor, a client that follows its cursors, and starts again when a run ended
\* on null, comes to a run that ends with syncedAt, and does so again and again.
PartialRunsConverge ==
    <>[](~aged /\ \A c \in Clients : pc[c] # "restart")
      => \A c \in Clients : []<>(pc[c] = "ended" /\ syncedAt[c] # None)

-----------------------------------------------------------------------------
(***************************************************************************)
(* Reading a post keeps what it promises.                                  *)
(***************************************************************************)
Seen(s) == [covers |-> Covered(s), complete |-> s.exhausted, completedAt |-> s.completedAt]

runOf ==
    [c \in Clients |->
       [ended |-> pc[c] = "ended", after |-> after[c], partialRun |-> partialRun[c],
        got |-> got[c], syncedAt |-> syncedAt[c]]]

Contract == INSTANCE ReadContract WITH
    MayRestart <- "rejected" \in Faults, row <- Seen(snapshot), reader <- runOf

\* To its clients, reading is a sequence of answers that are each given at one
\* moment: hydrations that are shared, fail, time out, overtake each other or
\* die with their process are not to be seen in what a run returns and is told.
ImplementsContract == Contract!ContractSpec
=============================================================================
