---------------------------- MODULE ReadContract ----------------------------
(***************************************************************************)
(* What reading a post promises its clients (listComments in contracts.ts  *)
(* and docs/api-design.md): comments are observed and stay, the post's row *)
(* vouches for some of them, and a client follows a cursor through pages.  *)
(* Each of it happens at once; requests, replicas, hydrations and what     *)
(* fails of them are not seen.                                             *)
(***************************************************************************)
EXTENDS FiniteSetsExt

CONSTANTS
    Clients, Comments,
    Times,         \* when a snapshot may have been completed
    None,
    MayAge,        \* may a completed snapshot be read again?
    MayRestart     \* may the platform's stream be read again from its start?

VARIABLES
    stored,        \* the comments observed
    row,           \* what the post's row vouches for
    reader         \* per client, its run

contractVars == <<stored, row, reader>>

\* What a snapshot vouches for, whether that is all there was, and as of when.
Snapshots ==
    {s \in [covers : SUBSET Comments, complete : BOOLEAN, completedAt : Times \union {None}] :
        s.complete <=> s.completedAt # None}

Nothing == [covers |-> {}, complete |-> FALSE, completedAt |-> None]

NotStarted == [ended |-> FALSE, after |-> 0, partialRun |-> FALSE, got |-> {}, syncedAt |-> None]

ContractInit ==
    /\ stored = {}
    /\ row = Nothing
    /\ reader = [c \in Clients |-> NotStarted]

Observe(page) ==
    /\ stored' = stored \union page
    /\ UNCHANGED <<row, reader>>

\* The row vouches for what is stored.  It gives up a complete snapshot only to
\* read it again, and what it has read of the stream only to start over.
Vouch(s) ==
    /\ s.covers \subseteq stored
    /\ row.complete => MayAge
    /\ ~row.complete /\ ~MayRestart => row.covers \subseteq s.covers
    /\ row' = s
    /\ UNCHANGED <<stored, reader>>

\* The comments after a cursor, and a page of them: there is no gap before its
\* last one.
Later(cursor) == {i \in stored : i > cursor}
IsPage(items, cursor) ==
    /\ items \subseteq Later(cursor)
    /\ \A i \in items, j \in Later(cursor) : j < i => j \in items
    /\ items = {} => Later(cursor) = {}

\* A page is answered over a snapshot that vouches for nothing that is missing, and
\* over the row's own if it is complete and does not age.  The run ends with the
\* last comment stored over a complete snapshot, and has a date only if it began
\* over one.
Answer(c, items, s) ==
    LET run == reader[c]
        partial == IF run.after = 0 THEN ~s.complete ELSE run.partialRun
    IN  /\ ~run.ended
        /\ IsPage(items, run.after)
        /\ s.covers \subseteq stored
        /\ s.complete /\ ~MayAge => s = row
        /\ reader' = [reader EXCEPT ![c] =
              [ended |-> s.complete /\ items = Later(run.after),
               after |-> IF items = {} THEN run.after ELSE Max(items),
               partialRun |-> partial,
               got |-> run.got \union items,
               syncedAt |-> IF partial THEN None ELSE s.completedAt]]
        /\ UNCHANGED <<stored, row>>

StartAgain(c) ==
    /\ reader[c].ended
    /\ reader' = [reader EXCEPT ![c] = NotStarted]
    /\ UNCHANGED <<stored, row>>

ContractNext ==
    \/ \E page \in SUBSET Comments : Observe(page)
    \/ \E s \in Snapshots : Vouch(s)
    \/ \E c \in Clients :
         StartAgain(c) \/ \E items \in SUBSET Comments, s \in Snapshots : Answer(c, items, s)

ContractSpec == ContractInit /\ [][ContractNext]_contractVars
=============================================================================
