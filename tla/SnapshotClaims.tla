-------------------------- MODULE SnapshotClaims ---------------------------
(***************************************************************************)
(* Statements of the repository about reading comments that its code does  *)
(* not keep.  Each is checked by a run that is expected to find it         *)
(* violated.                                                               *)
(***************************************************************************)
EXTENDS SnapshotHydration

Synced(c) == pc[c] = "ended" /\ syncedAt[c] # None

\* docs/api-design.md: "syncedAt is reported as of the run, not as of the post",
\* and a run that ends on hasMore: false with syncedAt set is "complete".  That
\* is, it has returned all that the snapshot syncedAt belongs to stands for.
SyncedRunIsComplete == \A c \in Clients : Synced(c) => 1 .. vouched[c] \subseteq got[c]

\* contracts.ts, on saveSnapshotState: without the compare "the later writer
\* wins regardless of which is further along, so the snapshot can move
\* backwards".  That is, a snapshot that was completed, and has not gone stale
\* since, is not opened again.
FreshSnapshotStays == [][snapshot.exhausted /\ ~aged => snapshot'.exhausted]_vars
=============================================================================
