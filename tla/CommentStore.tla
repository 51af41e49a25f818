---------------------------- MODULE CommentStore ----------------------------
(***************************************************************************)
(* The comments of one post in PostgreSQL, written by the hydrations and   *)
(* the reply publications of any number of replicas at once.  A write is a *)
(* transaction: a page is upserted row by row, each row stays locked until *)
(* the commit, and the others wait for it.  Comments are numbered in the   *)
(* order of their publication; platforms list the newest first.            *)
(*                                                                         *)
(* A text is whose it is and how often it was edited: an edit of zero is   *)
(* the text of a comment that does not exist.  The table holds the words   *)
(* of a text, and two texts may have the same.                             *)
(*                                                                         *)
(* A transaction that fails is rolled back, or it is committed and the     *)
(* acknowledgement is lost: its caller gets an exception in both cases.    *)
(* The step that ends it stands for its end in the database; the caller    *)
(* may have given up on it sooner.                                         *)
(***************************************************************************)
EXTENDS Naturals, Sequences, FiniteSets

CONSTANTS
    Hydrators,     \* requests that hydrate the post, on any replica
    Publishers,    \* requests that publish a reply
    MaxComments,   \* bound: comments on the platform, replies included
    MaxEdits,      \* bound: edits on the platform
    PageSize,      \* comments the platform returns at a time
    BodyOf,        \* the words of the texts of each comment
    None

ASSUME StoreBounds ==
    /\ MaxComments \in Nat /\ MaxEdits \in Nat /\ PageSize \in Nat \ {0}
    /\ Hydrators \cap Publishers = {}
    /\ None \notin Publishers /\ None \notin Nat

Comments == 1 .. MaxComments
Texts == [by : Publishers \union {None}, edit : 0 .. MaxEdits + 1]
Contents == [text : Texts, parent : Comments \union {None}]
Observations == [id : Comments, text : Texts, parent : Comments \union {None}]

ASSUME BodyAssumption == DOMAIN BodyOf = Comments \X Texts

Text(by, edit) == [by |-> by, edit |-> edit]
Absent == [text |-> Text(None, 0), parent |-> None]

VARIABLES
    published, platform, edits,   \* the platform: how many comments, what they are, edits so far
    rows,                         \* the comments table: per identifier, its row
    pc,                           \* per request, where it is
    page, todo,                   \* a hydration's page, and the rows it has not written yet
    had,                          \* what the table held when the page was read
    target, reply, outcome        \* a publication: replied-to comment, its reply, its answer

hydrationVars == <<page, todo, had>>
publicationVars == <<target, reply, outcome>>
platformVars == <<published, platform, edits>>
vars == <<platformVars, rows, pc, hydrationVars, publicationVars>>

Writers == Hydrators \union Publishers
Goto(a, label) == pc' = [pc EXCEPT ![a] = label]

Init ==
    /\ published = 0 /\ edits = 0
    /\ platform = [x \in Comments |-> Absent]
    /\ rows = [x \in Comments |-> Absent]
    /\ pc = [a \in Writers |-> "idle"]
    /\ page = [h \in Hydrators |-> <<>>]
    /\ todo = [h \in Hydrators |-> {}]
    /\ had = [h \in Hydrators |-> [x \in Comments |-> 0]]
    /\ target = [p \in Publishers |-> None]
    /\ reply = [p \in Publishers |-> None]
    /\ outcome = [p \in Publishers |-> "none"]

-----------------------------------------------------------------------------
(***************************************************************************)
(* The platform.                                                           *)
(***************************************************************************)
Existing == 1 .. published

\* Somebody comments on the post, or on a comment of it.
SomeoneComments(parent) ==
    /\ published < MaxComments
    /\ published' = published + 1
    /\ platform' = [platform EXCEPT ![published + 1] =
                       [text |-> Text(None, 1), parent |-> parent]]
    /\ UNCHANGED <<edits, rows, pc, hydrationVars, publicationVars>>

SomeoneEdits(x) ==
    /\ edits < MaxEdits
    /\ edits' = edits + 1
    /\ platform' = [platform EXCEPT ![x].text.edit = @ + 1]
    /\ UNCHANGED <<published, rows, pc, hydrationVars, publicationVars>>

Observed(x, edit) ==
    [id |-> x, text |-> Text(platform[x].text.by, edit), parent |-> platform[x].parent]
AsItIs(x) == Observed(x, platform[x].text.edit)

\* A page that starts at comment top, newest first: the platform returns as
\* many as it likes, up to the page size.
Listed(top, size) == [i \in 1 .. size |-> AsItIs(top + 1 - i)]

\* A page may list its newest comment once more at the end, if it was edited
\* or pushed down while the page was put together.
ListedTwice(top, size, edit) ==
    Append([Listed(top, size) EXCEPT ![1] = Observed(top, edit)], AsItIs(top))

-----------------------------------------------------------------------------
(***************************************************************************)
(* Transactions on the comments table.                                     *)
(***************************************************************************)
Ids(list) == {list[i].id : i \in DOMAIN list}

FirstOf(list, x) ==
    CHOOSE i \in DOMAIN list : list[i].id = x /\ \A j \in 1 .. i - 1 : list[j].id # x
LastOf(list, x) ==
    CHOOSE i \in DOMAIN list : list[i].id = x /\ \A j \in i + 1 .. Len(list) : list[j].id # x

\* The page without repetitions: a Map keeps the place in which it first saw a
\* key, and the value it saw last.
PlaceOfLast(list, x) == LastOf(list, x)                            \* mutant
PlaceOf(list, x) == FirstOf(list, x)
ValueOfFirst(list, x) == list[FirstOf(list, x)]                    \* mutant
ValueOf(list, x) == list[LastOf(list, x)]

\* The row a hydration writes next.
NextRow(h) ==
    CHOOSE x \in todo[h] : \A y \in todo[h] : PlaceOf(page[h], x) <= PlaceOf(page[h], y)

\* The rows a transaction has written and not committed.
Held(a) ==
    CASE a \in Hydrators /\ pc[a] = "upsert"    -> Ids(page[a]) \ todo[a]
      [] a \in Publishers /\ pc[a] = "inserted" -> {reply[a]}
      [] OTHER -> {}

\* The row a transaction is about to write.
Wanted(a) ==
    CASE a \in Hydrators /\ pc[a] = "upsert" /\ todo[a] # {} -> {NextRow(a)}
      [] a \in Publishers /\ pc[a] = "store" -> {reply[a]}
      [] OTHER -> {}

WaitsFor(a, b) == a # b /\ Wanted(a) \cap Held(b) # {}
Free(a) == \A b \in Writers : ~WaitsFor(a, b)

-----------------------------------------------------------------------------
(***************************************************************************)
(* Hydration: fetchPage and upsertMany.                                    *)
(***************************************************************************)
\* Which page it is depends on how far the stream has been read (module
\* SnapshotHydration): here it may be any.
FetchPage(h, top, size) ==
    LET ids == top - size + 1 .. top
    IN  /\ pc[h] = "idle"
        /\ size <= top
        /\ \/ page' = [page EXCEPT ![h] = Listed(top, size)]
           \/ \E edit \in 1 .. platform[top].text.edit :
                 page' = [page EXCEPT ![h] = ListedTwice(top, size, edit)]
        /\ todo' = [todo EXCEPT ![h] = ids]
        /\ had' = [had EXCEPT ![h] =
                      [x \in Comments |-> IF x \in ids THEN rows[x].text.edit ELSE 0]]
        /\ Goto(h, "upsert")
        /\ UNCHANGED <<platformVars, rows, publicationVars>>

\* The insert reaches its next row, and waits while another transaction holds it.
WriteRow(h) ==
    /\ pc[h] = "upsert" /\ todo[h] # {}
    /\ Free(h)
    /\ todo' = [todo EXCEPT ![h] = @ \ {NextRow(h)}]
    /\ UNCHANGED <<platformVars, rows, pc, page, had, publicationVars>>

\* On conflict the row takes the text and the parent of the observation.
UpsertedUnderItsParent(row, observed) ==                           \* mutant
    [text |-> observed.text, parent |-> IF row = Absent THEN observed.parent ELSE row.parent]
Upserted(row, observed) == [row EXCEPT !.text = observed.text, !.parent = observed.parent]

EndHydration(h) ==
    /\ page' = [page EXCEPT ![h] = <<>>]
    /\ todo' = [todo EXCEPT ![h] = {}]
    /\ had' = [had EXCEPT ![h] = [x \in Comments |-> 0]]
    /\ Goto(h, "idle")
    /\ UNCHANGED <<platformVars, publicationVars>>

\* Every row is written, and the transaction commits.
UpsertMany(h) ==
    /\ pc[h] = "upsert" /\ todo[h] = {}
    /\ rows' = [x \in Comments |->
                   IF x \in Ids(page[h]) THEN Upserted(rows[x], ValueOf(page[h], x))
                   ELSE rows[x]]
    /\ EndHydration(h)

\* withTenant throws: the transaction is rolled back and nothing of the page is
\* stored, or all of it is and only the acknowledgement is lost.
UpsertFails(h) ==
    \/ pc[h] = "upsert" /\ EndHydration(h) /\ UNCHANGED rows
    \/ UpsertMany(h)

-----------------------------------------------------------------------------
(***************************************************************************)
(* Publication: the reply-depth gate of replyToComment, the platform, and  *)
(* storePublishedReply.                                                    *)
(***************************************************************************)
\* A stored comment as the service sees it: its parent is the row that holds
\* the parent's identifier, if there is one.
Stored(x) == rows[x] # Absent
ParentCommentId(x) ==
    LET parent == rows[x].parent
    IN  IF parent # None /\ Stored(parent) THEN parent ELSE None
ParentNeverUnresolved(x) == FALSE                                  \* mutant
ParentUnresolved(x) == rows[x].parent # None /\ ParentCommentId(x) = None

\* Only a comment that is no reply itself is replied to.
AcceptReply(p, x) ==
    /\ pc[p] = "idle"
    /\ Stored(x)
    /\ ParentCommentId(x) = None /\ ~ParentUnresolved(x)
    /\ target' = [target EXCEPT ![p] = x]
    /\ Goto(p, "publish")
    /\ UNCHANGED <<platformVars, rows, hydrationVars, reply, outcome>>

\* The platform publishes the reply and names it; the name may be one that is
\* taken, by a comment of somebody else.
PlatformPublishes(p) ==
    /\ pc[p] = "publish"
    /\ Goto(p, "store")
    /\ \/ /\ published < MaxComments
          /\ published' = published + 1
          /\ platform' = [platform EXCEPT ![published + 1] =
                             [text |-> Text(p, 1), parent |-> target[p]]]
          /\ reply' = [reply EXCEPT ![p] = published + 1]
       \/ /\ \E x \in Existing :
               platform[x].text.by # p /\ reply' = [reply EXCEPT ![p] = x]
          /\ UNCHANGED <<published, platform>>
    /\ UNCHANGED <<edits, rows, hydrationVars, target, outcome>>

ContentAndId(observed) == observed                                 \* mutant
Content(observed) == [text |-> observed.text, parent |-> observed.parent]
Published(p) == [id |-> reply[p], text |-> Text(p, 1), parent |-> target[p]]

\* The insert waits for an uncommitted row of that name, and does nothing on a
\* committed one.
InsertReplyOverwriting(p) ==                                       \* mutant
    /\ pc[p] = "store"
    /\ Free(p)
    /\ Goto(p, "inserted")
    /\ UNCHANGED <<platformVars, rows, hydrationVars, publicationVars>>
InsertReply(p) ==
    /\ pc[p] = "store"
    /\ Free(p)
    /\ Goto(p, IF Stored(reply[p]) THEN "readback" ELSE "inserted")
    /\ UNCHANGED <<platformVars, rows, hydrationVars, publicationVars>>

End(p, answer) ==
    /\ outcome' = [outcome EXCEPT ![p] = answer]
    /\ Goto(p, "done")
    /\ UNCHANGED <<platformVars, hydrationVars, target, reply>>

CommitAs(p, answer) ==
    /\ pc[p] = "inserted"
    /\ rows' = [rows EXCEPT ![reply[p]] = Content(Published(p))]
    /\ End(p, answer)
CommitReply(p) == CommitAs(p, "reply")

\* The row that was there is taken for the reply if it has its words.
SameBody(x, text1, text2) == BodyOf[<<x, text1>>] = BodyOf[<<x, text2>>]
ReadBackRefusing(p) ==                                             \* mutant
    /\ pc[p] = "readback"
    /\ End(p, "refused")
    /\ UNCHANGED rows
ReadBack(p) ==
    /\ pc[p] = "readback"
    /\ End(p, IF SameBody(reply[p], rows[reply[p]].text, Published(p).text)
              THEN "reply" ELSE "refused")
    /\ UNCHANGED rows

\* withTenant throws: rolled back, or committed without the acknowledgement.
StoreFails(p) ==
    \/ pc[p] \in {"store", "inserted", "readback"} /\ End(p, "failed") /\ UNCHANGED rows
    \/ CommitAs(p, "failed")

-----------------------------------------------------------------------------
Hydrate(h) ==
    \/ \E top \in Existing, size \in 1 .. PageSize : FetchPage(h, top, size)
    \/ WriteRow(h) \/ UpsertMany(h) \/ UpsertFails(h)
StorePublishedReply(p) == InsertReply(p) \/ CommitReply(p) \/ ReadBack(p) \/ StoreFails(p)

Next ==
    \/ \E parent \in Existing \union {None} : SomeoneComments(parent)
    \/ \E x \in Existing : SomeoneEdits(x)
    \/ \E h \in Hydrators : Hydrate(h)
    \/ \E p \in Publishers :
         (\E x \in Comments : AcceptReply(p, x)) \/ PlatformPublishes(p) \/ StorePublishedReply(p)

Spec == Init /\ [][Next]_vars

-----------------------------------------------------------------------------
(***************************************************************************)
(* Properties                                                              *)
(***************************************************************************)
\* Types of the variables.
TypeOK ==
    /\ published \in 0 .. MaxComments /\ edits \in 0 .. MaxEdits
    /\ platform \in [Comments -> Contents]
    /\ rows \in [Comments -> Contents]
    /\ pc \in [Writers -> {"idle", "upsert", "publish", "store", "inserted", "readback", "done"}]
    /\ page \in [Hydrators -> Seq(Observations)]
    /\ todo \in [Hydrators -> SUBSET Comments]
    /\ had \in [Hydrators -> [Comments -> 0 .. MaxEdits + 1]]
    /\ target \in [Publishers -> Comments \union {None}]
    /\ reply \in [Publishers -> Comments \union {None}]
    /\ outcome \in [Publishers -> {"none", "reply", "refused", "failed"}]

\* Transactions that store comments never wait for each other in a circle,
\* however their pages overlap: each writes its rows newest first, a comment
\* that is listed twice in the place where it was listed first (upsertMany's
\* Map).
NoWaitCycle ==
    ~ \E stuck \in SUBSET Writers :
        stuck # {} /\ \A a \in stuck : \E b \in stuck : WaitsFor(a, b)

\* A row holds a text its own comment has or had on the platform, with the
\* parent it has there, unless a reply that was given its name was stored before
\* the comment itself was: with an answer, or by a commit whose caller was left
\* with an exception.
RowsHoldTheirComment ==
    \A x \in Comments : Stored(x) =>
        \/ /\ rows[x].text.by = platform[x].text.by
           /\ rows[x].text.edit \in 1 .. platform[x].text.edit
           /\ rows[x].parent = platform[x].parent
        \/ \E p \in Publishers :
             outcome[p] \in {"reply", "failed"} /\ rows[x] = Content(Published(p))

\* A stored comment stays that comment: a reply that the platform gave a name
\* which is taken never overwrites it (storePublishedReply's do nothing), in
\* whatever order reply and comment are inserted and committed.
CommentsAreNotOverwritten ==
    [][\A x \in Comments :
         Stored(x) /\ rows[x].text.by = platform[x].text.by =>
             rows'[x].text.by = rows[x].text.by /\ rows'[x].parent = rows[x].parent]_vars

\* No reply is published below a reply, in whatever order comments and their
\* parents are observed and stored (the gate on parentCommentId and
\* parentUnresolved).
OneLevelThreads ==
    \A p \in Publishers : target[p] # None => platform[target[p]].parent = None

\* The platform gave p's reply a name that is another comment's, or that it also
\* gave to another reply.
NameIsShared(p) ==
    \/ platform[reply[p]].text.by # p
    \/ \E q \in Publishers \ {p} : reply[q] = reply[p]

\* A publication that is answered with a reply has a row of its name in the
\* table, and the row is its own reply in its own place, edited since or not,
\* unless its name is shared: then what has its words may be a comment of
\* somebody else.  One that is refused has a shared name, or its reply was
\* edited into other words before it was stored.  That a hydration stored the
\* reply first, or is storing it, is no reason.
AnswerIsJustified(p) ==
    /\ outcome[p] = "reply" =>
          /\ Stored(reply[p])
          /\ \/ NameIsShared(p)
             \/ rows[reply[p]].text.by = p /\ rows[reply[p]].parent = target[p]
    /\ outcome[p] = "refused" =>
          \/ NameIsShared(p)
          \/ \E edit \in 2 .. platform[reply[p]].text.edit :
                ~SameBody(reply[p], Text(p, edit), Text(p, 1))
AnswersAreJustified == \A p \in Publishers : AnswerIsJustified(p)

\* A hydration never puts back a text older than the one the table held when it
\* read its page: texts go backwards only between hydrations that overlap.
RereadsMoveForward ==
    [][\A h \in Hydrators : pc[h] = "upsert" /\ rows' # rows /\ pc'[h] = "idle" =>
         \A x \in Comments : rows'[x].text.edit >= had[h][x]]_vars

-----------------------------------------------------------------------------
(***************************************************************************)
(* The table keeps what the in-memory repository promises.                 *)
(***************************************************************************)
callUnderWay ==
    [a \in Writers |->
       CASE a \in Hydrators /\ pc[a] = "upsert" -> [kind |-> "upsert", page |-> page[a]]
         [] a \in Publishers /\ pc[a] \in {"store", "inserted", "readback"} ->
              [kind |-> "store", reply |-> Published(a)]
         [] OTHER -> [kind |-> "none"]]

answerGiven ==
    [a \in Writers |->
       IF a \in Publishers /\ outcome[a] \in {"reply", "refused"} THEN outcome[a] ELSE "none"]

Contract == INSTANCE CommentStoreContract WITH
    Callers <- Writers, Pages <- Seq(Observations), Replies <- Observations,
    store <- rows, call <- callUnderWay, answer <- answerGiven

\* Interleaved and failing transactions leave the rows, and give the answers,
\* that calls taking effect one after another would: the adapter of production
\* agrees with the in-memory one.
ImplementsContract == Contract!ContractSpec
=============================================================================
