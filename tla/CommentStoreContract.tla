------------------------ MODULE CommentStoreContract ------------------------
(***************************************************************************)
(* What a comment repository promises (CommentRepository in contracts.ts), *)
(* as the in-memory adapter keeps it: a call takes effect at once, row     *)
(* after row, or not at all.  One that throws tells its caller nothing: it *)
(* may have had its effect.  Callers are requests; a call is a page of     *)
(* observed comments to upsert or one published reply to store.            *)
(***************************************************************************)
EXTENDS Naturals, Sequences

CONSTANTS
    Callers,     \* requests that use the repository
    Comments,    \* the platform's identifiers
    Pages,       \* the pages a hydration may bring
    Replies,     \* the replies a publication may bring
    BodyOf,      \* the words of the texts of each comment
    Absent       \* the content of a row that does not exist

VARIABLES
    store,       \* per identifier, the content of its row
    call,        \* per caller, the call under way
    answer       \* per caller, what storing its reply was answered

contractVars == <<store, call, answer>>

\* A call is [kind |-> "upsert", page |-> ...] or [kind |-> "store", reply |-> ...].
NoCall == [kind |-> "none"]

Content(observed) == [text |-> observed.text, parent |-> observed.parent]

\* Storing an observation: its row holds it, whatever it held before.
StoreObserved(rows, observed) == [rows EXCEPT ![observed.id] = Content(observed)]

\* The rows once the whole page is stored, one observation after the other.
StorePage(rows, page) ==
    LET after[i \in 0 .. Len(page)] ==
            IF i = 0 THEN rows ELSE StoreObserved(after[i - 1], page[i])
    IN  after[Len(page)]

\* What a call does to the rows.  A published reply makes a row; it never edits
\* one.
Effect(c) ==
    CASE c.kind = "upsert" -> StorePage(store, c.page)
      [] c.kind = "store"  -> IF store[c.reply.id] = Absent
                              THEN StoreObserved(store, c.reply) ELSE store

ContractInit ==
    /\ store = [x \in Comments |-> Absent]
    /\ call = [a \in Callers |-> NoCall]
    /\ answer = [a \in Callers |-> "none"]

Start(a) ==
    /\ call[a] = NoCall
    /\ \/ call'[a].kind = "upsert" /\ call'[a].page \in Pages
       \/ call'[a].kind = "store" /\ call'[a].reply \in Replies
    /\ \A b \in Callers \ {a} : call'[b] = call[b]
    /\ UNCHANGED <<store, answer>>

UpsertMany(a) ==
    /\ call[a].kind = "upsert"
    /\ store' = Effect(call[a])
    /\ call' = [call EXCEPT ![a] = NoCall]
    /\ UNCHANGED answer

\* A row that is there already is taken for the reply if it has its words.
StorePublishedReply(a) ==
    /\ call[a].kind = "store"
    /\ store' = Effect(call[a])
    /\ LET reply == call[a].reply
           existing == store[reply.id]
           sameBody == BodyOf[<<reply.id, existing.text>>] = BodyOf[<<reply.id, reply.text>>]
       IN  answer' = [answer EXCEPT ![a] =
                         IF existing = Absent \/ sameBody THEN "reply" ELSE "refused"]
    /\ call' = [call EXCEPT ![a] = NoCall]

\* A call that throws has had its effect, or none.
CallFails(a) ==
    /\ call[a] # NoCall
    /\ store' \in {store, Effect(call[a])}
    /\ call' = [call EXCEPT ![a] = NoCall]
    /\ UNCHANGED answer

ContractNext ==
    \E a \in Callers : Start(a) \/ UpsertMany(a) \/ StorePublishedReply(a) \/ CallFails(a)

ContractSpec == ContractInit /\ [][ContractNext]_contractVars
=============================================================================
