--------------------------- MODULE ReplyContract ---------------------------
(***************************************************************************)
(* What a client of POST /comments/{id}/replies is promised per            *)
(* idempotency key, with no handler, no lease and no failure in sight: the *)
(* states of a key, the replies the platform shows for it, and the answers *)
(* given for it so far.                                                    *)
(***************************************************************************)
CONSTANTS
    Keys,           \* idempotency keys
    Replies,        \* replies that could be published
    EarlierReply    \* what an earlier release published under a key it failed

\* Answers that say something about the fate of the key.
Verdicts == {"reply", "unknown", "key_failed"}

VARIABLES
    phase,      \* of each key: "unused", "open", "uncertain", "replied", "failed"
    posted,     \* the replies the platform shows for each key
    told        \* the verdicts given for each key

contractVars == <<phase, posted, told>>

\* A key that an earlier release failed may have a reply at the platform: it
\* was failed on a rate limit, which proves nothing.
ContractInit ==
    /\ phase \in [Keys -> {"unused", "failed"}]
    /\ posted \in [Keys -> {{}, {EarlierReply}}]
    /\ \A k \in Keys : phase[k] = "unused" => posted[k] = {}
    /\ told = [k \in Keys |-> {}]

Enter(k, from, to) ==
    /\ phase[k] \in from
    /\ phase' = [phase EXCEPT ![k] = to]

\* Along with a change of phase the client may learn of it, or may not.
MayTell(k, verdict) ==
    told' \in {told, [told EXCEPT ![k] = @ \union {verdict}]}

\* A request takes the key.
Open(k) == Enter(k, {"unused"}, "open") /\ UNCHANGED <<posted, told>>

\* The platform accepts the only reply it will ever accept for this key,
\* possibly after the key was given up.
Post(k) ==
    /\ phase[k] \in {"open", "uncertain"}
    /\ posted[k] = {}
    /\ \E r \in Replies : posted' = [posted EXCEPT ![k] = {r}]
    /\ UNCHANGED <<phase, told>>

\* The outcome can no longer be established.
WriteOff(k) ==
    /\ Enter(k, {"open"}, "uncertain")
    /\ MayTell(k, "unknown")
    /\ UNCHANGED posted

\* The key resolves to a reply that the platform shows.
Resolve(k) ==
    /\ Enter(k, {"open", "uncertain"}, "replied")
    /\ posted[k] # {}
    /\ MayTell(k, "reply")
    /\ UNCHANGED posted

\* A later request is told what became of the key: the reply only when the key
\* resolved to it, an invitation to use a new key only when an earlier release
\* failed it.  No key is failed any more.
Tell(k, verdict) ==
    /\ CASE verdict = "reply"      -> phase[k] = "replied"
         [] verdict = "unknown"    -> phase[k] \in {"uncertain", "replied"}
         [] verdict = "key_failed" -> phase[k] = "failed"
    /\ told' = [told EXCEPT ![k] = @ \union {verdict}]
    /\ UNCHANGED <<phase, posted>>

ContractNext ==
    \E k \in Keys :
        \/ Open(k) \/ Post(k) \/ WriteOff(k) \/ Resolve(k)
        \/ \E verdict \in Verdicts : Tell(k, verdict)

ContractSpec == ContractInit /\ [][ContractNext]_contractVars
=============================================================================
