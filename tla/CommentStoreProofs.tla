------------------------- MODULE CommentStoreProofs -------------------------
(***************************************************************************)
(* Proofs about the comments table.  First what a page looks like, then    *)
(* the invariant of the table, its writers and the platform, one lemma per *)
(* kind of step, and the theorems.                                         *)
(***************************************************************************)
EXTENDS CommentStore, SequenceTheorems, LeastNumber, TLAPS

-----------------------------------------------------------------------------
(***************************************************************************)
(* Pages.                                                                  *)
(***************************************************************************)
\* A page that starts at comment top and has size comments, newest first, the
\* first of them perhaps once more at the end.
Newest(list, top, size) ==
    /\ list \in Seq(Observations)
    /\ Len(list) = size \/ Len(list) = size + 1
    /\ \A i \in 1 .. size : list[i].id = top + 1 - i
    /\ Len(list) = size + 1 => list[size + 1].id = top

\* Every observation of a page says what the platform says, or said.
Faithful(list) ==
    \A i \in 1 .. Len(list) :
        LET x == list[i].id
        IN  /\ x \in Existing
            /\ list[i].text.by = platform[x].text.by
            /\ list[i].text.edit \in 1 .. platform[x].text.edit
            /\ list[i].parent = platform[x].parent

\* None stands for no comment and for no publisher.
LEMMA NoneIsNothing == None \notin Comments /\ None \notin Publishers
  BY StoreBounds DEF Comments

\* The identifiers of a page, one by one.
LEMMA PageIds ==
    ASSUME NEW top \in Nat, NEW size \in Nat, size >= 1, size <= top,
           NEW list, Newest(list, top, size)
    PROVE  /\ top \in Nat /\ size \in Nat /\ size >= 1 /\ size <= top
           /\ Len(list) \in Nat
           /\ Len(list) = size \/ Len(list) = size + 1
           /\ \A i \in 1 .. Len(list) : list[i].id = IF i = size + 1 THEN top ELSE top + 1 - i
<1>1. Len(list) \in Nat
  BY LenProperties DEF Newest
<1>2. DOMAIN list = 1 .. Len(list)
  BY LenProperties DEF Newest
<1>3. Len(list) = size \/ Len(list) = size + 1
  BY DEF Newest
<1>4. ASSUME NEW i \in 1 .. Len(list)
      PROVE  list[i].id = IF i = size + 1 THEN top ELSE top + 1 - i
  <2>1. CASE i = size + 1
    <3>1. Len(list) = size + 1
      BY <1>1, <1>3, <2>1
    <3>2. QED
      BY <2>1, <3>1 DEF Newest
  <2>2. CASE i # size + 1
    <3>1. i \in 1 .. size
      BY <1>1, <1>3, <2>2
    <3>2. QED
      BY <2>2, <3>1 DEF Newest
  <2>3. QED
    BY <2>1, <2>2
<1>5. QED
  BY <1>1, <1>2, <1>3, <1>4

\* A page holds the identifiers from top downwards, each first seen at its
\* distance from the top.
LEMMA PageFirst ==
    ASSUME NEW top \in Nat, NEW size \in Nat, size >= 1, size <= top,
           NEW list, Newest(list, top, size)
    PROVE  /\ Ids(list) = top - size + 1 .. top
           /\ \A x \in top - size + 1 .. top : PlaceOf(list, x) = top + 1 - x
<1> DEFINE IdAt(i) == IF i = size + 1 THEN top ELSE top + 1 - i
<1>1. /\ top \in Nat /\ size \in Nat /\ size >= 1 /\ size <= top
      /\ Len(list) \in Nat
      /\ Len(list) = size \/ Len(list) = size + 1
      /\ \A i \in 1 .. Len(list) : list[i].id = IdAt(i)
  BY PageIds
<1>2. \A i \in 1 .. Len(list) : IdAt(i) \in top - size + 1 .. top
  BY <1>1
<1>3. \A x \in top - size + 1 .. top : /\ top + 1 - x \in 1 .. Len(list)
                                       /\ IdAt(top + 1 - x) = x
                                       /\ \A j \in 1 .. Len(list) : IdAt(j) = x => j >= top + 1 - x
  BY <1>1
<1> HIDE DEF IdAt
<1>4. Ids(list) = top - size + 1 .. top
  <2> DEFINE below == top - size + 1 .. top
             places == 1 .. Len(list)
  <2>1. Ids(list) = {list[i].id : i \in places}
    BY PageIds DEF Ids
  <2>2. \A x \in below : \E i \in places : list[i].id = x
    BY <1>1, <1>3
  <2>3. \A i \in places : list[i].id \in below
    BY <1>1, <1>2
  <2> HIDE DEF below, places
  <2>4. Ids(list) = below
    BY <2>1, <2>2, <2>3
  <2>5. QED
    BY <2>4 DEF below
<1>5. ASSUME NEW x \in top - size + 1 .. top PROVE PlaceOf(list, x) = top + 1 - x
  <2> DEFINE First(i) == list[i].id = x /\ \A j \in 1 .. i - 1 : list[j].id # x
             place == top + 1 - x
  <2>1. place \in 1 .. Len(list) /\ place \in Int /\ list[place].id = x
    BY <1>1, <1>3
  <2>2. \A j \in 1 .. Len(list) : list[j].id = x => j >= place
    BY <1>1, <1>3
  <2> HIDE DEF place
  <2>3. First(place)
    <3>1. list[place].id = x
      BY <2>1
    <3>2. ASSUME NEW j \in 1 .. place - 1 PROVE list[j].id # x
      <4>1. j \in 1 .. Len(list) /\ ~(j >= place)
        BY <1>1, <2>1
      <4>2. QED
        BY <2>2, <4>1
    <3>3. QED
      BY <3>1, <3>2
  <2>4. ASSUME NEW i \in 1 .. Len(list), First(i) PROVE i = place
    <3>1. i >= place
      BY <2>2, <2>4
    <3>2. ~(place < i)
      BY <2>1, <2>4
    <3>3. QED
      BY <2>1, <3>1, <3>2
  <2> HIDE DEF First
  <2>5. PlaceOf(list, x) = CHOOSE i \in 1 .. Len(list) : First(i)
    BY PageIds DEF PlaceOf, FirstOf, First
  <2>6. (CHOOSE i \in 1 .. Len(list) : First(i)) = place
    BY <2>1, <2>3, <2>4
  <2>7. QED
    BY <2>5, <2>6 DEF place
<1>6. QED
  BY <1>4, <1>5

\* Where a page lists an identifier for the last time.
LastPlace(list, top, size, x) ==
    IF Len(list) = size + 1 /\ x = top THEN size + 1 ELSE top + 1 - x

\* The value a page holds for an identifier is the last one it lists.
LEMMA PageLast ==
    ASSUME NEW top \in Nat, NEW size \in Nat, size >= 1, size <= top,
           NEW list, Newest(list, top, size),
           NEW x \in top - size + 1 .. top
    PROVE  /\ LastPlace(list, top, size, x) \in 1 .. Len(list)
           /\ list[LastPlace(list, top, size, x)].id = x
           /\ ValueOf(list, x) = list[LastPlace(list, top, size, x)]
<1> DEFINE last == LastPlace(list, top, size, x)
           Last(i) == list[i].id = x /\ \A j \in i + 1 .. Len(list) : list[j].id # x
<1>1. /\ top \in Nat /\ size \in Nat /\ size >= 1 /\ size <= top /\ x \in Int
      /\ Len(list) \in Nat
      /\ Len(list) = size \/ Len(list) = size + 1
      /\ \A i \in 1 .. Len(list) : list[i].id = IF i = size + 1 THEN top ELSE top + 1 - i
  BY PageIds
<1>2. last \in 1 .. Len(list) /\ last \in Int /\ list[last].id = x
  BY <1>1 DEF LastPlace
<1>3. \A j \in 1 .. Len(list) : list[j].id = x => j <= last
  BY <1>1 DEF LastPlace
<1> HIDE DEF last
<1>4. Last(last)
  <2>1. ASSUME NEW j \in last + 1 .. Len(list) PROVE list[j].id # x
    <3>1. Len(list) \in Nat
      BY <1>1
    <3>2. j \in 1 .. Len(list) /\ ~(j <= last)
      BY <1>2, <3>1
    <3>3. QED
      BY <1>3, <3>2
  <2>2. QED
    BY <1>2, <2>1
<1>5. ASSUME NEW i \in 1 .. Len(list), Last(i) PROVE i = last
  <2>1. i <= last
    BY <1>3, <1>5
  <2>2. ~(i < last)
    BY <1>2, <1>5
  <2>3. QED
    BY <1>2, <2>1, <2>2
<1> HIDE DEF Last
<1>6. LastOf(list, x) = CHOOSE i \in 1 .. Len(list) : Last(i)
  BY PageIds DEF LastOf, Last
<1>7. (CHOOSE i \in 1 .. Len(list) : Last(i)) = last
  BY <1>2, <1>4, <1>5
<1>8. QED
  BY <1>2, <1>6, <1>7 DEF ValueOf, last

\* What the platform returns is such a page, faithful, and its values are the
\* texts as they are.
LEMMA FetchedPage ==
    ASSUME TypeOK, \A x \in Existing : platform[x].text.edit >= 1,
           NEW top \in Existing, NEW size \in 1 .. top, NEW list,
           \/ list = Listed(top, size)
           \/ \E edit \in 1 .. platform[top].text.edit : list = ListedTwice(top, size, edit)
    PROVE  /\ Newest(list, top, size) /\ Faithful(list)
           /\ \A x \in top - size + 1 .. top : ValueOf(list, x) = AsItIs(x)
<1>1. /\ published \in Nat /\ Existing \subseteq Comments /\ Existing \subseteq Nat
      /\ top \in Nat /\ size \in Nat /\ size >= 1 /\ size <= top /\ top <= published
  BY StoreBounds DEF TypeOK, Existing, Comments
<1>2. \A x \in Existing : \A edit \in 1 .. platform[x].text.edit :
         Observed(x, edit) \in Observations
  <2> SUFFICES ASSUME NEW x \in Existing, NEW edit \in 1 .. platform[x].text.edit
               PROVE  Observed(x, edit) \in Observations
    OBVIOUS
  <2>1. platform[x] \in Contents
    BY <1>1 DEF TypeOK
  <2>2. edit \in 0 .. MaxEdits + 1
    BY <2>1, StoreBounds DEF Contents, Texts
  <2>3. QED
    BY <1>1, <2>1, <2>2 DEF Observed, Observations, Contents, Texts, Text
<1>3. \A x \in Existing : platform[x].text.edit \in 1 .. platform[x].text.edit
  <2> SUFFICES ASSUME NEW x \in Existing PROVE platform[x].text.edit \in Nat
    OBVIOUS
  <2>1. platform[x] \in Contents
    BY <1>1 DEF TypeOK
  <2>2. QED
    BY <2>1, StoreBounds DEF Contents, Texts
<1>4. \A i \in 1 .. size : top + 1 - i \in Existing
  BY <1>1 DEF Existing
<1> DEFINE plain == Listed(top, size)
<1>5. plain \in [1 .. size -> Observations]
  BY <1>2, <1>3, <1>4 DEF Listed, AsItIs
<1>6. plain \in Seq(Observations) /\ Len(plain) = size
  BY <1>1, <1>5 DEF Listed
<1>7. \A i \in 1 .. size : plain[i] = AsItIs(top + 1 - i)
  BY DEF Listed
<1>8. CASE list = Listed(top, size)
  <2>1. Newest(list, top, size)
    BY <1>1, <1>6, <1>7, <1>8 DEF Newest, AsItIs, Observed
  <2>2. Faithful(list)
    BY <1>3, <1>4, <1>6, <1>7, <1>8 DEF Faithful, AsItIs, Observed, Text
  <2>3. ASSUME NEW x \in top - size + 1 .. top PROVE ValueOf(list, x) = AsItIs(x)
    <3>1. ValueOf(list, x) = list[top + 1 - x]
      <4>1. Len(list) = size
        BY <1>6, <1>8
      <4> HIDE DEF plain
      <4>2. ValueOf(list, x) = list[LastPlace(list, top, size, x)]
        BY <1>1, <2>1, PageLast
      <4>3. LastPlace(list, top, size, x) = top + 1 - x
        BY <1>1, <4>1 DEF LastPlace
      <4>4. QED
        BY <4>2, <4>3
    <3>2. top + 1 - x \in 1 .. size /\ top + 1 - (top + 1 - x) = x
      BY <1>1
    <3>3. plain[top + 1 - x] = AsItIs(x)
      <4> HIDE DEF plain
      <4>1. plain[top + 1 - x] = AsItIs(top + 1 - (top + 1 - x))
        BY <1>7, <3>2
      <4>2. QED
        BY <3>2, <4>1
    <3>4. QED
      BY <1>8, <3>1, <3>3
  <2>4. QED
    BY <2>1, <2>2, <2>3
<1>9. ASSUME NEW edit \in 1 .. platform[top].text.edit, list = ListedTwice(top, size, edit)
      PROVE  /\ Newest(list, top, size) /\ Faithful(list)
             /\ \A x \in top - size + 1 .. top : ValueOf(list, x) = AsItIs(x)
  <2> DEFINE front == [plain EXCEPT ![1] = Observed(top, edit)]
  <2>1. /\ front \in Seq(Observations) /\ Len(front) = size
        /\ \A i \in 1 .. size : front[i] = IF i = 1 THEN Observed(top, edit) ELSE plain[i]
    BY <1>1, <1>2, <1>6, ExceptSeq
  <2>2. AsItIs(top) \in Observations
    BY <1>2, <1>3 DEF AsItIs
  <2>3. list = Append(front, AsItIs(top))
    BY <1>9 DEF ListedTwice
  <2>4. /\ list \in Seq(Observations) /\ Len(list) = size + 1
        /\ \A i \in 1 .. size : list[i] = front[i]
        /\ list[size + 1] = AsItIs(top)
    BY <1>1, <2>1, <2>2, <2>3
  <2>5. Newest(list, top, size)
    <3>1. ASSUME NEW i \in 1 .. size PROVE plain[i].id = top + 1 - i
      <4> HIDE DEF plain
      <4>1. plain[i] = AsItIs(top + 1 - i)
        BY <1>7
      <4>2. QED
        BY <4>1 DEF AsItIs, Observed
    <3>2. \A i \in 1 .. size : list[i].id = top + 1 - i
      <4>1. Observed(top, edit).id = top
        BY DEF Observed
      <4> HIDE DEF plain, front
      <4>2. QED
        BY <1>1, <2>1, <2>4, <3>1, <4>1
    <3>3. list[size + 1].id = top
      BY <2>4 DEF AsItIs, Observed
    <3>4. QED
      BY <2>4, <3>2, <3>3 DEF Newest
  <2>6. Faithful(list)
    <3> SUFFICES ASSUME NEW i \in 1 .. size + 1
                 PROVE  LET x == list[i].id
                        IN  /\ x \in Existing
                            /\ list[i].text.by = platform[x].text.by
                            /\ list[i].text.edit \in 1 .. platform[x].text.edit
                            /\ list[i].parent = platform[x].parent
      BY <2>4 DEF Faithful
    <3>1. CASE i = 1
      BY <1>1, <1>9, <2>1, <2>4, <3>1 DEF Observed, Text
    <3>2. CASE i \in 2 .. size
      BY <1>1, <1>3, <1>4, <1>7, <2>1, <2>4, <3>2 DEF AsItIs, Observed, Text
    <3>3. CASE i = size + 1
      BY <1>1, <1>3, <2>4, <3>3 DEF AsItIs, Observed, Text
    <3>4. QED
      BY <1>1, <3>1, <3>2, <3>3
  <2>7. ASSUME NEW x \in top - size + 1 .. top PROVE ValueOf(list, x) = AsItIs(x)
    <3> DEFINE last == LastPlace(list, top, size, x)
    <3>0. ValueOf(list, x) = list[last]
      <4> HIDE DEF plain, front
      <4>1. QED
        BY <1>1, <2>5, PageLast
    <3>1. CASE x = top
      BY <2>4, <3>0, <3>1 DEF LastPlace
    <3>2. CASE x # top
      <4>1. ValueOf(list, x) = list[top + 1 - x]
        BY <3>0, <3>2 DEF LastPlace
      <4>2. top + 1 - x \in 2 .. size /\ top + 1 - (top + 1 - x) = x
        BY <1>1, <3>2
      <4> DEFINE place == top + 1 - x
      <4>3. list[place] = plain[place]
        <5>1. place \in 1 .. size /\ place # 1
          BY <1>1, <4>2
        <5> HIDE DEF plain, front, place
        <5>2. QED
          BY <2>1, <2>4, <5>1
      <4>4. plain[place] = AsItIs(x)
        <5>1. place \in 1 .. size /\ top + 1 - place = x
          BY <1>1, <4>2
        <5> HIDE DEF plain, place
        <5>2. QED
          BY <1>7, <5>1
      <4>5. QED
        BY <4>1, <4>3, <4>4
    <3>3. QED
      BY <3>1, <3>2
  <2>8. QED
    BY <2>5, <2>6, <2>7
<1>10. QED
  BY <1>8, <1>9

-----------------------------------------------------------------------------
(***************************************************************************)
(* The invariant.                                                          *)
(***************************************************************************)
\* The platform has the comments up to the last one, and what one of them is by a
\* request of the service is that request's one reply.
PlatformShape ==
    /\ \A x \in Comments : IF x \in Existing THEN platform[x].text.edit >= 1
                                             ELSE platform[x] = Absent
    /\ \A x \in Existing : platform[x].text.edit <= edits + 1
    /\ \A x \in Comments, p \in Publishers :
         platform[x].text.by = p => reply[p] = x /\ platform[x].parent = target[p]

\* How far a publication is.
PublicationShape(p) ==
    /\ pc[p] \in {"idle", "publish", "store", "inserted", "readback", "done"}
    /\ pc[p] # "idle" => target[p] \in Existing /\ platform[target[p]].parent = None
    /\ pc[p] = "idle" => target[p] = None
    /\ pc[p] \in {"idle", "publish"} => reply[p] = None
    /\ pc[p] \notin {"idle", "publish"} => reply[p] \in Existing
    /\ pc[p] = "inserted" => rows[reply[p]] = Absent
    /\ pc[p] = "readback" => Stored(reply[p])
    /\ outcome[p] # "none" => pc[p] = "done"

\* A hydration under way writes a page, newest first, and has written what is
\* above low.
Reading(h, top, size, low) ==
    /\ top \in Existing /\ size \in 1 .. top /\ low \in top - size .. top
    /\ Newest(page[h], top, size)
    /\ todo[h] = top - size + 1 .. low

\* What the table held when a page was read is no newer than the page.
NotAfter(told, list) ==
    \A x \in Comments :
        told[x] <= IF x \in Ids(list) THEN ValueOf(list, x).text.edit ELSE 0

HydrationShape(h) ==
    /\ pc[h] \in {"idle", "upsert"}
    /\ pc[h] = "upsert" =>
         /\ \E top, size, low \in Nat : Reading(h, top, size, low)
         /\ Faithful(page[h])
         /\ NotAfter(had[h], page[h])

\* A row is its comment's, or that of a reply that was given its name.
RowShape(x) ==
    Stored(x) =>
        \/ /\ rows[x].text.by = platform[x].text.by
           /\ rows[x].text.edit \in 1 .. platform[x].text.edit
           /\ rows[x].parent = platform[x].parent
        \/ \E p \in Publishers :
             /\ outcome[p] \in {"reply", "failed"} /\ reply[p] = x
             /\ rows[x] = Content(Published(p))

\* Two transactions never hold the same row.
LocksExclude == \A a, b \in Writers : a # b => Held(a) \cap Held(b) = {}

StoreInvariant ==
    /\ TypeOK
    /\ PlatformShape
    /\ \A p \in Publishers : PublicationShape(p)
    /\ \A h \in Hydrators : HydrationShape(h)
    /\ \A x \in Comments : RowShape(x)
    /\ LocksExclude
    /\ AnswersAreJustified

\* A hydration at its next row holds the rows above it and wants that one.
LEMMA ReadingLocks ==
    ASSUME TypeOK, NEW h \in Hydrators, pc[h] = "upsert",
           NEW top \in Nat, NEW size \in Nat, NEW low \in Nat, Reading(h, top, size, low)
    PROVE  /\ Held(h) = low + 1 .. top
           /\ Ids(page[h]) = top - size + 1 .. top
           /\ low > top - size => NextRow(h) = low /\ Wanted(h) = {low}
           /\ todo[h] = {} <=> low = top - size
<1>1. /\ top \in Comments /\ size \in 1 .. top /\ low \in top - size .. top
      /\ Newest(page[h], top, size) /\ todo[h] = top - size + 1 .. low
  BY StoreBounds DEF Reading, Existing, TypeOK, Comments
<1>2. /\ Ids(page[h]) = top - size + 1 .. top
      /\ \A x \in top - size + 1 .. top : PlaceOf(page[h], x) = top + 1 - x
  BY <1>1, PageFirst
<1>3. Held(h) = low + 1 .. top
  BY <1>1, <1>2 DEF Held
<1>4. todo[h] = {} <=> low = top - size
  BY <1>1
<1>5. ASSUME low > top - size PROVE NextRow(h) = low /\ Wanted(h) = {low}
  <2> DEFINE Next1(x) == \A y \in todo[h] : PlaceOf(page[h], x) <= PlaceOf(page[h], y)
  <2>1. low \in todo[h] /\ Next1(low)
    BY <1>1, <1>2, <1>5
  <2>2. ASSUME NEW x \in todo[h], Next1(x) PROVE x = low
    BY <1>1, <1>2, <2>1, <2>2
  <2>3. NextRow(h) = low
    BY <2>1, <2>2 DEF NextRow
  <2>4. QED
    BY <1>4, <1>5, <2>3 DEF Wanted
<1>6. QED
  BY <1>2, <1>3, <1>4, <1>5

\* Whoever waits for a row that somebody holds who waits too, waits for a higher
\* row than that one: there is no circle.
LEMMA NoCircle == StoreInvariant => NoWaitCycle
<1> SUFFICES ASSUME StoreInvariant,
                    NEW stuck \in SUBSET Writers, stuck # {},
                    \A a \in stuck : \E b \in stuck : WaitsFor(a, b)
             PROVE  FALSE
  BY DEF NoWaitCycle
<1> DEFINE Wants == UNION {Wanted(a) : a \in stuck}
<1>1. ASSUME NEW a \in stuck, NEW b \in stuck, WaitsFor(a, b),
             NEW x \in Wanted(a) \cap Held(b)
      PROVE  \E y \in Wanted(b) : y \in Nat /\ y < x
  <2>1. b \in Hydrators /\ pc[b] = "upsert" /\ Wanted(b) # {} /\ TypeOK /\ HydrationShape(b)
    <3>1. PICK c \in stuck : WaitsFor(b, c)
      OBVIOUS
    <3>2. Wanted(b) # {}
      BY <3>1 DEF WaitsFor
    <3>3. b \in Hydrators /\ pc[b] = "upsert"
      BY <1>1, <3>2, StoreBounds DEF Wanted, Held, Writers
    <3>4. QED
      BY <3>2, <3>3 DEF StoreInvariant
  <2>2. PICK top, size, low \in Nat : Reading(b, top, size, low)
    BY <2>1 DEF HydrationShape
  <2>3. low > top - size /\ Wanted(b) = {low} /\ Held(b) = low + 1 .. top
    <3>1. todo[b] # {}
      BY <2>1, StoreBounds DEF Wanted
    <3>2. low \in top - size .. top /\ size \in 1 .. top
      BY <2>2 DEF Reading
    <3>3. QED
      BY <2>1, <2>2, <3>1, <3>2, ReadingLocks
  <2>4. QED
    BY <1>1, <2>3
<1>2. Wants # {}
  <2>1. PICK a \in stuck : TRUE
    OBVIOUS
  <2>2. PICK b \in stuck : WaitsFor(a, b)
    OBVIOUS
  <2>3. QED
    BY <2>2 DEF WaitsFor
<1> DEFINE Low == {y \in Wants : y \in Nat}
<1>3. Low # {}
  <2>1. PICK a \in stuck : TRUE
    OBVIOUS
  <2>2. PICK b \in stuck : WaitsFor(a, b)
    OBVIOUS
  <2>3. PICK z \in Wanted(a) \cap Held(b) : TRUE
    BY <2>2 DEF WaitsFor
  <2>4. \E y \in Wanted(b) : y \in Nat
    BY <1>1, <2>2, <2>3
  <2>5. QED
    BY <2>4
<1>4. PICK x \in Low : \A y \in Low : x <= y
  BY <1>3, LeastOf
<1>5. PICK a \in stuck : x \in Wanted(a)
  OBVIOUS
<1>6. PICK b \in stuck : WaitsFor(a, b)
  OBVIOUS
<1>7. x \in Held(b)
  BY <1>5, <1>6, StoreBounds DEF WaitsFor, Wanted
<1>8. PICK y \in Wanted(b) : y \in Nat /\ y < x
  BY <1>1, <1>5, <1>6, <1>7
<1>9. y \in Low
  BY <1>6, <1>8
<1>10. x \in Nat /\ x <= y
  BY <1>4, <1>9
<1>11. QED
  BY <1>8, <1>10

-----------------------------------------------------------------------------
(***************************************************************************)
(* What a step leaves alone.                                               *)
(***************************************************************************)
\* The platform gains comments and edits, and loses nothing.
PlatformGrows ==
    /\ published' \in Nat /\ published <= published'
    /\ \A x \in Existing :
         /\ platform'[x].text.by = platform[x].text.by
         /\ platform'[x].parent = platform[x].parent
         /\ platform'[x].text.edit \in Nat /\ platform[x].text.edit <= platform'[x].text.edit

\* A publication that is answered stays answered, for the same reply.
AnswersStay ==
    \A p \in Publishers : outcome[p] # "none" =>
        outcome'[p] = outcome[p] /\ reply'[p] = reply[p] /\ target'[p] = target[p]

\* Identifiers and edits are numbers.
LEMMA StoreNumbers ==
    ASSUME TypeOK
    PROVE  /\ published \in Nat /\ Existing \subseteq Comments /\ Comments \subseteq Nat
           /\ \A x \in Comments :
                /\ platform[x] \in Contents /\ rows[x] \in Contents
                /\ platform[x].text.edit \in Nat /\ rows[x].text.edit \in Nat
           /\ \A h \in Hydrators, x \in Comments : had[h][x] \in Nat
<1>1. /\ published \in Nat /\ Existing \subseteq Comments /\ Comments \subseteq Nat
  BY StoreBounds DEF TypeOK, Existing, Comments
<1>2. ASSUME NEW x \in Comments
      PROVE  /\ platform[x] \in Contents /\ rows[x] \in Contents
             /\ platform[x].text.edit \in Nat /\ rows[x].text.edit \in Nat
  <2>1. platform[x] \in Contents /\ rows[x] \in Contents
    BY DEF TypeOK
  <2>2. QED
    BY <2>1, StoreBounds DEF Contents, Texts
<1>3. ASSUME NEW h \in Hydrators, NEW x \in Comments PROVE had[h][x] \in Nat
  <2>1. had[h] \in [Comments -> 0 .. MaxEdits + 1]
    BY DEF TypeOK
  <2>2. QED
    BY <2>1, StoreBounds
<1>4. QED
  BY <1>1, <1>2, <1>3

\* Only what the platform has, or gave a name to, is stored.
LEMMA StoredExist ==
    ASSUME StoreInvariant, NEW x \in Comments, Stored(x)
    PROVE  x \in Existing
<1>1. CASE rows[x].text.edit \in 1 .. platform[x].text.edit
  <2>1. x \notin Existing => platform[x].text.edit = 0
    BY DEF StoreInvariant, PlatformShape, Absent, Text
  <2>2. QED
    BY <1>1, <2>1
<1>2. ASSUME NEW p \in Publishers, outcome[p] \in {"reply", "failed"}, reply[p] = x
      PROVE  x \in Existing
  BY <1>2 DEF StoreInvariant, PublicationShape
<1>3. QED
  BY <1>1, <1>2 DEF StoreInvariant, RowShape

\* A hydration that does not step keeps its shape.
LEMMA HydrationStays ==
    ASSUME TypeOK, PlatformGrows, NEW h \in Hydrators, HydrationShape(h),
           pc'[h] = pc[h], page'[h] = page[h], todo'[h] = todo[h], had'[h] = had[h]
    PROVE  HydrationShape(h)'
<1> SUFFICES ASSUME pc[h] = "upsert" PROVE HydrationShape(h)'
  BY DEF HydrationShape
<1>1. Existing \subseteq Existing'
  BY StoreNumbers DEF PlatformGrows, Existing
<1>2. \E top, size, low \in Nat : Reading(h, top, size, low)'
  <2>1. PICK top, size, low \in Nat : Reading(h, top, size, low)
    BY DEF HydrationShape
  <2>2. Reading(h, top, size, low)'
    BY <1>1, <2>1 DEF Reading, Newest
  <2>3. QED
    BY <2>2
<1>3. Faithful(page[h])'
  <2> DEFINE list == page[h]
  <2>1. SUFFICES ASSUME NEW i \in 1 .. Len(list)
                 PROVE  /\ list[i].id \in Existing'
                        /\ list[i].text.by = platform'[list[i].id].text.by
                        /\ list[i].text.edit \in 1 .. platform'[list[i].id].text.edit
                        /\ list[i].parent = platform'[list[i].id].parent
    BY DEF Faithful
  <2>2. /\ list[i].id \in Existing
        /\ list[i].text.by = platform[list[i].id].text.by
        /\ list[i].text.edit \in 1 .. platform[list[i].id].text.edit
        /\ list[i].parent = platform[list[i].id].parent
    BY DEF Faithful, HydrationShape
  <2> DEFINE x == list[i].id
  <2>3. /\ platform'[x].text.by = platform[x].text.by /\ platform'[x].parent = platform[x].parent
        /\ platform[x].text.edit \in Nat /\ platform'[x].text.edit \in Nat
        /\ platform[x].text.edit <= platform'[x].text.edit /\ x \in Existing'
    BY <1>1, <2>2, StoreNumbers DEF PlatformGrows
  <2>4. QED
    BY <2>2, <2>3
<1>4. NotAfter(had[h], page[h])'
  BY DEF HydrationShape
<1>5. QED
  BY <1>2, <1>3, <1>4 DEF HydrationShape

\* A publication that does not step keeps its shape, if its reply's row is not
\* written under its hands.
LEMMA PublicationStays ==
    ASSUME TypeOK, PlatformGrows, NEW p \in Publishers, PublicationShape(p),
           pc'[p] = pc[p], target'[p] = target[p], reply'[p] = reply[p],
           outcome'[p] = outcome[p],
           pc[p] = "inserted" => rows'[reply[p]] = Absent,
           pc[p] = "readback" => rows'[reply[p]] # Absent
    PROVE  PublicationShape(p)'
<1>1. Existing \subseteq Existing'
  BY StoreNumbers DEF PlatformGrows, Existing
<1>2. QED
  BY <1>1 DEF PublicationShape, PlatformGrows, Stored

\* A row that is not written keeps its shape.
LEMMA RowStays ==
    ASSUME StoreInvariant, PlatformGrows, AnswersStay,
           NEW x \in Comments, rows'[x] = rows[x]
    PROVE  RowShape(x)'
<1> SUFFICES ASSUME Stored(x) PROVE RowShape(x)'
  BY DEF RowShape, Stored
<1>1. x \in Existing
  BY StoredExist
<1>2. CASE /\ rows[x].text.by = platform[x].text.by
           /\ rows[x].text.edit \in 1 .. platform[x].text.edit
           /\ rows[x].parent = platform[x].parent
  <2>1. rows[x].text.edit \in 1 .. platform'[x].text.edit
    BY <1>1, <1>2, StoreNumbers DEF PlatformGrows, StoreInvariant
  <2>2. QED
    BY <1>1, <1>2, <2>1 DEF PlatformGrows, RowShape
<1>3. ASSUME NEW p \in Publishers,
             outcome[p] \in {"reply", "failed"}, reply[p] = x, rows[x] = Content(Published(p))
      PROVE  RowShape(x)'
  BY <1>3 DEF AnswersStay, RowShape, Content, Published
<1>4. QED
  BY <1>2, <1>3 DEF StoreInvariant, RowShape

\* Locks that are kept or released exclude each other still.
LEMMA LocksStay ==
    ASSUME LocksExclude, \A a \in Writers : Held(a)' \subseteq Held(a)
    PROVE  LocksExclude'
BY DEF LocksExclude

\* An answer stays justified, if the row it is about is not written.
LEMMA AnswerStays ==
    ASSUME StoreInvariant, PlatformGrows, AnswersStay,
           \A q \in Publishers : reply[q] # None => reply'[q] = reply[q],
           NEW p \in Publishers, outcome[p] # "none", rows'[reply[p]] = rows[reply[p]]
    PROVE  AnswerIsJustified(p)'
<1>1. /\ outcome'[p] = outcome[p] /\ reply'[p] = reply[p] /\ target'[p] = target[p]
      /\ reply[p] \in Existing /\ reply[p] \in Comments /\ reply[p] # None
  <2>1. reply[p] \in Existing
    BY DEF StoreInvariant, PublicationShape
  <2>2. QED
    BY <2>1, StoreNumbers, NoneIsNothing DEF StoreInvariant, AnswersStay
<1>2. /\ platform'[reply[p]].text.by = platform[reply[p]].text.by
      /\ platform[reply[p]].text.edit \in Nat /\ platform'[reply[p]].text.edit \in Nat
      /\ platform[reply[p]].text.edit <= platform'[reply[p]].text.edit
  BY <1>1, StoreNumbers DEF PlatformGrows, StoreInvariant
<1>3. NameIsShared(p) => NameIsShared(p)'
  BY <1>1, <1>2 DEF NameIsShared
<1>4. AnswerIsJustified(p)
  BY DEF StoreInvariant, AnswersAreJustified
<1>5. CASE outcome[p] = "reply"
  BY <1>1, <1>3, <1>4, <1>5 DEF AnswerIsJustified, Stored
<1>6. CASE outcome[p] = "refused"
  <2>1. ASSUME NEW edit \in 2 .. platform[reply[p]].text.edit
        PROVE  edit \in 2 .. platform'[reply[p]].text.edit
    BY <1>2, <2>1
  <2>2. QED
    BY <1>1, <1>3, <1>4, <1>6, <2>1 DEF AnswerIsJustified, SameBody
<1>7. CASE outcome[p] \notin {"reply", "refused"}
  BY <1>1, <1>7 DEF AnswerIsJustified
<1>8. QED
  BY <1>5, <1>6, <1>7

-----------------------------------------------------------------------------
(***************************************************************************)
(* Initially, and what the steps have in common.                           *)
(***************************************************************************)
\* It holds of a post nobody has read yet.
LEMMA InitStore == Init => StoreInvariant
<1> SUFFICES ASSUME Init PROVE StoreInvariant
  OBVIOUS
<1>1. Absent \in Contents /\ ~(\E x \in Comments : x \in Existing)
  BY StoreBounds DEF Init, Contents, Texts, Text, Absent, Existing, Comments
<1>2. TypeOK
  <2>1. platform \in [Comments -> Contents] /\ rows \in [Comments -> Contents]
    BY <1>1 DEF Init
  <2>2. page \in [Hydrators -> Seq(Observations)]
    BY DEF Init
  <2>3. had \in [Hydrators -> [Comments -> 0 .. MaxEdits + 1]]
    BY StoreBounds DEF Init
  <2>4. QED
    BY <2>1, <2>2, <2>3, StoreBounds DEF TypeOK, Init
<1>3. PlatformShape
  BY <1>1, NoneIsNothing DEF PlatformShape, Init, Existing, Comments, Absent, Text
<1>4. /\ \A p \in Publishers : PublicationShape(p) /\ outcome[p] = "none"
      /\ \A h \in Hydrators : HydrationShape(h)
  BY DEF Init, PublicationShape, HydrationShape, Writers
<1>5. /\ \A x \in Comments : RowShape(x)
      /\ \A a \in Writers : Held(a) = {}
  BY DEF Init, RowShape, Stored, Held, Writers
<1>6. QED
  BY <1>2, <1>3, <1>4, <1>5
     DEF StoreInvariant, LocksExclude, AnswersAreJustified, AnswerIsJustified

\* A step that leaves the platform alone lets it grow, by nothing.
LEMMA PlatformStays ==
    ASSUME StoreInvariant, UNCHANGED platformVars
    PROVE  PlatformGrows /\ Existing' = Existing
<1>1. UNCHANGED <<published, platform>>
  BY DEF platformVars
<1>2. QED
  BY <1>1, StoreNumbers DEF StoreInvariant, PlatformGrows, Existing

\* The platform keeps its shape while it and the publications are left alone.
LEMMA PlatformShapeStays ==
    ASSUME StoreInvariant, UNCHANGED platformVars,
           \A p \in Publishers : reply[p] # None => reply'[p] = reply[p] /\ target'[p] = target[p]
    PROVE  PlatformShape'
<1>1. UNCHANGED <<published, platform, edits>> /\ PlatformShape
  BY DEF platformVars, StoreInvariant
<1>2. ASSUME NEW x \in Comments, NEW p \in Publishers, platform'[x].text.by = p
      PROVE  reply'[p] = x /\ platform'[x].parent = target'[p]
  <2>1. reply[p] = x /\ platform[x].parent = target[p]
    BY <1>1, <1>2 DEF PlatformShape
  <2>2. QED
    BY <1>1, <2>1, NoneIsNothing
<1>3. QED
  BY <1>1, <1>2 DEF PlatformShape, Existing

-----------------------------------------------------------------------------
(***************************************************************************)
(* The platform's steps.                                                   *)
(***************************************************************************)
\* Steps that touch nothing but the platform.
LEMMA PlatformStep ==
    ASSUME StoreInvariant, TypeOK', PlatformGrows, PlatformShape',
           UNCHANGED <<rows, pc, hydrationVars, publicationVars>>
    PROVE  StoreInvariant'
<1>1. UNCHANGED <<rows, pc, page, todo, had, target, reply, outcome>> /\ AnswersStay
  BY DEF hydrationVars, publicationVars, AnswersStay
<1>2. \A h \in Hydrators : HydrationShape(h)'
  BY <1>1, HydrationStays DEF StoreInvariant
<1>3. \A p \in Publishers : PublicationShape(p)'
  BY <1>1, PublicationStays DEF StoreInvariant, PublicationShape, Stored
<1>4. \A x \in Comments : RowShape(x)'
  BY <1>1, RowStays
<1>5. LocksExclude'
  BY <1>1, LocksStay DEF StoreInvariant, Held
<1>6. AnswersAreJustified'
  BY <1>1, AnswerStays DEF AnswersAreJustified, AnswerIsJustified
<1>7. QED
  BY <1>2, <1>3, <1>4, <1>5, <1>6 DEF StoreInvariant

\* One more comment leaves the others as they are.
LEMMA NewComment ==
    ASSUME StoreInvariant, published < MaxComments, published' = published + 1, edits' = edits,
           NEW text \in Texts, NEW parent \in Comments \union {None}, text.edit = 1,
           platform' = [platform EXCEPT ![published + 1] = [text |-> text, parent |-> parent]]
    PROVE  /\ PlatformGrows
           /\ published + 1 \in Comments /\ published + 1 \notin Existing
           /\ platform' \in [Comments -> Contents]
           /\ \A x \in Comments :
                /\ IF x \in Existing' THEN platform'[x].text.edit >= 1 ELSE platform'[x] = Absent
                /\ x \in Existing' => platform'[x].text.edit <= edits' + 1
                /\ x # published + 1 => platform'[x] = platform[x]
           /\ platform'[published + 1] = [text |-> text, parent |-> parent]
<1>1. /\ published \in Nat /\ published + 1 \in Comments /\ published + 1 \notin Existing
      /\ Existing' = Existing \union {published + 1}
  BY StoreNumbers, StoreBounds DEF StoreInvariant, Existing, Comments
<1>2. /\ [text |-> text, parent |-> parent] \in Contents
      /\ platform \in [Comments -> Contents]
  BY DEF Contents, StoreInvariant, TypeOK
<1>3. /\ platform' \in [Comments -> Contents]
      /\ \A x \in Comments : x # published + 1 => platform'[x] = platform[x]
      /\ platform'[published + 1] = [text |-> text, parent |-> parent]
  BY <1>1, <1>2
<1>4. edits \in Nat
  BY StoreBounds DEF StoreInvariant, TypeOK
<1>5. \A x \in Comments :
        /\ IF x \in Existing' THEN platform'[x].text.edit >= 1 ELSE platform'[x] = Absent
        /\ x \in Existing' => platform'[x].text.edit <= edits' + 1
  BY <1>1, <1>3, <1>4 DEF StoreInvariant, PlatformShape
<1>6. PlatformGrows
  BY <1>1, <1>3, StoreNumbers DEF PlatformGrows, StoreInvariant
<1>7. QED
  BY <1>1, <1>3, <1>5, <1>6

\* Someone comments on the platform.
LEMMA SomeoneCommentsKeeps ==
    ASSUME StoreInvariant, NEW parent \in Existing \union {None}, SomeoneComments(parent)
    PROVE  StoreInvariant'
<1> DEFINE text == Text(None, 1)
<1>1. text \in Texts /\ text.edit = 1 /\ text.by = None /\ parent \in Comments \union {None}
  BY StoreNumbers, StoreBounds DEF Texts, Text, StoreInvariant
<1>2. /\ published < MaxComments /\ published' = published + 1 /\ edits' = edits
      /\ platform' = [platform EXCEPT ![published + 1] = [text |-> text, parent |-> parent]]
      /\ UNCHANGED <<rows, pc, hydrationVars, publicationVars>>
  BY DEF SomeoneComments
<1> HIDE DEF text
<1>3. /\ PlatformGrows /\ platform' \in [Comments -> Contents]
      /\ published + 1 \in Comments
      /\ \A x \in Comments :
                /\ IF x \in Existing' THEN platform'[x].text.edit >= 1 ELSE platform'[x] = Absent
                /\ x \in Existing' => platform'[x].text.edit <= edits' + 1
                /\ x # published + 1 => platform'[x] = platform[x]
      /\ platform'[published + 1] = [text |-> text, parent |-> parent]
  BY <1>1, <1>2, NewComment
<1>4. TypeOK'
  BY <1>2, <1>3, StoreBounds DEF TypeOK, StoreInvariant, hydrationVars, publicationVars, Comments
<1>5. PlatformShape'
  <2>1. ASSUME NEW x \in Comments, NEW p \in Publishers, platform'[x].text.by = p
        PROVE  reply'[p] = x /\ platform'[x].parent = target'[p]
    <3>1. x # published + 1
      BY <1>1, <1>3, <2>1, NoneIsNothing
    <3>2. QED
      BY <1>2, <1>3, <2>1, <3>1 DEF publicationVars, StoreInvariant, PlatformShape
  <2>2. Existing' \subseteq Comments
    BY <1>4, StoreBounds DEF TypeOK, Existing, Comments
  <2>3. QED
    BY <1>3, <2>1, <2>2 DEF PlatformShape
<1>6. QED
  BY <1>2, <1>3, <1>4, <1>5, PlatformStep

\* Someone edits a comment there.
LEMMA SomeoneEditsKeeps ==
    ASSUME StoreInvariant, NEW x \in Existing, SomeoneEdits(x)
    PROVE  StoreInvariant'
<1>1. /\ edits < MaxEdits /\ edits' = edits + 1 /\ published' = published
      /\ UNCHANGED <<rows, pc, hydrationVars, publicationVars>>
      /\ edits \in Nat /\ x \in Comments /\ platform[x].text.edit <= edits + 1
      /\ platform[x] \in Contents /\ platform[x].text.edit \in Nat
  BY StoreNumbers, StoreBounds DEF SomeoneEdits, StoreInvariant, TypeOK, PlatformShape
<1> DEFINE edited == [platform[x] EXCEPT !.text.edit = @ + 1]
<1>2. /\ edited \in Contents /\ edited.text.by = platform[x].text.by
      /\ edited.parent = platform[x].parent /\ edited.text.edit = platform[x].text.edit + 1
  BY <1>1, StoreBounds DEF Contents, Texts
<1>3. platform' = [platform EXCEPT ![x] = edited]
  BY DEF SomeoneEdits
<1> HIDE DEF edited
<1>4. /\ platform' \in [Comments -> Contents]
      /\ \A y \in Comments : platform'[y] = IF y = x THEN edited ELSE platform[y]
  BY <1>1, <1>2, <1>3 DEF StoreInvariant, TypeOK
<1>5. PlatformGrows
  BY <1>1, <1>2, <1>4, StoreNumbers DEF PlatformGrows, StoreInvariant
<1>6. TypeOK'
  BY <1>1, <1>4, StoreBounds DEF TypeOK, StoreInvariant, hydrationVars, publicationVars
<1>7. PlatformShape'
  <2>1. Existing' = Existing
    BY <1>1 DEF Existing
  <2>2. ASSUME NEW y \in Comments
        PROVE  IF y \in Existing THEN platform'[y].text.edit >= 1 ELSE platform'[y] = Absent
    BY <1>1, <1>2, <1>4 DEF StoreInvariant, PlatformShape
  <2>3. ASSUME NEW y \in Existing PROVE platform'[y].text.edit <= edits' + 1
    BY <1>1, <1>2, <1>4, StoreNumbers DEF StoreInvariant, PlatformShape
  <2>4. ASSUME NEW y \in Comments, NEW p \in Publishers, platform'[y].text.by = p
        PROVE  reply'[p] = y /\ platform'[y].parent = target'[p]
    BY <1>1, <1>2, <1>4, <2>4 DEF publicationVars, StoreInvariant, PlatformShape
  <2>5. QED
    BY <2>1, <2>2, <2>3, <2>4 DEF PlatformShape
<1>8. QED
  BY <1>1, <1>5, <1>6, <1>7, PlatformStep

-----------------------------------------------------------------------------
(***************************************************************************)
(* The steps of a hydration.                                               *)
(***************************************************************************)
\* What is left of a hydration's step, once it is known what it does to the
\* hydration itself and to the rows.
LEMMA HydrationStep ==
    ASSUME StoreInvariant, TypeOK', NEW h \in Hydrators,
           UNCHANGED platformVars, UNCHANGED publicationVars,
           \A a \in Writers \ {h} : pc'[a] = pc[a],
           \A g \in Hydrators \ {h} : page'[g] = page[g] /\ todo'[g] = todo[g] /\ had'[g] = had[g],
           HydrationShape(h)',
           \A a \in Writers \ {h} : Held(h)' \cap Held(a) = {},
           \A p \in Publishers : pc[p] = "inserted" => rows'[reply[p]] = Absent,
           \A p \in Publishers : pc[p] = "readback" => rows'[reply[p]] # Absent,
           \A x \in Comments : RowShape(x)',
           AnswersAreJustified'
    PROVE  StoreInvariant'
<1>1. UNCHANGED <<target, reply, outcome>> /\ PlatformGrows
  BY PlatformStays DEF publicationVars
<1>2. PlatformShape'
  BY <1>1, PlatformShapeStays
<1>3. ASSUME NEW p \in Publishers PROVE PublicationShape(p)'
  <2>1. p \in Writers \ {h}
    BY StoreBounds DEF Writers
  <2>2. QED
    BY <1>1, <2>1, PublicationStays DEF StoreInvariant
<1>4. ASSUME NEW g \in Hydrators PROVE HydrationShape(g)'
  BY <1>1, HydrationStays DEF StoreInvariant, Writers
<1>5. LocksExclude'
  <2>1. ASSUME NEW a \in Writers \ {h} PROVE Held(a)' = Held(a)
    BY <1>1, <2>1 DEF Held, Writers
  <2>2. QED
    BY <2>1 DEF LocksExclude, StoreInvariant
<1>6. QED
  BY <1>2, <1>3, <1>4, <1>5 DEF StoreInvariant

\* The same for the steps that write no row yet.
LEMMA HydrationStepUnwritten ==
    ASSUME StoreInvariant, TypeOK', NEW h \in Hydrators,
           UNCHANGED platformVars, UNCHANGED rows, UNCHANGED publicationVars,
           \A a \in Writers \ {h} : pc'[a] = pc[a],
           \A g \in Hydrators \ {h} : page'[g] = page[g] /\ todo'[g] = todo[g] /\ had'[g] = had[g],
           HydrationShape(h)',
           \A a \in Writers \ {h} : Held(h)' \cap Held(a) = {}
    PROVE  StoreInvariant'
<1>1. UNCHANGED <<rows, target, reply, outcome>> /\ PlatformGrows /\ AnswersStay
  BY PlatformStays DEF publicationVars, AnswersStay
<1>2. \A x \in Comments : RowShape(x)'
  BY <1>1, RowStays
<1>3. AnswersAreJustified'
  BY <1>1, AnswerStays DEF AnswersAreJustified, AnswerIsJustified
<1>4. \A p \in Publishers : /\ pc[p] = "inserted" => rows'[reply[p]] = Absent
                            /\ pc[p] = "readback" => rows'[reply[p]] # Absent
  BY <1>1 DEF StoreInvariant, PublicationShape, Stored
<1>5. QED
  BY <1>2, <1>3, <1>4, HydrationStep

\* A hydration has read a page.
LEMMA FetchPageKeeps ==
    ASSUME StoreInvariant, NEW h \in Hydrators, NEW top \in Existing, NEW size \in 1 .. PageSize,
           FetchPage(h, top, size)
    PROVE  StoreInvariant'
<1> DEFINE ids == top - size + 1 .. top
<1>1. /\ TypeOK /\ h \in Writers /\ top \in Comments /\ top \in Nat /\ size \in Nat
      /\ size \in 1 .. top
      /\ UNCHANGED <<platformVars, rows, publicationVars>>
      /\ pc' = [pc EXCEPT ![h] = "upsert"]
      /\ todo' = [todo EXCEPT ![h] = ids]
      /\ had' = [had EXCEPT ![h] =
                      [x \in Comments |-> IF x \in ids THEN rows[x].text.edit ELSE 0]]
  BY StoreNumbers, StoreBounds DEF FetchPage, Goto, StoreInvariant, Writers
<1>2. PICK list :
        /\ page' = [page EXCEPT ![h] = list]
        /\ \/ list = Listed(top, size)
           \/ \E edit \in 1 .. platform[top].text.edit : list = ListedTwice(top, size, edit)
  BY DEF FetchPage
<1>3. /\ Newest(list, top, size) /\ Faithful(list)
      /\ \A x \in ids : ValueOf(list, x) = AsItIs(x)
  BY <1>1, <1>2, FetchedPage, StoreNumbers DEF StoreInvariant, PlatformShape
<1>4. Ids(list) = ids /\ ids \subseteq Existing /\ ids \subseteq Comments
  BY <1>1, <1>3, PageFirst, StoreNumbers DEF Existing
<1>5. list \in Seq(Observations)
  BY <1>3 DEF Newest
<1> DEFINE told == [x \in Comments |-> IF x \in ids THEN rows[x].text.edit ELSE 0]
<1>6. told \in [Comments -> 0 .. MaxEdits + 1]
  <2>1. ASSUME NEW x \in Comments PROVE rows[x].text.edit \in 0 .. MaxEdits + 1
    BY <1>1, StoreNumbers DEF Contents, Texts
  <2>2. QED
    BY <2>1, StoreBounds
<1>7. UNCHANGED <<published, platform, edits, rows, target, reply, outcome>>
  BY <1>1 DEF platformVars, publicationVars
<1> HIDE DEF ids
<1>8. TypeOK'
  BY <1>1, <1>2, <1>4, <1>5, <1>6, <1>7 DEF TypeOK
<1>9. page'[h] = list /\ todo'[h] = ids /\ had'[h] = told /\ pc'[h] = "upsert"
  BY <1>1, <1>2 DEF TypeOK
<1>10. HydrationShape(h)'
  <2>1. Reading(h, top, size, top)'
    BY <1>1, <1>3, <1>7, <1>9 DEF Reading, Newest, Existing, ids
  <2>2. Faithful(page[h])'
    BY <1>3, <1>7, <1>9 DEF Faithful, Existing
  <2>3. ASSUME NEW x \in Comments
        PROVE  told[x] <= IF x \in Ids(list) THEN ValueOf(list, x).text.edit ELSE 0
    <3>1. CASE x \in ids
      <4>1. rows[x].text.edit <= platform[x].text.edit
        <5>1. CASE Stored(x)
          <6>1. x \in Existing /\ RowShape(x) /\ platform[x].text.edit >= 1
            BY <1>4, <3>1 DEF StoreInvariant, PlatformShape
          <6>2. \A p \in Publishers : rows[x] = Content(Published(p)) => rows[x].text.edit = 1
            BY DEF Content, Published, Text
          <6>3. QED
            BY <1>1, <5>1, <6>1, <6>2, StoreNumbers DEF RowShape
        <5>2. CASE ~Stored(x)
          BY <1>1, <5>2, StoreNumbers DEF Stored, Absent, Text
        <5>3. QED
          BY <5>1, <5>2
      <4>2. ValueOf(list, x).text.edit = platform[x].text.edit
        BY <1>3, <3>1 DEF AsItIs, Observed, Text
      <4>3. QED
        BY <1>4, <3>1, <4>1, <4>2
    <3>2. CASE x \notin ids
      BY <1>4, <3>2
    <3>3. QED
      BY <3>1, <3>2
  <2>4. NotAfter(told, list)
    BY <2>3 DEF NotAfter
  <2>5. NotAfter(had[h], page[h])'
    BY <1>9, <2>4
  <2>6. QED
    BY <1>1, <1>9, <2>1, <2>2, <2>5 DEF HydrationShape
<1>11. Held(h)' = {}
  BY <1>4, <1>9, StoreBounds DEF Held, Ids
<1>12. QED
  BY <1>1, <1>2, <1>8, <1>10, <1>11, HydrationStepUnwritten DEF TypeOK

\* The insert reaches the next row and locks it.
LEMMA WriteRowKeeps ==
    ASSUME StoreInvariant, NEW h \in Hydrators, WriteRow(h)
    PROVE  StoreInvariant'
<1>1. /\ TypeOK /\ pc[h] = "upsert" /\ todo[h] # {} /\ Free(h)
      /\ todo' = [todo EXCEPT ![h] = @ \ {NextRow(h)}]
      /\ UNCHANGED <<platformVars, rows, pc, page, had, publicationVars>>
  BY DEF WriteRow, StoreInvariant
<1>2. PICK top, size, low \in Nat : Reading(h, top, size, low)
  BY <1>1 DEF StoreInvariant, HydrationShape
<1>3. top \in Existing /\ size \in 1 .. top /\ low \in top - size .. top
      /\ Newest(page[h], top, size)
      /\ todo[h] = top - size + 1 .. low
  BY <1>2 DEF Reading
<1>4. /\ Held(h) = low + 1 .. top /\ Ids(page[h]) = top - size + 1 .. top
      /\ low > top - size /\ NextRow(h) = low /\ Wanted(h) = {low}
  BY <1>1, <1>2, <1>3, ReadingLocks
<1>5. todo'[h] = top - size + 1 .. low - 1 /\ todo'[h] \subseteq todo[h]
  BY <1>1, <1>3, <1>4 DEF TypeOK
<1>6. TypeOK'
  BY <1>1, <1>5 DEF TypeOK, platformVars, publicationVars
<1>7. HydrationShape(h)'
  <2>1. low - 1 \in Nat /\ Reading(h, top, size, low - 1)'
    BY <1>1, <1>2, <1>3, <1>4, <1>5 DEF Reading, Newest, Existing, platformVars
  <2>2. Faithful(page[h])'
    BY <1>1 DEF Faithful, Existing, platformVars, StoreInvariant, HydrationShape
  <2>3. NotAfter(had[h], page[h])'
    BY <1>1 DEF StoreInvariant, HydrationShape
  <2>4. QED
    BY <1>1, <1>2, <2>1, <2>2, <2>3 DEF HydrationShape
<1>8. ASSUME NEW a \in Writers \ {h} PROVE Held(h)' \cap Held(a) = {}
  <2>1. Held(h)' = Held(h) \union {low}
    <3>1. Held(h)' = (top - size + 1 .. top) \ (top - size + 1 .. low - 1)
      BY <1>1, <1>4, <1>5 DEF Held, Ids
    <3>2. QED
      BY <1>3, <1>4, <3>1
  <2>2. low \notin Held(a)
    BY <1>1, <1>4 DEF Free, WaitsFor
  <2>3. Held(h) \cap Held(a) = {}
    BY DEF StoreInvariant, LocksExclude, Writers
  <2>4. QED
    BY <2>1, <2>2, <2>3
<1>9. QED
  BY <1>1, <1>6, <1>7, <1>8, HydrationStepUnwritten DEF TypeOK

\* The transaction of a page is rolled back, and gives its rows back.
LEMMA UpsertRolledBackKeeps ==
    ASSUME StoreInvariant, NEW h \in Hydrators,
           pc[h] = "upsert", EndHydration(h), UNCHANGED rows
    PROVE  StoreInvariant'
<1>1. /\ TypeOK /\ pc[h] = "upsert" /\ h \in Writers
      /\ page' = [page EXCEPT ![h] = <<>>]
      /\ todo' = [todo EXCEPT ![h] = {}]
      /\ had' = [had EXCEPT ![h] = [x \in Comments |-> 0]]
      /\ pc' = [pc EXCEPT ![h] = "idle"]
      /\ UNCHANGED <<platformVars, rows, publicationVars>>
  BY DEF EndHydration, Goto, StoreInvariant, Writers
<1>2. [x \in Comments |-> 0] \in [Comments -> 0 .. MaxEdits + 1] /\ <<>> \in Seq(Observations)
  BY StoreBounds
<1>3. TypeOK'
  BY <1>1, <1>2 DEF TypeOK, platformVars, publicationVars
<1>4. HydrationShape(h)' /\ Held(h)' = {}
  BY <1>1, StoreBounds DEF HydrationShape, TypeOK, Held
<1>5. QED
  BY <1>1, <1>3, <1>4, HydrationStepUnwritten DEF TypeOK

\* What a hydration that commits does to a row: nothing, or it makes it the
\* comment that the platform has, and no row that a publication holds.
LEMMA UpsertManyRows ==
    ASSUME StoreInvariant, NEW h \in Hydrators, UpsertMany(h)
    PROVE  /\ \A x \in Comments \ Ids(page[h]) : rows'[x] = rows[x]
           /\ \A x \in Comments \cap Ids(page[h]) :
                /\ rows'[x] \in Contents
                /\ rows'[x].text = ValueOf(page[h], x).text
                /\ rows'[x].text.by = platform[x].text.by
                /\ rows'[x].text.edit \in 1 .. platform[x].text.edit
                /\ rows'[x].parent = platform[x].parent
           /\ \A p \in Publishers : pc[p] = "inserted" => reply[p] \notin Ids(page[h])
<1>1. /\ TypeOK /\ pc[h] = "upsert" /\ todo[h] = {} /\ HydrationShape(h)
      /\ rows' = [x \in Comments |->
                     IF x \in Ids(page[h]) THEN Upserted(rows[x], ValueOf(page[h], x))
                     ELSE rows[x]]
  BY DEF UpsertMany, StoreInvariant
<1>2. PICK top, size, low \in Nat : Reading(h, top, size, low)
  BY <1>1 DEF HydrationShape
<1>3. size >= 1 /\ size <= top /\ Newest(page[h], top, size)
  BY <1>2 DEF Reading
<1>4. Ids(page[h]) = top - size + 1 .. top
  BY <1>1, <1>2, ReadingLocks
<1>5. ASSUME NEW x \in Comments \cap Ids(page[h])
      PROVE  /\ rows'[x] \in Contents
             /\ rows'[x].text = ValueOf(page[h], x).text
             /\ rows'[x].text.by = platform[x].text.by
             /\ rows'[x].text.edit \in 1 .. platform[x].text.edit
             /\ rows'[x].parent = platform[x].parent
  <2> DEFINE last == LastPlace(page[h], top, size, x)
  <2>1. PICK i \in 1 .. Len(page[h]) : page[h][i].id = x /\ ValueOf(page[h], x) = page[h][i]
    <3>1. /\ last \in 1 .. Len(page[h]) /\ page[h][last].id = x
          /\ ValueOf(page[h], x) = page[h][last]
      BY <1>3, <1>4, PageLast
    <3> HIDE DEF last
    <3>2. QED
      BY <3>1
  <2> DEFINE value == page[h][i]
  <2>2. /\ value.text.by = platform[x].text.by
        /\ value.text.edit \in 1 .. platform[x].text.edit
        /\ value.parent = platform[x].parent
    BY <1>1, <2>1 DEF HydrationShape, Faithful
  <2>3. value \in Observations
    BY <1>3, <2>1, ElementOfSeq DEF Newest
  <2>4. rows'[x] = [rows[x] EXCEPT !.text = value.text, !.parent = value.parent]
    BY <1>1, <2>1 DEF Upserted
  <2>5. rows[x] \in Contents
    BY <1>1, StoreNumbers
  <2>6. rows'[x] \in Contents /\ rows'[x].text = value.text /\ rows'[x].parent = value.parent
    BY <2>3, <2>4, <2>5 DEF Contents, Observations
  <2>7. QED
    BY <2>1, <2>2, <2>6
<1>6. ASSUME NEW p \in Publishers, pc[p] = "inserted" PROVE reply[p] \notin Ids(page[h])
  <2>1. Held(h) = Ids(page[h]) /\ Held(p) = {reply[p]} /\ h # p /\ h \in Writers /\ p \in Writers
    BY <1>1, <1>6, StoreBounds DEF Held, Writers
  <2>2. QED
    BY <2>1 DEF StoreInvariant, LocksExclude
<1>7. QED
  BY <1>1, <1>5, <1>6

\* The transaction of a page commits, and its rows are seen.
LEMMA UpsertManyKeeps ==
    ASSUME StoreInvariant, NEW h \in Hydrators, UpsertMany(h)
    PROVE  StoreInvariant'
<1> DEFINE ids == Ids(page[h])
<1>1. /\ TypeOK /\ pc[h] = "upsert" /\ h \in Writers
      /\ page' = [page EXCEPT ![h] = <<>>]
      /\ todo' = [todo EXCEPT ![h] = {}]
      /\ had' = [had EXCEPT ![h] = [x \in Comments |-> 0]]
      /\ pc' = [pc EXCEPT ![h] = "idle"]
      /\ UNCHANGED <<published, platform, edits, target, reply, outcome>>
      /\ UNCHANGED platformVars /\ UNCHANGED publicationVars
      /\ DOMAIN rows' = Comments /\ rows' = [x \in Comments |-> rows'[x]]
  BY DEF UpsertMany, EndHydration, Goto, StoreInvariant, Writers, platformVars, publicationVars
<1>2. /\ \A x \in Comments \ ids : rows'[x] = rows[x]
      /\ \A x \in Comments \cap ids :
                /\ rows'[x] \in Contents
                /\ rows'[x].text.by = platform[x].text.by
                /\ rows'[x].text.edit \in 1 .. platform[x].text.edit
                /\ rows'[x].parent = platform[x].parent
      /\ \A p \in Publishers : pc[p] = "inserted" => reply[p] \notin ids
  BY UpsertManyRows
<1> HIDE DEF ids
<1>3. PlatformGrows /\ AnswersStay
  BY <1>1, PlatformStays DEF AnswersStay
<1>4. TypeOK'
  <2>1. rows' \in [Comments -> Contents]
    <3>1. ASSUME NEW x \in Comments PROVE rows'[x] \in Contents
      BY <1>1, <1>2, StoreNumbers
    <3>2. QED
      BY <1>1, <3>1
  <2>2. [x \in Comments |-> 0] \in [Comments -> 0 .. MaxEdits + 1] /\ <<>> \in Seq(Observations)
    BY StoreBounds
  <2>3. QED
    BY <1>1, <2>1, <2>2 DEF TypeOK
<1>5. HydrationShape(h)' /\ Held(h)' = {}
  BY <1>1, StoreBounds DEF HydrationShape, TypeOK, Held
<1>6. ASSUME NEW p \in Publishers
      PROVE  /\ pc[p] = "inserted" => rows'[reply[p]] = Absent
             /\ pc[p] = "readback" => rows'[reply[p]] # Absent
  <2>1. pc[p] \in {"inserted", "readback"} => reply[p] \in Comments
    BY StoreNumbers DEF StoreInvariant, PublicationShape
  <2>2. pc[p] = "inserted" => rows[reply[p]] = Absent
    BY DEF StoreInvariant, PublicationShape
  <2>3. pc[p] = "readback" => rows[reply[p]] # Absent
    BY DEF StoreInvariant, PublicationShape, Stored
  <2>4. Absent.text.edit = 0
    BY DEF Absent, Text
  <2>5. QED
    BY <1>2, <2>1, <2>2, <2>3, <2>4
<1>7. ASSUME NEW x \in Comments PROVE RowShape(x)'
  <2>1. CASE x \in ids
    BY <1>1, <1>2, <2>1 DEF RowShape
  <2>2. CASE x \notin ids
    BY <1>2, <1>3, <2>2, RowStays
  <2>3. QED
    BY <2>1, <2>2
<1>8. AnswersAreJustified'
  <2> SUFFICES ASSUME NEW p \in Publishers, outcome[p] # "none" PROVE AnswerIsJustified(p)'
    BY <1>1 DEF AnswersAreJustified, AnswerIsJustified
  <2>1. reply[p] \in Comments
    BY StoreNumbers DEF StoreInvariant, PublicationShape
  <2>2. CASE reply[p] \notin ids
    BY <1>1, <1>2, <1>3, <2>1, <2>2, AnswerStays
  <2>3. CASE reply[p] \in ids
    <3>1. platform[reply[p]].text.by = p => platform[reply[p]].parent = target[p]
      BY <2>1 DEF StoreInvariant, PlatformShape
    <3>2. Stored(reply[p])'
      BY <1>1, <1>2, <2>1, <2>3 DEF Stored, Absent, Text
    <3>3. AnswerIsJustified(p) /\ (NameIsShared(p) => NameIsShared(p)')
      BY <1>1 DEF StoreInvariant, AnswersAreJustified, NameIsShared
    <3>4. ~NameIsShared(p) => platform[reply[p]].text.by = p
      BY DEF NameIsShared
    <3>5. QED
      BY <1>1, <1>2, <2>1, <2>3, <3>1, <3>2, <3>3, <3>4 DEF AnswerIsJustified, SameBody, Stored
  <2>4. QED
    BY <2>2, <2>3
<1>9. /\ \A a \in Writers \ {h} : pc'[a] = pc[a]
      /\ \A g \in Hydrators \ {h} : page'[g] = page[g] /\ todo'[g] = todo[g] /\ had'[g] = had[g]
      /\ \A a \in Writers \ {h} : Held(h)' \cap Held(a) = {}
  BY <1>1, <1>5 DEF TypeOK
<1>10. UNCHANGED platformVars /\ UNCHANGED publicationVars /\ HydrationShape(h)'
  BY <1>1, <1>5
<1>11. QED
  BY <1>4, <1>6, <1>7, <1>8, <1>9, <1>10, HydrationStep

-----------------------------------------------------------------------------
(***************************************************************************)
(* The steps of a publication.                                             *)
(***************************************************************************)
\* What is left of a publication's step that writes no row and answers nobody.
LEMMA PublicationStep ==
    ASSUME StoreInvariant, TypeOK', NEW p \in Publishers,
           PlatformGrows, PlatformShape',
           UNCHANGED rows, UNCHANGED hydrationVars, UNCHANGED outcome,
           \A a \in Writers \ {p} : pc'[a] = pc[a],
           \A q \in Publishers \ {p} : reply'[q] = reply[q] /\ target'[q] = target[q],
           reply[p] # None => reply'[p] = reply[p],
           pc[p] # "done",
           PublicationShape(p)',
           \A a \in Writers \ {p} : Held(p)' \cap Held(a) = {}
    PROVE  StoreInvariant'
<1>1. UNCHANGED <<rows, page, todo, had, outcome>>
  BY DEF hydrationVars
<1>2. AnswersStay
  BY <1>1 DEF AnswersStay, StoreInvariant, PublicationShape
<1>3. ASSUME NEW h \in Hydrators PROVE HydrationShape(h)'
  <2>1. h \in Writers \ {p}
    BY StoreBounds DEF Writers
  <2>2. QED
    BY <1>1, <2>1, HydrationStays DEF StoreInvariant
<1>4. ASSUME NEW q \in Publishers PROVE PublicationShape(q)'
  <2>1. CASE q # p
    BY <1>1, <2>1, PublicationStays DEF StoreInvariant, PublicationShape, Stored, Writers
  <2>2. QED
    BY <2>1
<1>5. \A x \in Comments : RowShape(x)'
  BY <1>1, <1>2, RowStays
<1>6. LocksExclude'
  <2>1. ASSUME NEW a \in Writers \ {p} PROVE Held(a)' = Held(a)
    BY <1>1, <2>1 DEF Held, Writers
  <2>2. QED
    BY <2>1 DEF LocksExclude, StoreInvariant
<1>7. AnswersAreJustified'
  BY <1>1, <1>2, AnswerStays DEF AnswersAreJustified, AnswerIsJustified
<1>8. QED
  BY <1>3, <1>4, <1>5, <1>6, <1>7 DEF StoreInvariant

\* A reply passes the depth gate.
LEMMA AcceptReplyKeeps ==
    ASSUME StoreInvariant, NEW p \in Publishers, NEW x \in Comments, AcceptReply(p, x)
    PROVE  StoreInvariant'
<1>1. /\ TypeOK /\ p \in Writers /\ pc[p] = "idle" /\ Stored(x)
      /\ rows[x].parent = None
      /\ target' = [target EXCEPT ![p] = x]
      /\ pc' = [pc EXCEPT ![p] = "publish"]
      /\ UNCHANGED <<platformVars, rows, hydrationVars, reply, outcome>>
  BY DEF AcceptReply, Goto, StoreInvariant, Writers, ParentUnresolved
<1>2. TypeOK'
  BY <1>1 DEF TypeOK, platformVars, hydrationVars
<1>3. x \in Existing /\ platform[x].parent = None
  <2>1. x \in Existing
    BY <1>1, StoredExist
  <2>2. ASSUME NEW q \in Publishers, outcome[q] \in {"reply", "failed"},
               rows[x] = Content(Published(q))
        PROVE  FALSE
    BY <1>1, <2>2, StoreNumbers, NoneIsNothing
       DEF Content, Published, StoreInvariant, PublicationShape
  <2>3. QED
    BY <1>1, <2>1, <2>2 DEF StoreInvariant, RowShape
<1>4. PlatformGrows /\ Existing' = Existing
  BY <1>1, PlatformStays
<1>5. reply[p] = None /\ outcome[p] = "none"
  BY <1>1 DEF StoreInvariant, PublicationShape, TypeOK
<1>6. PlatformShape'
  BY <1>1, <1>5, PlatformShapeStays DEF TypeOK
<1>7. PublicationShape(p)'
  BY <1>1, <1>3, <1>4, <1>5 DEF PublicationShape, TypeOK, platformVars
<1>8. Held(p)' = {}
  BY <1>1, StoreBounds DEF Held, TypeOK
<1>9. QED
  BY <1>1, <1>2, <1>4, <1>5, <1>6, <1>7, <1>8, PublicationStep DEF TypeOK

\* The platform gives the reply a name.
LEMMA PlatformPublishesKeeps ==
    ASSUME StoreInvariant, NEW p \in Publishers, PlatformPublishes(p)
    PROVE  StoreInvariant'
<1>1. /\ TypeOK /\ p \in Writers /\ pc[p] = "publish"
      /\ pc' = [pc EXCEPT ![p] = "store"]
      /\ UNCHANGED <<edits, rows, hydrationVars, target, outcome>>
      /\ reply[p] = None /\ target[p] \in Existing /\ target[p] \in Comments
      /\ platform[target[p]].parent = None /\ outcome[p] = "none"
  BY StoreNumbers DEF PlatformPublishes, Goto, StoreInvariant, PublicationShape, Writers, TypeOK
<1>2. Held(p)' = {}
  BY <1>1, StoreBounds DEF Held, TypeOK
<1>3. CASE /\ published < MaxComments /\ published' = published + 1
           /\ platform' = [platform EXCEPT ![published + 1] =
                              [text |-> Text(p, 1), parent |-> target[p]]]
           /\ reply' = [reply EXCEPT ![p] = published + 1]
  <2> DEFINE text == Text(p, 1)
  <2>1. text \in Texts /\ text.edit = 1 /\ text.by = p
    BY StoreBounds DEF Texts, Text
  <2> HIDE DEF text
  <2>2. /\ PlatformGrows /\ platform' \in [Comments -> Contents]
        /\ published + 1 \in Comments /\ published + 1 \notin Existing
        /\ \A x \in Comments :
                /\ IF x \in Existing' THEN platform'[x].text.edit >= 1 ELSE platform'[x] = Absent
                /\ x \in Existing' => platform'[x].text.edit <= edits' + 1
                /\ x # published + 1 => platform'[x] = platform[x]
        /\ platform'[published + 1] = [text |-> text, parent |-> target[p]]
    BY <1>1, <1>3, <2>1, NewComment DEF text
  <2>3. /\ published' \in 0 .. MaxComments /\ published + 1 \in Existing'
        /\ Existing \subseteq Existing' /\ Existing' \subseteq Comments
    BY <1>1, <1>3, StoreNumbers, StoreBounds DEF TypeOK, Existing, Comments
  <2>4. TypeOK'
    BY <1>1, <1>3, <2>2, <2>3 DEF TypeOK, hydrationVars
  <2>5. ASSUME NEW x \in Comments, NEW q \in Publishers, platform'[x].text.by = q
        PROVE  reply'[q] = x /\ platform'[x].parent = target'[q]
    <3>1. CASE x = published + 1
      BY <1>1, <1>3, <2>1, <2>2, <2>5, <3>1 DEF TypeOK
    <3>2. CASE x # published + 1
      <4>1. reply[q] = x /\ platform[x].parent = target[q]
        BY <2>2, <2>5, <3>2 DEF StoreInvariant, PlatformShape
      <4>2. q # p
        BY <1>1, <4>1, NoneIsNothing
      <4>3. QED
        BY <1>1, <1>3, <2>2, <3>2, <4>1, <4>2 DEF TypeOK
    <3>3. QED
      BY <3>1, <3>2
  <2>6. PlatformShape'
    BY <2>2, <2>3, <2>5 DEF PlatformShape
  <2>7. PublicationShape(p)'
    BY <1>1, <1>3, <2>2, <2>3 DEF PublicationShape, TypeOK
  <2>8. QED
    BY <1>1, <1>2, <1>3, <2>2, <2>4, <2>6, <2>7, PublicationStep DEF TypeOK
<1>4. CASE /\ \E x \in Existing :
                platform[x].text.by # p /\ reply' = [reply EXCEPT ![p] = x]
           /\ UNCHANGED <<published, platform>>
  <2>1. PICK x \in Existing : reply' = [reply EXCEPT ![p] = x]
    BY <1>4
  <2>2. x \in Comments /\ UNCHANGED platformVars
    BY <1>1, <1>4, StoreNumbers DEF platformVars
  <2>3. TypeOK'
    BY <1>1, <1>4, <2>1, <2>2 DEF TypeOK, hydrationVars
  <2>4. PlatformGrows /\ Existing' = Existing
    BY <2>2, PlatformStays
  <2>5. PlatformShape'
    BY <1>1, <2>1, <2>2, PlatformShapeStays DEF TypeOK
  <2>6. PublicationShape(p)'
    BY <1>1, <1>4, <2>1, <2>4 DEF PublicationShape, TypeOK
  <2>7. QED
    BY <1>1, <1>2, <2>1, <2>3, <2>4, <2>5, <2>6, PublicationStep DEF TypeOK
<1>5. QED
  BY <1>3, <1>4 DEF PlatformPublishes

\* The insert of the reply takes the row, or finds it taken.
LEMMA InsertReplyKeeps ==
    ASSUME StoreInvariant, NEW p \in Publishers, InsertReply(p)
    PROVE  StoreInvariant'
<1>1. /\ TypeOK /\ p \in Writers /\ pc[p] = "store" /\ Free(p)
      /\ pc' = [pc EXCEPT ![p] = IF Stored(reply[p]) THEN "readback" ELSE "inserted"]
      /\ UNCHANGED <<platformVars, rows, hydrationVars, publicationVars>>
      /\ UNCHANGED <<target, reply, outcome>>
  BY DEF InsertReply, Goto, StoreInvariant, Writers, publicationVars
<1>2. TypeOK'
  BY <1>1 DEF TypeOK, platformVars, hydrationVars
<1>3. PlatformGrows /\ Existing' = Existing /\ PlatformShape'
  BY <1>1, PlatformStays, PlatformShapeStays
<1>4. PublicationShape(p)'
  <2>1. PublicationShape(p) /\ outcome[p] = "none"
    BY <1>1 DEF StoreInvariant, PublicationShape
  <2>2. QED
    BY <1>1, <1>3, <2>1 DEF PublicationShape, TypeOK, platformVars, Stored
<1>5. ASSUME NEW a \in Writers \ {p} PROVE Held(p)' \cap Held(a) = {}
  <2>1. Held(p)' \subseteq {reply[p]} /\ Wanted(p) = {reply[p]}
    BY <1>1, StoreBounds DEF Held, Wanted, TypeOK
  <2>2. QED
    BY <1>1, <2>1 DEF Free, WaitsFor
<1>6. QED
  BY <1>1, <1>2, <1>3, <1>4, <1>5, PublicationStep DEF TypeOK

\* What is left of a publication's last step.
LEMMA EndStep ==
    ASSUME StoreInvariant, NEW p \in Publishers, NEW answer \in {"reply", "refused", "failed"},
           End(p, answer), pc[p] \in {"store", "inserted", "readback"},
           rows' \in [Comments -> Contents],
           \A x \in Comments \ {reply[p]} : rows'[x] = rows[x],
           rows'[reply[p]] = rows[reply[p]] \/ (pc[p] = "inserted" /\ rows'[reply[p]] # Absent),
           RowShape(reply[p])',
           AnswerIsJustified(p)'
    PROVE  StoreInvariant'
<1>1. /\ TypeOK /\ p \in Writers /\ outcome[p] = "none"
      /\ outcome' = [outcome EXCEPT ![p] = answer]
      /\ pc' = [pc EXCEPT ![p] = "done"]
      /\ UNCHANGED <<platformVars, hydrationVars, target, reply>>
      /\ UNCHANGED <<published, platform, edits, page, todo, had>>
      /\ PublicationShape(p) /\ reply[p] \in Existing /\ reply[p] \in Comments
  BY StoreNumbers DEF End, Goto, StoreInvariant, PublicationShape, Writers, TypeOK,
                      platformVars, hydrationVars
<1>2. PlatformGrows /\ Existing' = Existing /\ PlatformShape' /\ AnswersStay
  <2>1. AnswersStay
    BY <1>1 DEF AnswersStay, TypeOK
  <2>2. QED
    BY <1>1, <2>1, PlatformStays, PlatformShapeStays
<1>3. TypeOK'
  BY <1>1 DEF TypeOK
<1>4. ASSUME NEW h \in Hydrators PROVE HydrationShape(h)'
  <2>1. h \in Writers \ {p}
    BY StoreBounds DEF Writers
  <2>2. QED
    BY <1>1, <1>2, <2>1, HydrationStays DEF StoreInvariant, TypeOK
<1>5. ASSUME NEW q \in Publishers PROVE PublicationShape(q)'
  <2>1. CASE q = p
    BY <1>1, <2>1 DEF PublicationShape, TypeOK, Existing
  <2>2. CASE q # p
    <3>1. PublicationShape(q) /\ q \in Writers
      BY DEF StoreInvariant, Writers
    <3>2. pc[q] \in {"inserted", "readback"} => reply[q] \in Comments
      BY <3>1, StoreNumbers DEF StoreInvariant, PublicationShape
    <3>3. ASSUME pc[q] = "inserted" PROVE rows'[reply[q]] = Absent
      <4>1. rows[reply[q]] = Absent
        BY <3>1, <3>3 DEF PublicationShape
      <4>2. ASSUME reply[q] = reply[p], pc[p] = "inserted" PROVE FALSE
        <5>1. Held(p) = {reply[p]} /\ Held(q) = {reply[q]}
          BY <3>3, <4>2, StoreBounds DEF Held
        <5>2. QED
          BY <1>1, <2>2, <3>1, <4>2, <5>1 DEF StoreInvariant, LocksExclude
      <4>3. QED
        BY <3>2, <3>3, <4>1, <4>2
    <3>4. ASSUME pc[q] = "readback" PROVE rows'[reply[q]] # Absent
      BY <3>1, <3>2, <3>4 DEF PublicationShape, Stored
    <3>5. pc'[q] = pc[q] /\ outcome'[q] = outcome[q] /\ target'[q] = target[q] /\ reply'[q] = reply[q]
      BY <1>1, <2>2, <3>1 DEF TypeOK
    <3>6. QED
      BY <1>1, <1>2, <3>1, <3>3, <3>4, <3>5, PublicationStays
  <2>3. QED
    BY <2>1, <2>2
<1>6. ASSUME NEW x \in Comments PROVE RowShape(x)'
  <2>1. CASE x = reply[p]
    BY <1>1, <2>1 DEF RowShape, Stored
  <2>2. CASE x # reply[p]
    BY <1>2, <2>2, RowStays
  <2>3. QED
    BY <2>1, <2>2
<1>7. LocksExclude'
  <2>1. ASSUME NEW a \in Writers PROVE Held(a)' \subseteq Held(a)
    BY <1>1, <2>1, StoreBounds DEF Held, Writers, TypeOK
  <2>2. QED
    BY <2>1, LocksStay DEF StoreInvariant
<1>8. AnswersAreJustified'
  <2> SUFFICES ASSUME NEW q \in Publishers, outcome'[q] # "none" PROVE AnswerIsJustified(q)'
    BY DEF AnswersAreJustified, AnswerIsJustified
  <2>1. CASE q = p
    BY <2>1
  <2>2. CASE q # p /\ rows'[reply[q]] = rows[reply[q]]
    <3>1. outcome[q] # "none"
      BY <1>1, <2>2 DEF TypeOK
    <3>2. QED
      BY <1>1, <1>2, <2>2, <3>1, AnswerStays
  <2>3. CASE q # p /\ rows'[reply[q]] # rows[reply[q]]
    <3>1. /\ outcome[q] # "none" /\ outcome'[q] = outcome[q] /\ reply[q] \in Comments
      BY <1>1, <2>3, StoreNumbers DEF TypeOK, StoreInvariant, PublicationShape
    <3>2. reply[q] = reply[p] /\ rows[reply[p]] = Absent
      BY <1>1, <2>3, <3>1 DEF PublicationShape
    <3>3. NameIsShared(q)' /\ Stored(reply[q])'
      BY <1>1, <2>3, <3>2 DEF NameIsShared, Stored
    <3>4. QED
      BY <1>1, <3>3 DEF AnswerIsJustified
  <2>4. QED
    BY <2>1, <2>2, <2>3
<1>9. QED
  BY <1>2, <1>3, <1>4, <1>5, <1>6, <1>7, <1>8 DEF StoreInvariant

\* The reply's own insert commits, and its caller is answered or not.
LEMMA CommitKeeps ==
    ASSUME StoreInvariant, NEW p \in Publishers, NEW answer \in {"reply", "failed"},
           CommitAs(p, answer)
    PROVE  StoreInvariant'
<1>1. /\ TypeOK /\ pc[p] = "inserted" /\ PublicationShape(p)
      /\ rows' = [rows EXCEPT ![reply[p]] = Content(Published(p))]
      /\ End(p, answer)
      /\ reply[p] \in Comments /\ target[p] \in Comments
  BY StoreNumbers DEF CommitAs, StoreInvariant, PublicationShape
<1>2. /\ Content(Published(p)) = [text |-> Text(p, 1), parent |-> target[p]]
      /\ Content(Published(p)) \in Contents
  BY <1>1, StoreBounds DEF Content, Published, Contents, Texts, Text
<1>3. /\ rows' \in [Comments -> Contents]
      /\ rows'[reply[p]] = [text |-> Text(p, 1), parent |-> target[p]]
      /\ \A x \in Comments \ {reply[p]} : rows'[x] = rows[x]
  BY <1>1, <1>2 DEF TypeOK
<1>4. rows'[reply[p]] # Absent
  BY <1>3 DEF Absent, Text
<1>5. /\ UNCHANGED <<reply, target>> /\ outcome'[p] = answer
      /\ outcome' = [outcome EXCEPT ![p] = answer]
  BY <1>1 DEF End, TypeOK
<1>6. RowShape(reply[p])'
  BY <1>1, <1>2, <1>3, <1>5 DEF RowShape, Content, Published
<1>7. /\ rows'[reply[p]].text.by = p /\ rows'[reply[p]].parent = target[p]
      /\ outcome'[p] # "refused" /\ Stored(reply[p])'
  BY <1>1, <1>3, <1>4, <1>5 DEF Text, Stored
<1>8. AnswerIsJustified(p)'
  BY <1>5, <1>7 DEF AnswerIsJustified, Stored
<1>9. QED
  BY <1>1, <1>3, <1>4, <1>6, <1>8, EndStep

\* The reply reads back the row it found taken.
LEMMA ReadBackKeeps ==
    ASSUME StoreInvariant, NEW p \in Publishers, ReadBack(p)
    PROVE  StoreInvariant'
<1> DEFINE x == reply[p]
           same == SameBody(x, rows[x].text, Text(p, 1))
           answer == IF same THEN "reply" ELSE "refused"
<1>1. /\ TypeOK /\ pc[p] = "readback" /\ PublicationShape(p) /\ outcome[p] = "none"
      /\ rows' = rows /\ End(p, answer) /\ outcome'[p] = answer
      /\ UNCHANGED <<reply, target, platform>>
      /\ x \in Comments /\ x \in Existing /\ Stored(x)
  BY StoreNumbers DEF ReadBack, End, StoreInvariant, PublicationShape, TypeOK, Published,
                      platformVars
<1>2. /\ rows[x] \in Contents /\ platform[x] \in Contents
      /\ rows \in [Comments -> Contents]
  BY <1>1 DEF TypeOK
<1>3. RowShape(x) /\ PlatformGrows
  BY <1>1, PlatformStays DEF StoreInvariant, End
<1>4. RowShape(x)'
  <2>1. AnswersStay
    BY <1>1 DEF AnswersStay, End, TypeOK
  <2>2. QED
    <3>1. \A y \in Comments : RowShape(y)'
      BY <1>1, <1>3, <2>1, RowStays
    <3>2. QED
      BY <1>1, <3>1 DEF RowShape, Stored
<1>5. ASSUME ~NameIsShared(p)
      PROVE  /\ rows[x].text.by = p /\ rows[x].parent = target[p]
             /\ rows[x].text.edit \in 1 .. platform[x].text.edit
  <2>1. platform[x].text.by = p /\ \A q \in Publishers \ {p} : reply[q] # x
    BY <1>5 DEF NameIsShared
  <2>2. platform[x].parent = target[p]
    BY <1>1, <2>1 DEF StoreInvariant, PlatformShape
  <2>3. ~ \E q \in Publishers : outcome[q] \in {"reply", "failed"} /\ reply[q] = x
    BY <1>1, <2>1
  <2>4. QED
    BY <1>1, <1>3, <2>1, <2>2, <2>3 DEF RowShape
<1>6. NameIsShared(p) <=> NameIsShared(p)'
  BY <1>1 DEF NameIsShared
<1>7. CASE same
  <2>1. AnswerIsJustified(p)'
    BY <1>1, <1>5, <1>6, <1>7 DEF AnswerIsJustified, Stored
  <2>2. answer = "reply"
    BY <1>7
  <2>3. QED
    BY <1>1, <1>2, <1>4, <2>1, <2>2, EndStep
<1>8. CASE ~same
  <2>1. ASSUME ~NameIsShared(p)
        PROVE  \E edit \in 2 .. platform[x].text.edit : ~SameBody(x, Text(p, edit), Text(p, 1))
    <3> DEFINE edit == rows[x].text.edit
    <3>1. rows[x].text = Text(p, edit)
      BY <1>2, <1>5, <2>1 DEF Contents, Texts, Text
    <3>2. edit # 1
      BY <1>8, <3>1 DEF SameBody
    <3>3. edit \in 2 .. platform[x].text.edit
      BY <1>1, <1>5, <2>1, <3>2, StoreNumbers DEF StoreInvariant
    <3>4. QED
      BY <1>8, <3>1, <3>3
  <2>2. AnswerIsJustified(p)'
    BY <1>1, <1>6, <1>8, <2>1 DEF AnswerIsJustified, SameBody
  <2>3. answer = "refused"
    BY <1>8
  <2>4. QED
    BY <1>1, <1>2, <1>4, <2>2, <2>3, EndStep
<1>9. QED
  BY <1>7, <1>8

\* The transaction of a reply throws: rolled back, or committed unacknowledged.
LEMMA StoreFailsKeeps ==
    ASSUME StoreInvariant, NEW p \in Publishers, StoreFails(p)
    PROVE  StoreInvariant'
<1>1. CASE pc[p] \in {"store", "inserted", "readback"} /\ End(p, "failed") /\ UNCHANGED rows
  <2>1. /\ TypeOK /\ outcome[p] = "none" /\ outcome'[p] = "failed" /\ UNCHANGED <<reply, target>>
        /\ reply[p] \in Comments
    BY <1>1, StoreNumbers DEF End, StoreInvariant, PublicationShape, TypeOK
  <2>2. rows \in [Comments -> Contents] /\ PlatformGrows /\ AnswersStay
    BY <1>1, <2>1, PlatformStays DEF TypeOK, End, AnswersStay
  <2>3. RowShape(reply[p])'
    <3>1. \A x \in Comments : RowShape(x)'
      BY <1>1, <2>2, RowStays
    <3>2. QED
      BY <1>1, <2>1, <3>1 DEF RowShape, Stored
  <2>4. AnswerIsJustified(p)'
    BY <2>1 DEF AnswerIsJustified
  <2>5. QED
    BY <1>1, <2>1, <2>2, <2>3, <2>4, EndStep
<1>2. CASE CommitAs(p, "failed")
  BY <1>2, CommitKeeps
<1>3. QED
  BY <1>1, <1>2 DEF StoreFails

-----------------------------------------------------------------------------
(***************************************************************************)
(* The theorems.                                                           *)
(***************************************************************************)
\* Every step keeps the invariant.
LEMMA NextKeeps == StoreInvariant /\ [Next]_vars => StoreInvariant'
<1> SUFFICES ASSUME StoreInvariant, [Next]_vars PROVE StoreInvariant'
  OBVIOUS
<1>1. ASSUME NEW parent \in Existing \union {None}, SomeoneComments(parent)
      PROVE  StoreInvariant'
  BY <1>1, SomeoneCommentsKeeps
<1>2. ASSUME NEW x \in Existing, SomeoneEdits(x) PROVE StoreInvariant'
  BY <1>2, SomeoneEditsKeeps
<1>3. ASSUME NEW h \in Hydrators, Hydrate(h) PROVE StoreInvariant'
  BY <1>3, FetchPageKeeps, WriteRowKeeps, UpsertManyKeeps, UpsertRolledBackKeeps
     DEF Hydrate, UpsertFails
<1>4. ASSUME NEW p \in Publishers, NEW x \in Comments, AcceptReply(p, x) PROVE StoreInvariant'
  BY <1>4, AcceptReplyKeeps
<1>5. ASSUME NEW p \in Publishers, PlatformPublishes(p) PROVE StoreInvariant'
  BY <1>5, PlatformPublishesKeeps
<1>6. ASSUME NEW p \in Publishers, StorePublishedReply(p) PROVE StoreInvariant'
  BY <1>6, InsertReplyKeeps, CommitKeeps, ReadBackKeeps, StoreFailsKeeps
     DEF StorePublishedReply, CommitReply
<1>7. CASE UNCHANGED vars
  <2>1. /\ UNCHANGED <<platformVars, rows, pc, hydrationVars, publicationVars>>
        /\ UNCHANGED <<published, platform, edits, page, todo, had, target, reply, outcome>>
    BY <1>7 DEF vars, platformVars, hydrationVars, publicationVars
  <2>2. PlatformGrows /\ PlatformShape'
    BY <2>1, PlatformStays, PlatformShapeStays
  <2>3. TypeOK'
    BY <2>1 DEF StoreInvariant, TypeOK
  <2>4. QED
    BY <2>1, <2>2, <2>3, PlatformStep
<1>8. QED
  BY <1>1, <1>2, <1>3, <1>4, <1>5, <1>6, <1>7 DEF Next

\* So it always holds.
LEMMA StoreInvariantHolds == Spec => []StoreInvariant
<1>1. QED
  BY InitStore, NextKeeps, PTL DEF Spec

\* The variables of the comments table and its writers keep their types.
THEOREM TypeCorrectness == Spec => []TypeOK
<1>1. StoreInvariant => TypeOK
  BY DEF StoreInvariant
<1>2. QED
  BY <1>1, StoreInvariantHolds, PTL

\* However many hydrations and publications overlap, and whatever pages they
\* write, their transactions never wait for each other in a circle.
THEOREM NoDeadlock == Spec => []NoWaitCycle
BY NoCircle, StoreInvariantHolds, PTL

\* A row holds a text of its own comment, or that of a reply that was given its
\* name and stored first.
THEOREM RowsAreTheirComments == Spec => []RowsHoldTheirComment
<1>1. StoreInvariant => RowsHoldTheirComment
  BY DEF StoreInvariant, RowShape, RowsHoldTheirComment
<1>2. QED
  BY <1>1, StoreInvariantHolds, PTL

\* No reply is published below a reply, in whatever order comments are observed.
THEOREM RepliesStayOneLevelDeep == Spec => []OneLevelThreads
<1>1. StoreInvariant => OneLevelThreads
  BY DEF StoreInvariant, PublicationShape, OneLevelThreads
<1>2. QED
  BY <1>1, StoreInvariantHolds, PTL

\* A publication is answered with its reply, or refused, for a reason that the
\* table and the platform bear out.
THEOREM AnswersHaveReasons == Spec => []AnswersAreJustified
<1>1. StoreInvariant => AnswersAreJustified
  BY DEF StoreInvariant
<1>2. QED
  BY <1>1, StoreInvariantHolds, PTL

\* A stored comment is never overwritten by a reply that was given its name.
THEOREM StoredCommentsLast == Spec => CommentsAreNotOverwritten
<1> DEFINE Kept(x) ==
      Stored(x) /\ rows[x].text.by = platform[x].text.by =>
          rows'[x].text.by = rows[x].text.by /\ rows'[x].parent = rows[x].parent
<1>1. ASSUME StoreInvariant, [Next]_vars, NEW x \in Comments PROVE Kept(x)
  <2>1. ASSUME rows' = rows PROVE Kept(x)
    BY <2>1
  <2>2. ASSUME NEW h \in Hydrators, UpsertMany(h) PROVE Kept(x)
    <3>1. CASE x \notin Ids(page[h])
      BY <1>1, <2>2, <3>1, UpsertManyRows
    <3>2. CASE x \in Ids(page[h])
      <4>1. rows'[x].text.by = platform[x].text.by /\ rows'[x].parent = platform[x].parent
        BY <1>1, <2>2, <3>2, UpsertManyRows
      <4>2. ASSUME Stored(x), rows[x].text.by = platform[x].text.by
            PROVE  rows[x].parent = platform[x].parent
        <5>1. ASSUME NEW p \in Publishers, rows[x] = Content(Published(p))
              PROVE  rows[x].parent = platform[x].parent
          <6>1. platform[x].text.by = p /\ rows[x].parent = target[p]
            BY <4>2, <5>1 DEF Content, Published, Text
          <6>2. QED
            BY <1>1, <6>1 DEF StoreInvariant, PlatformShape
        <5>2. QED
          BY <1>1, <4>2, <5>1 DEF StoreInvariant, RowShape
      <4>3. QED
        BY <4>1, <4>2
    <3>3. QED
      BY <3>1, <3>2
  <2>3. ASSUME NEW p \in Publishers, NEW answer, CommitAs(p, answer) PROVE Kept(x)
    <3>1. /\ rows' = [rows EXCEPT ![reply[p]] = Content(Published(p))]
          /\ rows[reply[p]] = Absent
      BY <1>1, <2>3 DEF CommitAs, StoreInvariant, PublicationShape
    <3>2. QED
      BY <1>1, <3>1 DEF Stored, StoreInvariant, TypeOK
  <2>4. ASSUME NEW p \in Publishers,
               \/ InsertReply(p) \/ ReadBack(p) \/ PlatformPublishes(p)
               \/ StoreFails(p) /\ ~CommitAs(p, "failed")
               \/ \E y \in Comments : AcceptReply(p, y)
        PROVE  rows' = rows
    BY <2>4 DEF InsertReply, ReadBack, StoreFails, PlatformPublishes, AcceptReply
  <2>5. ASSUME NEW h \in Hydrators,
               \/ WriteRow(h)
               \/ UpsertFails(h) /\ ~UpsertMany(h)
               \/ \E top \in Existing, size \in 1 .. PageSize : FetchPage(h, top, size)
        PROVE  rows' = rows
    BY <2>5 DEF WriteRow, UpsertFails, FetchPage
  <2>6. ASSUME \/ \E parent \in Existing \union {None} : SomeoneComments(parent)
               \/ \E y \in Existing : SomeoneEdits(y)
               \/ UNCHANGED vars
        PROVE  rows' = rows
    BY <2>6 DEF SomeoneComments, SomeoneEdits, vars
  <2> HIDE DEF Kept
  <2>7. QED
    BY <1>1, <2>1, <2>2, <2>3, <2>4, <2>5, <2>6
    DEF Next, Hydrate, StorePublishedReply, CommitReply
<1>2. StoreInvariant /\ [Next]_vars
        => [\A x \in Comments :
              Stored(x) /\ rows[x].text.by = platform[x].text.by =>
                rows'[x].text.by = rows[x].text.by /\ rows'[x].parent = rows[x].parent]_vars
  BY <1>1
<1>3. QED
  BY <1>2, StoreInvariantHolds, PTL DEF Spec, CommentsAreNotOverwritten

\* A hydration never stores a text older than what the table held when it read
\* its page.
THEOREM RereadsForward == Spec => RereadsMoveForward
<1>1. ASSUME StoreInvariant, StoreInvariant', [Next]_vars, NEW h \in Hydrators,
             pc[h] = "upsert", rows' # rows, pc'[h] = "idle", NEW x \in Comments
      PROVE  rows'[x].text.edit >= had[h][x]
  <2>1. UpsertMany(h)
    <3>1. ASSUME NEW g \in Hydrators, UpsertMany(g) PROVE g = h
      BY <1>1, <3>1 DEF UpsertMany, EndHydration, Goto, StoreInvariant, TypeOK, Writers
    <3>2. ASSUME NEW p \in Publishers, NEW answer, CommitAs(p, answer) PROVE FALSE
      BY <1>1, <3>2, StoreBounds DEF CommitAs, End, Goto, StoreInvariant, TypeOK, Writers
    <3>3. ASSUME NEW p \in Publishers,
                 \/ InsertReply(p) \/ ReadBack(p) \/ PlatformPublishes(p)
                 \/ StoreFails(p) /\ ~CommitAs(p, "failed")
                 \/ \E y \in Comments : AcceptReply(p, y)
          PROVE  FALSE
      BY <1>1, <3>3 DEF InsertReply, ReadBack, StoreFails, PlatformPublishes, AcceptReply
    <3>4. ASSUME NEW g \in Hydrators,
                 \/ WriteRow(g)
                 \/ UpsertFails(g) /\ ~UpsertMany(g)
                 \/ \E top \in Existing, size \in 1 .. PageSize : FetchPage(g, top, size)
          PROVE  FALSE
      BY <1>1, <3>4 DEF WriteRow, UpsertFails, FetchPage
    <3>5. ASSUME \/ \E parent \in Existing \union {None} : SomeoneComments(parent)
                 \/ \E y \in Existing : SomeoneEdits(y)
                 \/ UNCHANGED vars
          PROVE  FALSE
      BY <1>1, <3>5 DEF SomeoneComments, SomeoneEdits, vars
    <3>6. QED
      BY <1>1, <3>1, <3>2, <3>3, <3>4, <3>5
      DEF Next, Hydrate, StorePublishedReply, CommitReply
  <2>2. had[h][x] <= IF x \in Ids(page[h]) THEN ValueOf(page[h], x).text.edit ELSE 0
    BY <1>1 DEF StoreInvariant, HydrationShape, NotAfter
  <2>3. rows'[x].text.edit \in Nat /\ had[h][x] \in Nat
    <3>1. TypeOK /\ rows'[x] \in Contents
      BY <1>1 DEF StoreInvariant, TypeOK
    <3>2. QED
      BY <3>1, StoreNumbers, StoreBounds DEF Contents, Texts
  <2>4. x \in Ids(page[h]) => rows'[x].text = ValueOf(page[h], x).text
    BY <1>1, <2>1, UpsertManyRows
  <2>5. QED
    BY <2>2, <2>3, <2>4
<1>2. StoreInvariant /\ StoreInvariant' /\ [Next]_vars
        => [\A h \in Hydrators : pc[h] = "upsert" /\ rows' # rows /\ pc'[h] = "idle" =>
              \A x \in Comments : rows'[x].text.edit >= had[h][x]]_vars
  BY <1>1
<1>3. QED
  BY <1>2, StoreInvariantHolds, PTL DEF Spec, RereadsMoveForward

-----------------------------------------------------------------------------
(***************************************************************************)
(* A page stored observation by observation, as the in-memory repository   *)
(* does, leaves the rows that the statement without repetitions leaves.    *)
(***************************************************************************)
\* The rows after each observation of a page.
Tables == [Comments -> Contents]
StoredSoFar(before, after, first, observed, i) ==
    after = IF i = 0 THEN first ELSE Contract!StoreObserved(before, observed)
Storing(first, list, n) ==
    {f \in [0 .. n -> Tables] :
        \A i \in 0 .. n : StoredSoFar(f[i - 1], f[i], first, list[i], i)}

\* Storing one observation writes one row.
LEMMA StoreOne ==
    ASSUME NEW table \in Tables, NEW observed \in Observations
    PROVE  /\ Contract!StoreObserved(table, observed) \in Tables
           /\ Contract!StoreObserved(table, observed)[observed.id] = Content(observed)
           /\ \A x \in Comments \ {observed.id} :
                 Contract!StoreObserved(table, observed)[x] = table[x]
BY DEF Contract!StoreObserved, Contract!Content, Content, Tables, Contents, Observations

\* A page has a way of being stored up to each of its places.
LEMMA StoringExists ==
    ASSUME NEW first \in Tables, NEW list \in Seq(Observations)
    PROVE  \A n \in Nat : n <= Len(list) => Storing(first, list, n) # {}
<1> DEFINE S == {n \in Nat : n <= Len(list) => Storing(first, list, n) # {}}
<1>1. 0 \in S
  <2> DEFINE f == [i \in 0 .. 0 |-> first]
  <2>1. f \in [0 .. 0 -> Tables] /\ \A i \in 0 .. 0 : i = 0 /\ f[i] = first
    OBVIOUS
  <2> HIDE DEF f
  <2>2. f \in Storing(first, list, 0)
    BY <2>1 DEF Storing, StoredSoFar
  <2>3. QED
    BY <2>2
<1>2. ASSUME NEW n \in Nat, n \in S PROVE n + 1 \in S
  <2> SUFFICES ASSUME n + 1 <= Len(list) PROVE Storing(first, list, n + 1) # {}
    OBVIOUS
  <2>1. Len(list) \in Nat /\ n <= Len(list)
    BY LenProperties
  <2>2. PICK f \in [0 .. n -> Tables] :
          \A i \in 0 .. n : StoredSoFar(f[i - 1], f[i], first, list[i], i)
    BY <1>2, <2>1 DEF Storing
  <2> DEFINE table == Contract!StoreObserved(f[n], list[n + 1])
             g == [i \in 0 .. n + 1 |-> IF i = n + 1 THEN table ELSE f[i]]
  <2>3. table \in Tables
    <3>1. f[n] \in Tables
      BY <2>2
    <3>2. list[n + 1] \in Observations
      BY <2>1, ElementOfSeq
    <3>3. QED
      BY <3>1, <3>2, StoreOne
  <2> HIDE DEF table
  <2>4. g \in [0 .. n + 1 -> Tables]
    BY <2>2, <2>3
  <2>5. g[n + 1] = table /\ \A i \in 0 .. n : g[i] = f[i]
    OBVIOUS
  <2> HIDE DEF g
  <2>6. ASSUME NEW i \in 0 .. n + 1 PROVE StoredSoFar(g[i - 1], g[i], first, list[i], i)
    <3>1. CASE i = n + 1
      <4>1. i - 1 \in 0 .. n /\ i - 1 = n /\ i # 0
        BY <3>1
      <4>2. QED
        BY <2>5, <3>1, <4>1 DEF StoredSoFar, table
    <3>2. CASE i \in 0 .. n
      <4>1. i # 0 => i - 1 \in 0 .. n
        BY <3>2
      <4>2. QED
        BY <2>2, <2>5, <3>2, <4>1 DEF StoredSoFar
    <3>3. QED
      BY <3>1, <3>2
  <2>7. g \in Storing(first, list, n + 1)
    BY <2>4, <2>6 DEF Storing
  <2>8. QED
    BY <2>7
<1> HIDE DEF S
<1>3. Nat \subseteq S
  BY <1>1, <1>2, AllNumbers
<1>4. QED
  BY <1>3 DEF S

\* After each observation, a row holds the last that was stored of it.
LEMMA StoringIs ==
    ASSUME NEW first \in Tables, NEW list \in Seq(Observations),
           NEW f \in Storing(first, list, Len(list))
    PROVE  \A i \in Nat : i <= Len(list) => \A x \in Comments :
             /\ (\A j \in 1 .. i : list[j].id # x) => f[i][x] = first[x]
             /\ \A j \in 1 .. i :
                  list[j].id = x /\ (\A k \in j + 1 .. i : list[k].id # x) =>
                      f[i][x] = Content(list[j])
<1> DEFINE Rows(i, x) ==
             /\ (\A j \in 1 .. i : list[j].id # x) => f[i][x] = first[x]
             /\ \A j \in 1 .. i :
                  list[j].id = x /\ (\A k \in j + 1 .. i : list[k].id # x) =>
                      f[i][x] = Content(list[j])
           S == {i \in Nat : i <= Len(list) => \A x \in Comments : Rows(i, x)}
<1>0. Len(list) \in Nat /\ f \in [0 .. Len(list) -> Tables]
      /\ \A i \in 0 .. Len(list) : StoredSoFar(f[i - 1], f[i], first, list[i], i)
  BY LenProperties DEF Storing
<1>1. 0 \in S
  <2>1. f[0] = first
    BY <1>0 DEF StoredSoFar
  <2>2. QED
    BY <2>1
<1>2. ASSUME NEW i \in Nat, i \in S PROVE i + 1 \in S
  <2> SUFFICES ASSUME i + 1 <= Len(list), NEW x \in Comments PROVE Rows(i + 1, x)
    OBVIOUS
  <2>1. Rows(i, x)
    BY <1>0, <1>2
  <2>2. list[i + 1] \in Observations /\ f[i] \in Tables
    BY <1>0, ElementOfSeq
  <2>3. f[i + 1] = Contract!StoreObserved(f[i], list[i + 1])
    <3>1. i + 1 \in 0 .. Len(list) /\ i + 1 # 0 /\ (i + 1) - 1 = i
      BY <1>0
    <3>2. StoredSoFar(f[i], f[i + 1], first, list[i + 1], i + 1)
      BY <1>0, <3>1
    <3>3. QED
      BY <3>1, <3>2 DEF StoredSoFar
  <2>4. CASE list[i + 1].id = x
    <3>1. f[i + 1][x] = Content(list[i + 1])
      <4>1. Contract!StoreObserved(f[i], list[i + 1])[list[i + 1].id] = Content(list[i + 1])
        BY <2>2, StoreOne
      <4>2. f[i + 1][list[i + 1].id] = Content(list[i + 1])
        BY <2>3, <4>1
      <4>3. QED
        BY <2>4, <4>2
    <3>2. ~ \A j \in 1 .. i + 1 : list[j].id # x
      BY <2>4
    <3>3. ASSUME NEW j \in 1 .. i + 1, \A k \in j + 1 .. i + 1 : list[k].id # x
          PROVE  f[i + 1][x] = Content(list[j])
      <4>1. j = i + 1
        BY <2>4, <3>3
      <4>2. QED
        BY <3>1, <4>1
    <3>4. QED
      BY <3>2, <3>3
  <2>5. CASE list[i + 1].id # x
    <3>1. f[i + 1][x] = f[i][x]
      BY <2>2, <2>3, <2>5, StoreOne
    <3>2. (\A j \in 1 .. i + 1 : list[j].id # x) => f[i + 1][x] = first[x]
      BY <2>1, <3>1
    <3>3. ASSUME NEW j \in 1 .. i + 1, list[j].id = x, \A k \in j + 1 .. i + 1 : list[k].id # x
          PROVE  f[i + 1][x] = Content(list[j])
      <4>1. j \in 1 .. i /\ \A k \in j + 1 .. i : list[k].id # x
        BY <2>5, <3>3
      <4>2. QED
        BY <2>1, <3>1, <3>3, <4>1
    <3>4. QED
      BY <3>2, <3>3
  <2>6. QED
    BY <2>4, <2>5
<1> HIDE DEF S
<1>3. Nat \subseteq S
  BY <1>1, <1>2, AllNumbers
<1>4. QED
  BY <1>3 DEF S

\* A page has a last observation of each comment it lists.
LEMMA LastIs ==
    ASSUME NEW list \in Seq(Observations), NEW x \in Ids(list)
    PROVE  /\ LastOf(list, x) \in 1 .. Len(list)
           /\ list[LastOf(list, x)].id = x
           /\ \A k \in LastOf(list, x) + 1 .. Len(list) : list[k].id # x
<1> DEFINE length == Len(list)
           Last(i) == list[i].id = x /\ \A j \in i + 1 .. length : list[j].id # x
           T == {n \in Nat : n < length /\ list[length - n].id = x}
<1>1. length \in Nat /\ DOMAIN list = 1 .. length
  BY LenProperties
<1> HIDE DEF length
<1>2. T # {}
  <2>1. PICK i \in 1 .. length : list[i].id = x
    BY <1>1 DEF Ids
  <2>2. length - i \in Nat /\ length - i < length /\ length - (length - i) = i
    BY <1>1
  <2>3. length - i \in T
    BY <2>1, <2>2
  <2>4. QED
    BY <2>3
<1>3. PICK n \in T : \A m \in T : n <= m
  BY <1>2, LeastOf
<1>4. length - n \in 1 .. length /\ Last(length - n)
  <2>1. length - n \in 1 .. length /\ list[length - n].id = x
    BY <1>1, <1>3
  <2>2. ASSUME NEW j \in (length - n) + 1 .. length, list[j].id = x PROVE FALSE
    <3>1. length - j \in Nat /\ length - j < length /\ length - (length - j) = j /\ length - j < n
      BY <1>1, <1>3, <2>2
    <3>2. length - j \in T
      BY <2>2, <3>1
    <3>3. QED
      BY <1>3, <3>1, <3>2
  <2>3. QED
    BY <2>1, <2>2
<1> HIDE DEF T, Last
<1>5. LastOf(list, x) = CHOOSE i \in 1 .. length : Last(i)
  BY <1>1 DEF LastOf, Last, length
<1>6. LastOf(list, x) \in 1 .. length /\ Last(LastOf(list, x))
  BY <1>4, <1>5
<1>7. QED
  BY <1>6 DEF Last, length

\* upsertMany drops a page's repetitions and writes each row once; storing the page
\* observation by observation, as the in-memory repository does, leaves the same.
THEOREM PageStored ==
    ASSUME NEW first \in Tables, NEW list \in Seq(Observations)
    PROVE  Contract!StorePage(first, list) =
             [x \in Comments |->
                IF x \in Ids(list) THEN Content(ValueOf(list, x)) ELSE first[x]]
<1> DEFINE after == CHOOSE f : f = [i \in 0 .. Len(list) |->
                       IF i = 0 THEN first ELSE Contract!StoreObserved(f[i - 1], list[i])]
<1>1. Len(list) \in Nat /\ DOMAIN list = 1 .. Len(list)
  BY LenProperties
<1>2. Contract!StorePage(first, list) = after[Len(list)]
  BY DEF Contract!StorePage
<1>3. after \in Storing(first, list, Len(list))
  <2>1. PICK f : f \in Storing(first, list, Len(list))
    BY <1>1, StoringExists
  <2>2. f = [i \in 0 .. Len(list) |->
               IF i = 0 THEN first ELSE Contract!StoreObserved(f[i - 1], list[i])]
    BY <2>1 DEF Storing, StoredSoFar
  <2>3. after = [i \in 0 .. Len(list) |->
               IF i = 0 THEN first ELSE Contract!StoreObserved(after[i - 1], list[i])]
    BY <2>2
  <2> HIDE DEF after
  <2> DEFINE S == {n \in Nat : n <= Len(list) => after[n] \in Tables}
  <2>4. 0 \in S
    BY <1>1, <2>3
  <2>5. ASSUME NEW n \in Nat, n \in S PROVE n + 1 \in S
    <3> SUFFICES ASSUME n + 1 <= Len(list) PROVE after[n + 1] \in Tables
      OBVIOUS
    <3>1. after[n] \in Tables /\ list[n + 1] \in Observations
      BY <1>1, <2>5, ElementOfSeq
    <3>2. after[n + 1] = Contract!StoreObserved(after[n], list[n + 1])
      <4>1. n + 1 \in 0 .. Len(list) /\ n + 1 # 0 /\ (n + 1) - 1 = n
        BY <1>1
      <4>2. QED
        BY <2>3, <4>1
    <3>3. QED
      BY <3>1, <3>2, StoreOne
  <2> HIDE DEF S
  <2>6. Nat \subseteq S
    BY <2>4, <2>5, AllNumbers
  <2>7. \A n \in 0 .. Len(list) : after[n] \in Tables
    BY <1>1, <2>6 DEF S
  <2>8. after \in [0 .. Len(list) -> Tables]
    <3>1. after = [i \in 0 .. Len(list) |-> after[i]]
      BY <2>3
    <3>2. QED
      BY <2>7, <3>1
  <2>9. \A i \in 0 .. Len(list) : StoredSoFar(after[i - 1], after[i], first, list[i], i)
    BY <2>3 DEF StoredSoFar
  <2>10. QED
    BY <2>8, <2>9 DEF Storing
<1> HIDE DEF after
<1>4. after[Len(list)] \in Tables
  BY <1>1, <1>3 DEF Storing
<1>5. ASSUME NEW x \in Comments
      PROVE  after[Len(list)][x] = IF x \in Ids(list) THEN Content(ValueOf(list, x)) ELSE first[x]
  <2> DEFINE n == Len(list)
  <2>1. /\ (\A j \in 1 .. n : list[j].id # x) => after[n][x] = first[x]
        /\ \A j \in 1 .. n :
             list[j].id = x /\ (\A k \in j + 1 .. n : list[k].id # x) =>
                 after[n][x] = Content(list[j])
    <3>1. n \in Nat /\ n <= n
      BY <1>1
    <3>2. QED
      BY <1>3, <3>1, StoringIs
  <2>2. CASE x \in Ids(list)
    BY <2>1, <2>2, LastIs DEF ValueOf
  <2>3. CASE x \notin Ids(list)
    <3>1. \A j \in 1 .. n : list[j].id # x
      BY <1>1, <2>3 DEF Ids
    <3>2. QED
      BY <2>1, <2>3, <3>1
  <2>4. QED
    BY <2>2, <2>3
<1>6. QED
  <2>1. after[Len(list)] = [x \in Comments |-> after[Len(list)][x]]
    BY <1>4 DEF Tables
  <2>2. QED
    BY <1>2, <1>5, <2>1

-----------------------------------------------------------------------------
(***************************************************************************)
(* The transactions on the table are calls of its contract.                *)
(***************************************************************************)
\* What a request's call and answer are, from where it is.
CallShape ==
    /\ \A h \in Hydrators :
         /\ pc[h] = "upsert" => callUnderWay[h] = [kind |-> "upsert", page |-> page[h]]
         /\ pc[h] # "upsert" => callUnderWay[h] = Contract!NoCall
         /\ answerGiven[h] = "none"
    /\ \A p \in Publishers :
         /\ pc[p] \in {"store", "inserted", "readback"} =>
              callUnderWay[p] = [kind |-> "store", reply |-> Published(p)]
         /\ pc[p] \notin {"store", "inserted", "readback"} => callUnderWay[p] = Contract!NoCall
         /\ answerGiven[p] = IF outcome[p] \in {"reply", "refused"} THEN outcome[p] ELSE "none"

\* The calls under way and the answers given, record by record.
LEMMA CallIs == CallShape /\ CallShape'
<1>1. \A h \in Hydrators : h \notin Publishers /\ h \in Writers
  BY StoreBounds DEF Writers
<1>2. \A p \in Publishers : p \notin Hydrators /\ p \in Writers
  BY StoreBounds DEF Writers
<1>3. CallShape
  BY <1>1, <1>2 DEF CallShape, callUnderWay, answerGiven, Contract!NoCall
<1>4. CallShape'
  BY <1>1, <1>2 DEF CallShape, callUnderWay, answerGiven, Contract!NoCall
<1>5. QED
  BY <1>3, <1>4

\* A request that does not move has the call and the answer it had.
Still(a) ==
    /\ pc'[a] = pc[a]
    /\ a \in Hydrators => page'[a] = page[a]
    /\ a \in Publishers => reply'[a] = reply[a] /\ target'[a] = target[a] /\ outcome'[a] = outcome[a]

\* A writer that stands still is not seen to.
LEMMA StillIs ==
    ASSUME NEW a \in Writers, Still(a)
    PROVE  callUnderWay'[a] = callUnderWay[a] /\ answerGiven'[a] = answerGiven[a]
BY DEF Still, callUnderWay, answerGiven, Published

\* A step of one request, by what becomes of its call and its answer.
LEMMA CallStep ==
    ASSUME NEW a \in Writers, \A b \in Writers \ {a} : Still(b)
    PROVE  /\ callUnderWay' = [callUnderWay EXCEPT ![a] = callUnderWay'[a]]
           /\ answerGiven' = [answerGiven EXCEPT ![a] = answerGiven'[a]]
           /\ \A b \in Writers \ {a} : callUnderWay'[b] = callUnderWay[b]
           /\ answerGiven'[a] = answerGiven[a] => answerGiven' = answerGiven
           /\ callUnderWay'[a] = callUnderWay[a] => callUnderWay' = callUnderWay
<1>1. \A b \in Writers \ {a} : /\ callUnderWay'[b] = callUnderWay[b]
                               /\ answerGiven'[b] = answerGiven[b]
  BY StillIs
<1>2. /\ callUnderWay = [b \in Writers |-> callUnderWay[b]]
      /\ answerGiven = [b \in Writers |-> answerGiven[b]]
      /\ callUnderWay' = [b \in Writers |-> callUnderWay'[b]]
      /\ answerGiven' = [b \in Writers |-> answerGiven'[b]]
  BY DEF callUnderWay, answerGiven
<1> DEFINE c == callUnderWay
           d == callUnderWay'
           u == answerGiven
           v == answerGiven'
<1> HIDE DEF c, d, u, v
<1>3. /\ c = [b \in Writers |-> c[b]] /\ d = [b \in Writers |-> d[b]]
      /\ u = [b \in Writers |-> u[b]] /\ v = [b \in Writers |-> v[b]]
      /\ \A b \in Writers \ {a} : d[b] = c[b] /\ v[b] = u[b]
  BY <1>1, <1>2 DEF c, d, u, v
<1>4. /\ d = [c EXCEPT ![a] = d[a]] /\ v = [u EXCEPT ![a] = v[a]]
      /\ \A b \in Writers \ {a} : d[b] = c[b]
      /\ v[a] = u[a] => v = u
      /\ d[a] = c[a] => d = c
  <2>1. d = [c EXCEPT ![a] = d[a]] /\ (d[a] = c[a] => d = c)
    BY <1>3
  <2>2. v = [u EXCEPT ![a] = v[a]] /\ (v[a] = u[a] => v = u)
    BY <1>3
  <2>3. QED
    BY <1>3, <2>1, <2>2
<1>5. QED
  BY <1>4 DEF c, d, u, v

\* The commit of a page is the contract's upsertMany, at once.
LEMMA UpsertManyIs ==
    ASSUME StoreInvariant, StoreInvariant', NEW h \in Hydrators, UpsertMany(h)
    PROVE  Contract!UpsertMany(h)
<1>1. /\ pc[h] = "upsert" /\ pc'[h] = "idle" /\ outcome' = outcome
      /\ \A b \in Writers \ {h} : Still(b)
  BY StoreBounds DEF UpsertMany, EndHydration, Goto, Still, StoreInvariant, TypeOK, Writers,
     publicationVars
<1>2. h \in Writers
  BY DEF Writers
<1>3. /\ callUnderWay[h] = [kind |-> "upsert", page |-> page[h]]
      /\ callUnderWay'[h] = Contract!NoCall
      /\ answerGiven'[h] = answerGiven[h]
  BY <1>1, CallIs DEF CallShape
<1>4. /\ callUnderWay' = [callUnderWay EXCEPT ![h] = Contract!NoCall]
      /\ answerGiven' = answerGiven
  <2>1. /\ callUnderWay' = [callUnderWay EXCEPT ![h] = callUnderWay'[h]]
        /\ answerGiven' = answerGiven
    BY <1>1, <1>2, <1>3, CallStep
  <2>2. QED
    BY <1>3, <2>1
<1>5. rows' = Contract!StorePage(rows, page[h])
  <2>1. rows \in Tables /\ page[h] \in Seq(Observations)
    BY DEF StoreInvariant, TypeOK, Tables
  <2>2. Contract!StorePage(rows, page[h]) =
          [x \in Comments |->
             IF x \in Ids(page[h]) THEN Content(ValueOf(page[h], x)) ELSE rows[x]]
    BY <2>1, PageStored
  <2>3. rows' = [x \in Comments |->
                   IF x \in Ids(page[h]) THEN Upserted(rows[x], ValueOf(page[h], x)) ELSE rows[x]]
    BY DEF UpsertMany
  <2>4. ASSUME NEW row \in Contents, NEW o \in Observations PROVE Upserted(row, o) = Content(o)
    <3>1. o.text \in Texts /\ o.parent \in Comments \union {None}
      BY DEF Observations
    <3> DEFINE r1 == [row EXCEPT !.text = o.text]
               r2 == [r1 EXCEPT !.parent = o.parent]
    <3>2. Upserted(row, o) = r2
      BY DEF Upserted, Contents
    <3>3. r1 \in Contents /\ r1.text = o.text
      BY <3>1 DEF Contents
    <3> HIDE DEF r1
    <3>4. r2 \in Contents /\ r2.text = o.text /\ r2.parent = o.parent
      BY <3>1, <3>3 DEF Contents
    <3> HIDE DEF r2
    <3>5. r2 = [text |-> o.text, parent |-> o.parent]
      BY <3>4 DEF Contents
    <3>6. QED
      BY <3>2, <3>5 DEF Content
  <2>5. ASSUME NEW x \in Ids(page[h]) PROVE ValueOf(page[h], x) \in Observations
    BY <2>1, LastIs, ElementOfSeq DEF ValueOf
  <2>6. \A x \in Comments : rows[x] \in Contents
    BY <2>1 DEF Tables
  <2>7. QED
    BY <2>2, <2>3, <2>4, <2>5, <2>6
<1>6. callUnderWay[h].kind = "upsert" /\ callUnderWay[h].page = page[h]
  BY <1>3
<1>7. rows' = Contract!Effect(callUnderWay[h])
  BY <1>5, <1>6 DEF Contract!Effect
<1>8. QED
  BY <1>4, <1>6, <1>7 DEF Contract!UpsertMany

\* A call that ends without an answer is one that failed, with its effect or
\* without.
LEMMA CallFailsIs ==
    ASSUME StoreInvariant, NEW a \in Writers, \A b \in Writers \ {a} : Still(b),
           callUnderWay[a] # Contract!NoCall, callUnderWay'[a] = Contract!NoCall,
           answerGiven'[a] = answerGiven[a],
           rows' = rows \/ rows' = Contract!Effect(callUnderWay[a])
    PROVE  Contract!CallFails(a)
<1>1. /\ callUnderWay' = [callUnderWay EXCEPT ![a] = callUnderWay'[a]]
      /\ answerGiven' = answerGiven
  BY CallStep
<1>2. callUnderWay' = [callUnderWay EXCEPT ![a] = Contract!NoCall]
  BY <1>1
<1>3. QED
  BY <1>1, <1>2 DEF Contract!CallFails

\* A call whose argument is complete has started.
LEMMA StartIs ==
    ASSUME NEW a \in Writers, \A b \in Writers \ {a} : Still(b),
           callUnderWay[a] = Contract!NoCall,
           \/ /\ callUnderWay'[a].kind = "upsert"
              /\ callUnderWay'[a].page \in Seq(Observations)
           \/ callUnderWay'[a].kind = "store" /\ callUnderWay'[a].reply \in Observations,
           answerGiven'[a] = answerGiven[a], rows' = rows
    PROVE  Contract!Start(a)
<1>1. /\ answerGiven' = answerGiven
      /\ \A b \in Writers \ {a} : callUnderWay'[b] = callUnderWay[b]
  BY CallStep
<1>2. QED
  BY <1>1 DEF Contract!Start

\* What a publication wants stored is an observation.
LEMMA PublishedIs ==
    ASSUME StoreInvariant, NEW p \in Publishers, pc[p] \in {"store", "inserted", "readback"}
    PROVE  /\ Published(p) \in Observations
           /\ Published(p).id = reply[p] /\ reply[p] \in Comments
           /\ rows \in Tables
<1>1. reply[p] \in Comments /\ target[p] \in Comments \union {None} /\ rows \in Tables
  BY StoreBounds, NoneIsNothing DEF StoreInvariant, TypeOK, PublicationShape, Existing, Comments,
     Tables
<1>2. Text(p, 1) \in Texts
  BY StoreBounds DEF Text, Texts
<1>3. QED
  BY <1>1, <1>2 DEF Published, Observations

\* A commit makes a row that was not there, as the contract has it.
LEMMA CommitEffect ==
    ASSUME StoreInvariant, NEW p \in Publishers, NEW answer, CommitAs(p, answer)
    PROVE  /\ rows' = Contract!Effect(callUnderWay[p])
           /\ callUnderWay[p].kind = "store" /\ callUnderWay[p].reply = Published(p)
           /\ rows[callUnderWay[p].reply.id] = Absent
<1>1. pc[p] = "inserted"
  BY DEF CommitAs
<1>2. /\ Published(p) \in Observations /\ Published(p).id = reply[p] /\ reply[p] \in Comments
      /\ rows \in Tables
  BY <1>1, PublishedIs
<1>3. rows[reply[p]] = Absent
  BY <1>1 DEF StoreInvariant, PublicationShape
<1>4. callUnderWay[p] = [kind |-> "store", reply |-> Published(p)]
  BY <1>1, CallIs DEF CallShape
<1>5. callUnderWay[p].kind = "store" /\ callUnderWay[p].reply = Published(p)
  BY <1>4
<1>6. rows' = Contract!StoreObserved(rows, Published(p))
  BY <1>2 DEF CommitAs, Contract!StoreObserved, Contract!Content, Content
<1>7. rows[callUnderWay[p].reply.id] = Absent
  BY <1>2, <1>3, <1>5
<1>8. QED
  BY <1>5, <1>6, <1>7 DEF Contract!Effect

\* Once committed and acknowledged, a reply that was inserted is answered.
LEMMA CommitReplyIs ==
    ASSUME StoreInvariant, NEW p \in Publishers, CommitReply(p)
    PROVE  Contract!StorePublishedReply(p)
<1>1. /\ pc[p] = "inserted" /\ pc'[p] = "done" /\ outcome'[p] = "reply"
      /\ CommitAs(p, "reply")
      /\ \A b \in Writers \ {p} : Still(b)
  BY StoreBounds DEF CommitReply, CommitAs, End, Goto, Still, StoreInvariant, TypeOK, Writers,
     hydrationVars
<1>2. p \in Writers
  BY DEF Writers
<1>3. callUnderWay'[p] = Contract!NoCall /\ answerGiven'[p] = "reply"
  BY <1>1, CallIs DEF CallShape
<1>4. /\ callUnderWay' = [callUnderWay EXCEPT ![p] = Contract!NoCall]
      /\ answerGiven' = [answerGiven EXCEPT ![p] = "reply"]
  <2>1. /\ callUnderWay' = [callUnderWay EXCEPT ![p] = callUnderWay'[p]]
        /\ answerGiven' = [answerGiven EXCEPT ![p] = answerGiven'[p]]
    BY <1>1, <1>2, CallStep
  <2>2. QED
    BY <1>3, <2>1
<1>5. /\ rows' = Contract!Effect(callUnderWay[p])
      /\ callUnderWay[p].kind = "store" /\ rows[callUnderWay[p].reply.id] = Absent
  BY <1>1, CommitEffect
<1>6. QED
  BY <1>4, <1>5 DEF Contract!StorePublishedReply

\* A row that was there answers the reply, or refuses it.
LEMMA ReadBackIs ==
    ASSUME StoreInvariant, NEW p \in Publishers, ReadBack(p)
    PROVE  Contract!StorePublishedReply(p)
<1> DEFINE result == IF SameBody(reply[p], rows[reply[p]].text, Published(p).text)
                      THEN "reply" ELSE "refused"
<1>1. /\ pc[p] = "readback" /\ pc'[p] = "done" /\ outcome'[p] = result
      /\ rows' = rows
      /\ \A b \in Writers \ {p} : Still(b)
  BY StoreBounds DEF ReadBack, End, Goto, Still, StoreInvariant, TypeOK, Writers, hydrationVars
<1>2. p \in Writers
  BY DEF Writers
<1>3. Published(p).id = reply[p]
  BY DEF Published
<1>4. rows[reply[p]] # Absent
  BY <1>1 DEF StoreInvariant, PublicationShape, Stored
<1>5. /\ callUnderWay[p] = [kind |-> "store", reply |-> Published(p)]
      /\ callUnderWay'[p] = Contract!NoCall
      /\ answerGiven'[p] = result
  BY <1>1, CallIs DEF CallShape
<1>6. /\ callUnderWay' = [callUnderWay EXCEPT ![p] = Contract!NoCall]
      /\ answerGiven' = [answerGiven EXCEPT ![p] = result]
  <2>1. /\ callUnderWay' = [callUnderWay EXCEPT ![p] = callUnderWay'[p]]
        /\ answerGiven' = [answerGiven EXCEPT ![p] = answerGiven'[p]]
    BY <1>1, <1>2, CallStep
  <2> HIDE DEF result
  <2>2. QED
    BY <1>5, <2>1
<1>7. callUnderWay[p].kind = "store" /\ callUnderWay[p].reply = Published(p)
  BY <1>5
<1>8. rows[callUnderWay[p].reply.id] = rows[reply[p]]
  BY <1>3, <1>7
<1>9. rows' = Contract!Effect(callUnderWay[p])
  BY <1>1, <1>4, <1>7, <1>8 DEF Contract!Effect
<1>10. result = IF \/ rows[callUnderWay[p].reply.id] = Absent
                  \/ BodyOf[<<callUnderWay[p].reply.id, rows[callUnderWay[p].reply.id].text>>]
                       = BodyOf[<<callUnderWay[p].reply.id, callUnderWay[p].reply.text>>]
               THEN "reply" ELSE "refused"
  BY <1>3, <1>4, <1>7, <1>8 DEF SameBody
<1> HIDE DEF result
<1>11. QED
  BY <1>6, <1>7, <1>9, <1>10 DEF Contract!StorePublishedReply

\* Nobody calls, and nothing is stored.
LEMMA ContractInitially == Init => Contract!ContractInit
<1> SUFFICES ASSUME Init PROVE Contract!ContractInit
  OBVIOUS
<1>1. \A a \in Writers : callUnderWay[a] = Contract!NoCall /\ answerGiven[a] = "none"
  BY CallIs DEF Init, CallShape, Writers
<1>2. rows = [x \in Comments |-> Absent]
  BY DEF Init
<1>3. callUnderWay = [a \in Writers |-> Contract!NoCall]
  BY <1>1 DEF callUnderWay
<1>4. answerGiven = [a \in Writers |-> "none"]
  BY <1>1 DEF answerGiven
<1>5. QED
  BY <1>2, <1>3, <1>4 DEF Contract!ContractInit

\* A step that changes neither a row nor what a request's call and answer are.
LEMMA Stutters ==
    ASSUME NEW a \in Writers, \A b \in Writers \ {a} : Still(b), rows' = rows,
           callUnderWay'[a] = callUnderWay[a], answerGiven'[a] = answerGiven[a]
    PROVE  UNCHANGED Contract!contractVars
<1>1. callUnderWay' = callUnderWay /\ answerGiven' = answerGiven
  BY CallStep
<1>2. QED
  BY <1>1 DEF Contract!contractVars

\* Every step of a hydration is a step of the contract, or is not seen.
LEMMA HydrationImplements ==
    ASSUME StoreInvariant, StoreInvariant', NEW h \in Hydrators, Hydrate(h)
    PROVE  [Contract!ContractNext]_(Contract!contractVars)
<1>1. h \in Writers
  BY DEF Writers
<1>2. ASSUME NEW top \in Existing, NEW size \in 1 .. PageSize, FetchPage(h, top, size)
      PROVE  Contract!Start(h)
  <2>1. /\ pc[h] = "idle" /\ pc'[h] = "upsert" /\ rows' = rows
        /\ \A b \in Writers \ {h} : Still(b)
    BY <1>2, StoreBounds DEF FetchPage, Goto, Still, StoreInvariant, TypeOK, Writers,
       publicationVars
  <2>2. page'[h] \in Seq(Observations)
    BY DEF StoreInvariant, TypeOK
  <2>3. /\ callUnderWay[h] = Contract!NoCall
        /\ callUnderWay'[h] = [kind |-> "upsert", page |-> page'[h]]
        /\ answerGiven'[h] = answerGiven[h]
    BY <2>1, CallIs DEF CallShape
  <2>4. QED
    BY <1>1, <2>1, <2>2, <2>3, StartIs
<1>3. ASSUME WriteRow(h) PROVE UNCHANGED Contract!contractVars
  <2>1. pc' = pc /\ rows' = rows /\ \A b \in Writers : Still(b)
    BY <1>3 DEF WriteRow, Still, publicationVars
  <2>2. QED
    BY <1>1, <2>1, StillIs, Stutters
<1>4. ASSUME UpsertFails(h), ~UpsertMany(h) PROVE Contract!CallFails(h)
  <2>1. /\ pc[h] = "upsert" /\ pc'[h] = "idle" /\ rows' = rows
        /\ \A b \in Writers \ {h} : Still(b)
    BY <1>4, StoreBounds DEF UpsertFails, EndHydration, Goto, Still, StoreInvariant, TypeOK,
       Writers, publicationVars
  <2>2. /\ callUnderWay[h] = [kind |-> "upsert", page |-> page[h]]
        /\ callUnderWay'[h] = Contract!NoCall
        /\ answerGiven'[h] = answerGiven[h]
    BY <2>1, CallIs DEF CallShape
  <2>3. callUnderWay[h].kind = "upsert" /\ Contract!NoCall.kind = "none"
    BY <2>2 DEF Contract!NoCall
  <2>4. callUnderWay[h] # Contract!NoCall
    BY <2>3
  <2>5. QED
    BY <1>1, <2>1, <2>2, <2>4, CallFailsIs
<1>5. QED
  BY <1>1, <1>2, <1>3, <1>4, UpsertManyIs DEF Hydrate, Contract!ContractNext

\* So is every step of a publication.
LEMMA PublicationImplements ==
    ASSUME StoreInvariant, StoreInvariant', NEW p \in Publishers,
           \/ \E x \in Comments : AcceptReply(p, x)
           \/ PlatformPublishes(p) \/ StorePublishedReply(p)
    PROVE  [Contract!ContractNext]_(Contract!contractVars)
<1>1. p \in Writers
  BY DEF Writers
<1>2. ASSUME NEW x \in Comments, AcceptReply(p, x) PROVE UNCHANGED Contract!contractVars
  <2>1. /\ pc[p] = "idle" /\ pc'[p] = "publish" /\ rows' = rows /\ outcome' = outcome
        /\ \A b \in Writers \ {p} : Still(b)
    BY <1>2, StoreBounds DEF AcceptReply, Goto, Still, StoreInvariant, TypeOK, Writers,
       hydrationVars
  <2>2. callUnderWay'[p] = callUnderWay[p] /\ answerGiven'[p] = answerGiven[p]
    BY <2>1, CallIs DEF CallShape, Contract!NoCall
  <2>3. QED
    BY <1>1, <2>1, <2>2, Stutters
<1>3. ASSUME PlatformPublishes(p) PROVE Contract!Start(p)
  <2>1. /\ pc[p] = "publish" /\ pc'[p] = "store" /\ rows' = rows /\ outcome' = outcome
        /\ \A b \in Writers \ {p} : Still(b)
    BY <1>3, StoreBounds DEF PlatformPublishes, Goto, Still, StoreInvariant, TypeOK, Writers,
       hydrationVars
  <2>2. Published(p)' \in Observations
    <3>1. reply'[p] \in Comments /\ target'[p] \in Comments \union {None}
      BY <2>1, StoreBounds, NoneIsNothing DEF StoreInvariant, TypeOK, PublicationShape, Existing,
         Comments
    <3>2. Text(p, 1) \in Texts
      BY StoreBounds DEF Text, Texts
    <3>3. QED
      BY <3>1, <3>2 DEF Published, Observations
  <2>3. /\ callUnderWay[p] = Contract!NoCall
        /\ callUnderWay'[p] = [kind |-> "store", reply |-> Published(p)']
        /\ answerGiven'[p] = answerGiven[p]
    BY <2>1, CallIs DEF CallShape
  <2>4. QED
    BY <1>1, <2>1, <2>2, <2>3, StartIs
<1>4. ASSUME InsertReply(p) PROVE UNCHANGED Contract!contractVars
  <2>1. /\ pc[p] = "store" /\ pc'[p] \in {"readback", "inserted"} /\ rows' = rows
        /\ outcome' = outcome /\ reply' = reply /\ target' = target
        /\ \A b \in Writers \ {p} : Still(b)
    BY <1>4, StoreBounds DEF InsertReply, Goto, Still, StoreInvariant, TypeOK, Writers,
       hydrationVars, publicationVars
  <2>2. callUnderWay'[p] = callUnderWay[p] /\ answerGiven'[p] = answerGiven[p]
    BY <2>1, CallIs DEF CallShape, Published
  <2>3. QED
    BY <1>1, <2>1, <2>2, Stutters
<1>5. ASSUME StoreFails(p) PROVE Contract!CallFails(p)
  <2>1. /\ pc[p] \in {"store", "inserted", "readback"} /\ pc'[p] = "done"
        /\ outcome'[p] = "failed" /\ outcome[p] = "none"
        /\ \A b \in Writers \ {p} : Still(b)
    BY <1>5, StoreBounds DEF StoreFails, CommitAs, End, Goto, Still, StoreInvariant, TypeOK, Writers,
       hydrationVars, PublicationShape
  <2>2. /\ callUnderWay[p] = [kind |-> "store", reply |-> Published(p)]
        /\ callUnderWay'[p] = Contract!NoCall
        /\ answerGiven'[p] = answerGiven[p]
    BY <2>1, CallIs DEF CallShape
  <2>3. callUnderWay[p].kind = "store" /\ Contract!NoCall.kind = "none"
    BY <2>2 DEF Contract!NoCall
  <2>4. callUnderWay[p] # Contract!NoCall
    BY <2>3
  <2>5. rows' = rows \/ rows' = Contract!Effect(callUnderWay[p])
    BY <1>5, CommitEffect DEF StoreFails
  <2>6. QED
    BY <1>1, <2>1, <2>2, <2>4, <2>5, CallFailsIs
<1>6. QED
  BY <1>1, <1>2, <1>3, <1>4, <1>5, CommitReplyIs, ReadBackIs
  DEF StorePublishedReply, Contract!ContractNext

\* The transactions on the comments table, however they overlap and whichever of
\* them fail, leave the rows and give the answers that the calls of the in-memory
\* repository would, one after another (upsertMany, storePublishedReply).
THEOREM ContractImplemented == Spec => ImplementsContract
<1>1. StoreInvariant /\ StoreInvariant' /\ [Next]_vars
        => [Contract!ContractNext]_(Contract!contractVars)
  <2> SUFFICES ASSUME StoreInvariant, StoreInvariant', [Next]_vars
               PROVE  [Contract!ContractNext]_(Contract!contractVars)
    OBVIOUS
  <2>1. ASSUME UNCHANGED <<rows, pc, hydrationVars, publicationVars>>
        PROVE  UNCHANGED Contract!contractVars
    <3>1. rows' = rows /\ \A b \in Writers : Still(b)
      BY <2>1 DEF Still, hydrationVars, publicationVars
    <3>2. callUnderWay' = callUnderWay /\ answerGiven' = answerGiven
      BY <3>1, StillIs DEF callUnderWay, answerGiven
    <3>3. QED
      BY <3>1, <3>2 DEF Contract!contractVars
  <2>2. CASE \/ \E parent \in Existing \union {None} : SomeoneComments(parent)
             \/ \E x \in Existing : SomeoneEdits(x)
             \/ UNCHANGED vars
    BY <2>1, <2>2 DEF SomeoneComments, SomeoneEdits, vars
  <2>3. QED
    BY <2>2, HydrationImplements, PublicationImplements DEF Next
<1>2. QED
  BY <1>1, ContractInitially, StoreInvariantHolds, PTL DEF Spec, ImplementsContract,
     Contract!ContractSpec
=============================================================================
