----------------------- MODULE NotificationPageProofs -----------------------
(***************************************************************************)
(* The notifications page, proved for any rows, timestamps, page sizes and *)
(* requests.  Ranks says that InOrder lists a set in its order; from it    *)
(* follow what a page of Fetch holds and what Keep leaves of the cards.    *)
(***************************************************************************)
EXTENDS NotificationPage, FiniteSetTheorems, FunctionTheorems, TLAPS

-----------------------------------------------------------------------------
(* Lists in order                                                          *)

\* The list of a finite set is strictly in order and leaves nothing out.
LEMMA Ranks ==
    ASSUME NEW S, IsFiniteSet(S), NEW R,
           \A x \in S : <<x, x>> \notin R,
           \A x, y \in S : x # y => <<x, y>> \in R \/ <<y, x>> \in R,
           \A x, y, z \in S : <<x, y>> \in R /\ <<y, z>> \in R => <<x, z>> \in R
    PROVE  LET at == InOrder(S, R)
           IN /\ at \in [1..Cardinality(S) -> S]
              /\ \A x \in S : \E n \in 1..Cardinality(S) : at[n] = x
              /\ \A m, n \in 1..Cardinality(S) : m < n => <<at[m], at[n]>> \in R
<1> DEFINE at == InOrder(S, R)
           below == [x \in S |-> {y \in S : <<y, x>> \in R}]
           rank == [x \in S |-> Cardinality(below[x]) + 1]
           N == Cardinality(S)
<1>a. \A x \in S : below[x] = {y \in S : <<y, x>> \in R}
  OBVIOUS
<1> HIDE DEF below
<1>1. N \in Nat
  BY FS_CardinalityType
<1>2. ASSUME NEW x \in S
      PROVE  /\ IsFiniteSet(below[x]) /\ Cardinality(below[x]) \in Nat
             /\ rank[x] \in 1..N
  <2>1. below[x] \in SUBSET (S \ {x})
    BY <1>a
  <2>2. IsFiniteSet(S \ {x}) /\ Cardinality(S \ {x}) = N - 1
    BY FS_RemoveElement
  <2>3. IsFiniteSet(below[x]) /\ Cardinality(below[x]) <= N - 1
    BY <2>1, <2>2, FS_Subset
  <2>4. Cardinality(below[x]) \in Nat
    BY <2>3, FS_CardinalityType
  <2> QED BY <1>1, <2>3, <2>4
<1>3. ASSUME NEW x \in S, NEW y \in S, <<x, y>> \in R
      PROVE  rank[x] < rank[y]
  <2>1. below[x] \cup {x} \in SUBSET below[y] /\ x \notin below[x]
    <3>1. below[x] = {z \in S : <<z, x>> \in R} /\ below[y] = {z \in S : <<z, y>> \in R}
      BY <1>a
    <3>2. \A z \in S : <<z, x>> \in R => <<z, y>> \in R
      BY <1>3
    <3> QED BY <1>3, <3>1, <3>2
  <2>2. Cardinality(below[x] \cup {x}) = Cardinality(below[x]) + 1
    BY <1>2, <2>1, FS_AddElement
  <2>3. Cardinality(below[x] \cup {x}) <= Cardinality(below[y])
    BY <1>2, <2>1, FS_Subset
  <2>4. Cardinality(below[x]) \in Nat /\ Cardinality(below[y]) \in Nat
    BY <1>2
  <2> QED BY <2>2, <2>3, <2>4
<1>4. \A x, y \in S : rank[x] = rank[y] => x = y
  <2>1. SUFFICES ASSUME NEW x \in S, NEW y \in S, x # y PROVE rank[x] # rank[y]
    OBVIOUS
  <2>2. rank[x] \in 1..N /\ rank[y] \in 1..N
    BY <1>2
  <2>3. rank[x] < rank[y] \/ rank[y] < rank[x]
    BY <1>3, <2>1
  <2> QED BY <1>1, <2>2, <2>3
<1>5. \A n \in 1..N : \E x \in S : rank[x] = n
  <2>1. rank \in Injection(S, 1..N)
    BY <1>2, <1>4, Zenon DEF Injection, IsInjective
  <2>2. IsFiniteSet(1..N) /\ Cardinality(1..N) = N
    BY <1>1, FS_Interval
  <2>3. rank \in Surjection(S, 1..N)
    BY <2>1, <2>2, FS_Injection
  <2> QED BY <2>3 DEF Surjection
<1>6. \A n \in 1..N : at[n] \in S /\ rank[at[n]] = n
  <2>1. SUFFICES ASSUME NEW n \in 1..N PROVE at[n] \in S /\ rank[at[n]] = n
    OBVIOUS
  <2>2. PICK x \in S : rank[x] = n
    BY <1>5
  <2>3. Cardinality(below[x]) = n - 1
    BY <1>2, <2>2
  <2>4. at[n] = CHOOSE z \in S : Cardinality({y \in S : <<y, z>> \in R}) = n - 1
    BY DEF InOrder
  <2>5. Cardinality({y \in S : <<y, x>> \in R}) = n - 1
    BY <2>3, <1>a
  <2>6. at[n] \in S /\ Cardinality({y \in S : <<y, at[n]>> \in R}) = n - 1
    BY <2>4, <2>5, Zenon
  <2>7. Cardinality(below[at[n]]) = n - 1
    BY <2>6, <1>a
  <2> QED BY <2>6, <2>7
<1>7. at \in [1..N -> S]
  BY <1>6 DEF InOrder
<1>8. ASSUME NEW x \in S PROVE \E n \in 1..N : at[n] = x
  <2>1. rank[x] \in 1..N /\ rank[at[rank[x]]] = rank[x] /\ at[rank[x]] \in S
    BY <1>2, <1>6
  <2> QED BY <1>4, <2>1
<1>9. ASSUME NEW m \in 1..N, NEW n \in 1..N, m < n
      PROVE  <<at[m], at[n]>> \in R
  <2>1. at[m] \in S /\ at[n] \in S /\ rank[at[m]] = m /\ rank[at[n]] = n
    BY <1>6
  <2>2. at[m] # at[n]
    BY <2>1, <1>9
  <2>3. <<at[n], at[m]>> \notin R
    <3>1. SUFFICES ASSUME <<at[n], at[m]>> \in R PROVE FALSE
      OBVIOUS
    <3>2. rank[at[n]] < rank[at[m]]
      BY <1>3, <2>1, <3>1
    <3> QED BY <2>1, <3>2, <1>9
  <2> QED BY <2>1, <2>2, <2>3
<1> QED BY <1>7, <1>8, <1>9

\* The order of the pages is strict and total.
LEMMA PageOrder ==
    /\ \A i \in Ids : <<i, i>> \notin NewestFirst
    /\ \A i, j \in Ids : <<i, j>> \in NewestFirst <=> Newer(i, j)
    /\ \A i, j \in Ids : i # j => Newer(i, j) \/ Newer(j, i)
    /\ \A i, j, k \in Ids : Newer(i, j) /\ Newer(j, k) => Newer(i, k)
  BY ConstantsOK DEF NewestFirst, Newer

Sorted(list) == \A m, n \in DOMAIN list :
                    m < n => Newer(list[m].id, list[n].id)

\* A page holds rows after the cursor, newest first; what it leaves out comes
\* after its last card, and is left out only if there is more.
LEMMA FetchPage ==
    ASSUME NEW c
    PROVE  /\ Fetch(c) \in Seq(Card)
           /\ IdsOf(Fetch(c)) \subseteq Rest(c)
           /\ Sorted(Fetch(c))
           /\ HasMore(c) => Len(Fetch(c)) > 0
           /\ \A i \in Rest(c) \ IdsOf(Fetch(c)) :
                 HasMore(c) /\ Newer(Fetch(c)[Len(Fetch(c))].id, i)
<1> DEFINE S == Rest(c)
           N == Cardinality(S)
           list == InOrder(S, NewestFirst)
           L == IF N <= PageSize THEN N ELSE PageSize
<1>1. S \subseteq Ids /\ IsFiniteSet(S) /\ N \in Nat
  BY ConstantsOK, FS_Subset, FS_CardinalityType DEF Rest
<1>2. /\ list \in [1..N -> S]
      /\ \A x \in S : \E n \in 1..N : list[n] = x
      /\ \A m, n \in 1..N : m < n => <<list[m], list[n]>> \in NewestFirst
  <2>1. \A x \in S : <<x, x>> \notin NewestFirst
    BY <1>1, PageOrder
  <2>2. \A x, y \in S : x # y => <<x, y>> \in NewestFirst \/ <<y, x>> \in NewestFirst
    BY <1>1, PageOrder
  <2>3. \A x, y, z \in S : <<x, y>> \in NewestFirst /\ <<y, z>> \in NewestFirst
                               => <<x, z>> \in NewestFirst
    BY <1>1, PageOrder
  <2> HIDE DEF S
  <2> QED BY <1>1, <2>1, <2>2, <2>3, Ranks
<1>3. L \in Nat /\ L <= N /\ (HasMore(c) => L = PageSize /\ L > 0)
      /\ (~HasMore(c) => L = N)
  BY <1>1, ConstantsOK DEF HasMore
<1> HIDE DEF S, N, list
<1>4. DOMAIN list = 1..N
  BY <1>2
<1>5. {k \in DOMAIN list : k <= PageSize} = 1..L
  BY <1>1, <1>4, ConstantsOK
<1>6. Fetch(c) = [n \in 1..L |-> [id |-> list[n], read |-> row[list[n]] = "read"]]
  BY <1>5 DEF Fetch, list, S
<1>7. \A n \in 1..L : n \in 1..N /\ list[n] \in S
  BY <1>1, <1>2, <1>3
<1>8. Fetch(c) \in Seq(Card) /\ Len(Fetch(c)) = L /\ DOMAIN Fetch(c) = 1..L
      /\ \A n \in 1..L : Fetch(c)[n].id = list[n]
  <2>1. \A n \in 1..L : [id |-> list[n], read |-> row[list[n]] = "read"] \in Card
    BY <1>1, <1>7 DEF Card
  <2>2. Fetch(c) \in [1..L -> Card]
    BY <1>6, <2>1
  <2>3. Fetch(c) \in Seq(Card) /\ Len(Fetch(c)) = L /\ DOMAIN Fetch(c) = 1..L
    BY <1>3, <2>2
  <2>4. \A n \in 1..L : Fetch(c)[n].id = list[n]
    BY <1>6
  <2> QED BY <2>3, <2>4
<1>9. IdsOf(Fetch(c)) = {list[n] : n \in 1..L}
  BY <1>8 DEF IdsOf
<1>10. Sorted(Fetch(c))
  <2>1. SUFFICES ASSUME NEW m \in 1..L, NEW n \in 1..L, m < n
                 PROVE  Newer(Fetch(c)[m].id, Fetch(c)[n].id)
    BY <1>8 DEF Sorted
  <2>2. <<list[m], list[n]>> \in NewestFirst /\ list[m] \in Ids /\ list[n] \in Ids
    BY <1>1, <1>2, <1>7, <2>1
  <2> QED BY <1>8, <2>2, PageOrder
<1>11. ASSUME NEW i \in S, i \notin IdsOf(Fetch(c))
       PROVE  HasMore(c) /\ Newer(Fetch(c)[Len(Fetch(c))].id, i)
  <2>1. PICK n \in 1..N : list[n] = i
    BY <1>2
  <2>2. n \notin 1..L
    BY <1>9, <1>11, <2>1
  <2>3. L < n /\ HasMore(c) /\ L \in 1..N
    BY <1>1, <1>3, <2>2
  <2>4. <<list[L], i>> \in NewestFirst
    BY <1>2, <2>1, <2>3
  <2> QED BY <1>1, <1>3, <1>7, <1>8, <2>3, <2>4, PageOrder
<1> QED BY <1>3, <1>7, <1>8, <1>9, <1>10, <1>11 DEF S

\* What is kept of the cards are cards of the list, in its order.
LEMMA KeepCards ==
    ASSUME cards \in Seq(Card), NEW K \in SUBSET DOMAIN cards
    PROVE  /\ Keep(K) \in Seq(Card)
           /\ \A n \in DOMAIN Keep(K) : \E k \in K : Keep(K)[n] = cards[k]
           /\ Sorted(cards) => Sorted(Keep(K))
<1> DEFINE R == {p \in K \X K : p[1] < p[2]}
           N == Cardinality(K)
           at == InOrder(K, R)
<1>1. K \subseteq Int /\ IsFiniteSet(K) /\ N \in Nat
  <2>1. DOMAIN cards = 1..Len(cards) /\ Len(cards) \in Nat
    OBVIOUS
  <2>2. IsFiniteSet(DOMAIN cards)
    BY <2>1, FS_Interval
  <2> QED BY <2>1, <2>2, FS_Subset, FS_CardinalityType
<1>2. /\ at \in [1..N -> K]
      /\ \A m, n \in 1..N : m < n => <<at[m], at[n]>> \in R
  <2>1. /\ \A x \in K : <<x, x>> \notin R
        /\ \A x, y \in K : x # y => <<x, y>> \in R \/ <<y, x>> \in R
        /\ \A x, y, z \in K : <<x, y>> \in R /\ <<y, z>> \in R => <<x, z>> \in R
    BY <1>1
  <2> HIDE DEF R
  <2> QED BY <1>1, <2>1, Ranks
<1>3. Keep(K) = [n \in 1..N |-> cards[at[n]]]
  BY <1>2 DEF Keep
<1>4. \A n \in 1..N : at[n] \in K /\ cards[at[n]] \in Card
  BY <1>2
<1>5. \A m, n \in 1..N : m < n => at[m] < at[n]
  BY <1>2
<1> HIDE DEF at, R
<1>6. Keep(K) \in Seq(Card) /\ DOMAIN Keep(K) = 1..N
  BY <1>1, <1>3, <1>4
<1>7. Sorted(cards) => Sorted(Keep(K))
  BY <1>3, <1>4, <1>5, <1>6 DEF Sorted
<1> QED BY <1>3, <1>4, <1>6, <1>7

-----------------------------------------------------------------------------
(* Types                                                                   *)

\* A page is asked for by a busy button, from the cursor; what it answers is
\* empty only if there is no more.
Asking ==
    \A c \in Calls : call[c] # NoCall /\ call[c].op = "more" =>
        /\ call[c].stage # "done"
        /\ call[c].live => button = "busy" /\ call[c].id = cursor
        /\ call[c].stage = "answered" /\ call[c].more => Len(call[c].items) > 0

PageInv ==
    /\ row \in [Ids -> {"absent", "unread", "read", "gone"}]
    /\ cards \in Seq(Card)
    /\ cursor \in Ids \cup {0}
    /\ button \in {"hidden", "ready", "busy"}
    /\ button # "hidden" => cursor # 0
    /\ badge \in Counts
    /\ markAll \in BOOLEAN /\ clear \in BOOLEAN /\ drift \in BOOLEAN
    /\ base \subseteq Ids /\ shown \subseteq Ids
    /\ call \in [Calls -> Request \cup {NoCall}]
    /\ Asking

LEMMA CountType == \A state : Count(state) \in Counts
<1>1. SUFFICES ASSUME NEW state PROVE Count(state) \in Counts
  OBVIOUS
<1> DEFINE R == {i \in Ids : row[i] = state}
<1>2. R \in SUBSET Ids
  OBVIOUS
<1> HIDE DEF R
<1>3. Cardinality(R) \in Nat /\ Cardinality(R) <= Cardinality(Ids)
      /\ Cardinality(Ids) \in Nat
  BY <1>2, ConstantsOK, FS_Subset, FS_CardinalityType
<1> QED BY <1>3 DEF Count, Counts, R

LEMMA FetchTypes ==
    ASSUME NEW c
    PROVE  /\ Fetch(c) \in Seq(Card)
           /\ IdsOf(Fetch(c)) \subseteq Ids
           /\ HasMore(c) \in BOOLEAN
           /\ HasMore(c) => Len(Fetch(c)) > 0
           /\ NextCursor(Fetch(c), HasMore(c)) \in Ids \cup {0}
           /\ HasMore(c) => NextCursor(Fetch(c), HasMore(c)) # 0
<1>1. Rest(c) \subseteq Ids
  BY DEF Rest
<1>2. /\ Fetch(c) \in Seq(Card) /\ IdsOf(Fetch(c)) \subseteq Ids
      /\ HasMore(c) => Len(Fetch(c)) > 0
  BY <1>1, FetchPage
<1>3. HasMore(c) => Fetch(c)[Len(Fetch(c))] \in Card
  BY <1>2
<1> QED BY <1>2, <1>3, ConstantsOK DEF NextCursor, HasMore, Card

LEMMA CardOf ==
    ASSUME NEW list \in Seq(Card), NEW n \in DOMAIN list
    PROVE  /\ list[n] \in Card /\ list[n].id \in Ids /\ list[n].read \in BOOLEAN
           /\ DOMAIN list = 1..Len(list)
<1>1. list[n] \in Card
  OBVIOUS
<1> QED BY <1>1 DEF Card

LEMMA RequestOf ==
    ASSUME NEW q \in Request
    PROVE  /\ q.op \in {"mark", "delete", "markAll", "clear", "more"}
           /\ q.id \in Ids \cup {0} /\ q.stage \in {"sent", "done", "answered"}
           /\ q.live \in BOOLEAN /\ q.unread \in Counts /\ q.read \in Counts
           /\ q.items \in Seq(Card) /\ q.more \in BOOLEAN
  BY DEF Request

LEMMA InitTypes == Init => PageInv
<1>1. SUFFICES ASSUME Init PROVE PageInv
  OBVIOUS
<1>2. 0 \in Counts
  BY ConstantsOK, FS_CardinalityType DEF Counts
<1>3. <<>> \in Seq(Card)
  OBVIOUS
<1> QED BY <1>1, <1>2, <1>3 DEF Init, PageInv, Asking

LEMMA WorldTypes ==
    ASSUME PageInv, NEW i \in Ids, Arrive(i) \/ Cascade(i)
    PROVE  PageInv'
<1>1. row' \in [Ids -> {"absent", "unread", "read", "gone"}] /\ drift' = TRUE
  BY DEF Arrive, Cascade, PageInv
<1>2. UNCHANGED <<page, call, base, shown>>
  BY DEF Arrive, Cascade
<1>3. Asking'
  BY <1>2 DEF page, PageInv, Asking
<1> QED BY <1>1, <1>2, <1>3 DEF page, PageInv, Counts, Request

LEMMA OpenTypes == PageInv /\ Open => PageInv'
<1>1. SUFFICES ASSUME PageInv, Open PROVE PageInv'
  OBVIOUS
<1>2. /\ cards' \in Seq(Card) /\ shown' \subseteq Ids
      /\ cursor' \in Ids \cup {0} /\ button' \in {"hidden", "ready", "busy"}
      /\ button' # "hidden" => cursor' # 0
  BY <1>1, FetchTypes DEF Open
<1>3. badge' \in Counts
  BY <1>1, CountType DEF Open
<1>4. \A c \in Calls : call'[c] # NoCall =>
         /\ call[c] # NoCall /\ call[c] \in Request
         /\ call'[c] = [call[c] EXCEPT !.live = FALSE]
  BY <1>1 DEF Open, PageInv
<1>5. \A q \in Request :
         LET r == [q EXCEPT !.live = FALSE]
         IN /\ r \in Request /\ ~r.live /\ r.op = q.op /\ r.stage = q.stage
            /\ r.items = q.items /\ r.more = q.more
  BY DEF Request
<1>6. \A c \in Calls : call'[c] # NoCall =>
         /\ call[c] # NoCall /\ call'[c] \in Request /\ ~call'[c].live
         /\ call'[c].op = call[c].op /\ call'[c].stage = call[c].stage
         /\ call'[c].items = call[c].items /\ call'[c].more = call[c].more
  BY <1>4, <1>5
<1>8. Asking'
  BY <1>1, <1>6 DEF Asking, PageInv
<1>7. DOMAIN call' = Calls /\ base' \subseteq Ids /\ drift' \in BOOLEAN /\ row' = row
  BY <1>1 DEF Open
<1>9. markAll' \in BOOLEAN /\ clear' \in BOOLEAN
  <2>1. \A state : Count(state) \in Int
    BY CountType DEF Counts
  <2>2. \A k \in Int : (k > 0) \in BOOLEAN
    OBVIOUS
  <2>3. (Count("unread") > 0) \in BOOLEAN /\ (Count("read") > 0) \in BOOLEAN
    BY <2>1, <2>2
  <2> QED BY <1>1, <2>3, Zenon DEF Open
<1>10. call' \in [Calls -> Request \cup {NoCall}]
  <2>1. call' = [c \in Calls |-> call'[c]]
    BY <1>1 DEF Open
  <2> QED BY <1>6, <2>1
<1>11. row' \in [Ids -> {"absent", "unread", "read", "gone"}]
  BY <1>1, <1>7 DEF PageInv
<1> QED BY <1>2, <1>3, <1>7, <1>8, <1>9, <1>10, <1>11 DEF PageInv, Counts

LEMMA ClickTypes ==
    ASSUME PageInv, NEW c \in Calls, Click(c)
    PROVE  PageInv'
<1>1. PICK op, i :
         /\ Send(c, op, i) /\ op \in {"mark", "delete", "markAll", "clear", "more"}
         /\ i \in Ids \cup {0}
         /\ op # "more" => button' = button
         /\ op = "more" => button = "ready" /\ button' = "busy" /\ i = cursor
  <2>1. \A n \in DOMAIN cards : cards[n].id \in Ids
    BY CardOf DEF PageInv
  <2> QED BY <2>1 DEF Click, ClickCard, ClickDelete, ClickMarkAll, ClickClear,
             ClickMore, Waiting, PageInv
<1> DEFINE r == [op |-> op, id |-> i, stage |-> "sent", live |-> TRUE,
                 unread |-> 0, read |-> 0, items |-> <<>>, more |-> FALSE]
<1>2. 0 \in Counts /\ <<>> \in Seq(Card)
  BY ConstantsOK, FS_CardinalityType DEF Counts
<1>3. r \in Request
  BY <1>1, <1>2 DEF Request
<1>4. /\ call[c] = NoCall /\ call' = [call EXCEPT ![c] = r]
      /\ UNCHANGED <<row, cards, cursor, badge, markAll, clear, hist>>
  BY <1>1 DEF Send
<1>5. /\ r.stage = "sent" /\ r.op = op /\ r.id = i
  OBVIOUS
<1> HIDE DEF r
<1>6. \A d \in Calls : call'[d] = IF d = c THEN r ELSE call[d]
  BY <1>4 DEF PageInv
<1>7. Asking'
  BY <1>1, <1>4, <1>5, <1>6 DEF PageInv, Asking
<1> QED BY <1>1, <1>3, <1>4, <1>6, <1>7 DEF PageInv, Counts, Request, hist

LEMMA CommitTypes ==
    ASSUME PageInv, NEW c \in Calls, Commit(c)
    PROVE  PageInv' /\ call'[c] \in Request
<1>1. /\ call[c] # NoCall /\ call[c] \in Request /\ call[c].op # "more"
      /\ call' = [call EXCEPT ![c] = [call[c] EXCEPT !.stage = "done"]]
      /\ row' = [i \in Ids |-> After(c, i)]
      /\ UNCHANGED <<page, base, shown>> /\ drift' \in BOOLEAN
  BY DEF Commit, Is, PageInv, Request
<1>2. \A i \in Ids : After(c, i) \in {"absent", "unread", "read", "gone"}
  BY DEF After, PageInv
<1>3. \A d \in Calls : d # c => call'[d] = call[d]
  BY <1>1 DEF PageInv
<1>4. call'[c] \in Request /\ call'[c].op # "more"
  BY <1>1 DEF PageInv, Request
<1>5. Asking'
  BY <1>1, <1>3, <1>4 DEF PageInv, Asking, page
<1> QED BY <1>1, <1>2, <1>3, <1>4, <1>5 DEF PageInv, page, Counts, Request

LEMMA RecountTypes ==
    ASSUME PageInv, NEW c \in Calls, Recount(c)
    PROVE  PageInv' /\ call'[c] \in Request
<1>1. /\ call[c] # NoCall /\ call[c] \in Request /\ call[c].stage = "done"
      /\ call' = [call EXCEPT ![c] = [call[c] EXCEPT !.stage = "answered",
                      !.unread = Unread(c), !.read = Count("read")]]
      /\ UNCHANGED <<row, page, base, shown>> /\ drift' \in BOOLEAN
  BY DEF Recount, Is, PageInv, Request
<1>2. Unread(c) \in Counts /\ Count("read") \in Counts
  <2>1. 0 \in Counts
    BY ConstantsOK, FS_CardinalityType DEF Counts
  <2> QED BY <2>1, CountType DEF Unread
<1>3. \A d \in Calls : d # c => call'[d] = call[d]
  BY <1>1 DEF PageInv
<1>4. call[c].op # "more"
  BY <1>1 DEF PageInv, Asking
<1>5. call'[c] \in Request /\ call'[c].op # "more"
  BY <1>1, <1>2, <1>4 DEF PageInv, Request
<1>6. Asking'
  BY <1>1, <1>3, <1>5 DEF PageInv, Asking, page
<1> QED BY <1>1, <1>3, <1>5, <1>6 DEF PageInv, page, Counts, Request

LEMMA LoadTypes ==
    ASSUME PageInv, NEW c \in Calls, LoadMore(c)
    PROVE  PageInv'
<1> DEFINE items == Fetch(call[c].id)
           more == HasMore(call[c].id)
<1>1. /\ call[c] # NoCall /\ call[c] \in Request /\ call[c].op = "more"
      /\ call' = [call EXCEPT ![c] = [call[c] EXCEPT !.stage = "answered",
                                         !.items = items, !.more = more]]
      /\ UNCHANGED <<row, page, hist>>
  BY DEF LoadMore, Is, PageInv
<1>2. items \in Seq(Card) /\ more \in BOOLEAN /\ (more => Len(items) > 0)
  BY FetchTypes
<1> HIDE DEF items, more
<1>3. \A d \in Calls : d # c => call'[d] = call[d]
  BY <1>1 DEF PageInv
<1>4. /\ call'[c] \in Request /\ call'[c].op = "more" /\ call'[c].stage = "answered"
      /\ call'[c].live = call[c].live /\ call'[c].id = call[c].id
      /\ call'[c].items = items /\ call'[c].more = more
  BY <1>1, <1>2 DEF PageInv, Request
<1>5. Asking'
  BY <1>1, <1>2, <1>3, <1>4 DEF PageInv, Asking, page
<1> QED BY <1>1, <1>3, <1>4, <1>5 DEF PageInv, page, hist, Counts, Request

LEMMA ChangeTypes ==
    ASSUME PageInv, NEW c \in Calls,
           OnMarked(c) \/ OnMarkedAll(c) \/ OnDeleted(c) \/ OnCleared(c)
    PROVE  PageInv' /\ Sync(c) /\ Is(c, "answered") /\ call[c].op # "more"
           /\ call[c].live /\ call' = [call EXCEPT ![c] = NoCall]
<1>1. /\ call[c] # NoCall /\ call[c] \in Request /\ Sync(c) /\ Is(c, "answered")
      /\ call' = [call EXCEPT ![c] = NoCall] /\ call[c].op # "more" /\ call[c].live
  BY DEF OnMarked, OnMarkedAll, OnDeleted, OnCleared, Answered, Is, PageInv
<1>2. \A ids : Marked(ids) \in Seq(Card)
  <2>1. SUFFICES ASSUME NEW ids PROVE Marked(ids) \in Seq(Card)
    OBVIOUS
  <2>2. cards \in Seq(Card) /\ DOMAIN cards = 1..Len(cards) /\ Len(cards) \in Nat
    BY DEF PageInv
  <2>3. \A n \in DOMAIN cards :
           [cards[n] EXCEPT !.read = cards[n].read \/ cards[n].id \in ids] \in Card
    <3>1. \A k \in Card : [k EXCEPT !.read = k.read \/ k.id \in ids] \in Card
      BY DEF Card
    <3> QED BY <2>2, <3>1, CardOf
  <2> QED BY <2>2, <2>3 DEF Marked
<1>3. cards' \in Seq(Card)
  <2>1. \A K \in SUBSET DOMAIN cards : Keep(K) \in Seq(Card)
    BY KeepCards DEF PageInv
  <2>2. /\ Keep({n \in DOMAIN cards : cards[n].id # call[c].id}) \in Seq(Card)
        /\ Keep({n \in DOMAIN cards : ~cards[n].read}) \in Seq(Card)
    BY <2>1
  <2> QED BY <1>2, <2>2 DEF OnMarked, OnMarkedAll, OnDeleted, OnCleared
<1>4. \A d \in Calls : call'[d] # NoCall => d # c /\ call'[d] = call[d]
  BY <1>1 DEF PageInv
<1>5. badge' \in Counts /\ markAll' \in BOOLEAN /\ clear' \in BOOLEAN
      /\ UNCHANGED <<row, cursor, button, hist>>
  BY <1>1 DEF Sync, NewBadge, PageInv, Request, Counts
<1>6. Asking'
  BY <1>4, <1>5 DEF PageInv, Asking
<1> QED BY <1>1, <1>3, <1>4, <1>5, <1>6 DEF PageInv, hist, Counts, Request

LEMMA LoadedTypes ==
    ASSUME PageInv, NEW c \in Calls, OnLoaded(c),
           \A d \in Calls : call[d] # NoCall /\ call[d].op = "more" /\ call[d].live => d = c
    PROVE  PageInv'
<1>1. /\ call[c] # NoCall /\ call[c] \in Request /\ call[c].op = "more"
      /\ call[c].live /\ call[c].stage = "answered"
      /\ call' = [call EXCEPT ![c] = NoCall]
  BY DEF OnLoaded, Answered, Is, PageInv
<1>2. call[c].items \in Seq(Card) /\ (call[c].more => Len(call[c].items) > 0)
      /\ button = "busy"
  BY <1>1 DEF PageInv, Asking, Request
<1>3. cards' \in Seq(Card)
  BY <1>2 DEF OnLoaded, PageInv
<1>4. call[c].more => NextCursor(call[c].items, TRUE) \in Ids
  <2>1. call[c].more => call[c].items[Len(call[c].items)] \in Card
    BY <1>2
  <2> QED BY <2>1 DEF NextCursor, Card
<1>5. /\ cursor' \in Ids \cup {0} /\ button' \in {"hidden", "ready", "busy"}
      /\ button' # "hidden" => cursor' # 0
  BY <1>4, ConstantsOK DEF OnLoaded, PageInv
<1>6. shown' \subseteq Ids
  <2>1. IdsOf(call[c].items) \subseteq Ids
    BY <1>2, CardOf DEF IdsOf
  <2> QED BY <2>1 DEF OnLoaded, PageInv
<1>7. \A d \in Calls : call'[d] # NoCall => d # c /\ call'[d] = call[d]
  BY <1>1 DEF PageInv
<1>8. Asking'
  BY <1>7 DEF PageInv, Asking
<1> QED BY <1>3, <1>5, <1>6, <1>7, <1>8, <1>1 DEF OnLoaded, PageInv, Counts, Request

LEMMA EndTypes ==
    ASSUME PageInv, NEW c \in Calls, Fails(c) \/ Dropped(c),
           \A d, e \in Calls :
              /\ call[d] # NoCall /\ call[d].op = "more" /\ call[d].live
              /\ call[e] # NoCall /\ call[e].op = "more" /\ call[e].live
              => d = e
    PROVE  PageInv'
<1>1. call[c] # NoCall /\ call[c] \in Request /\ call' = [call EXCEPT ![c] = NoCall]
      /\ UNCHANGED <<row, cards, cursor, badge, markAll, clear, base, shown>>
      /\ drift' \in BOOLEAN
  BY DEF Fails, Dropped, Is, PageInv, page, hist
<1>2. \/ button' = button
      \/ call[c].op = "more" /\ call[c].live /\ button' = "ready" /\ button = "busy"
  BY <1>1 DEF Fails, Dropped, page, PageInv, Asking
<1>3. \A d \in Calls : call'[d] # NoCall => d # c /\ call'[d] = call[d]
  BY <1>1 DEF PageInv
<1>4. Asking'
  BY <1>1, <1>2, <1>3 DEF PageInv, Asking
<1> QED BY <1>1, <1>2, <1>3, <1>4 DEF PageInv, Counts, Request

-----------------------------------------------------------------------------
(* The list                                                                *)

\* Requests for more that this page still waits for.
Awaited == {c \in Calls : call[c] # NoCall /\ call[c].op = "more" /\ call[c].live}

\* These cards continue the list: nothing lies between the cursor and the last
\* of them that is not among them.
Follow(items, more) ==
    /\ Sorted(items)
    /\ \A n \in DOMAIN items : Newer(cursor, items[n].id)
    /\ \A i \in base \ IdsOf(items) : Visible(i) /\ Newer(cursor, i) =>
         more /\ Newer(items[Len(items)].id, i)

\* There is one of these requests at most, and its answer continues the list.
Continues ==
    /\ \A c, d \in Awaited : c = d
    /\ \A c \in Awaited : call[c].stage = "answered" =>
         Follow(call[c].items, call[c].more)

LEMMA StillFollow ==
    ASSUME NEW items, NEW more, Follow(items, more), UNCHANGED <<row, cursor, base>>
    PROVE  Follow(items, more)'
  BY DEF Follow, Sorted, IdsOf, Visible, Newer

\* Requests that were answered before still continue a list that did not move.
LEMMA StillContinues ==
    ASSUME Continues, UNCHANGED <<row, cursor, base>>,
           \A c, d \in Awaited' : c = d,
           \A c \in Awaited' : call'[c].stage = "answered" =>
              \/ c \in Awaited /\ call'[c] = call[c]
              \/ Follow(call'[c].items, call'[c].more)
    PROVE  Continues'
<1>1. SUFFICES ASSUME NEW c \in Awaited', call'[c].stage = "answered"
               PROVE  Follow(call[c].items, call[c].more)'
  BY DEF Continues
<1>2. PICK q : q = call'[c]
  OBVIOUS
<1>3. Follow(q.items, q.more)
  BY <1>1, <1>2 DEF Continues
<1>4. Follow(q.items, q.more)'
  BY <1>3, StillFollow
<1> QED BY <1>2, <1>4 DEF Follow, Sorted, IdsOf, Visible, Newer

\* While there is more to load, the cursor is the last row loaded.
ListInv ==
    /\ Continues
    /\ button # "hidden" => \A n \in DOMAIN cards :
          cards[n].id = cursor \/ Newer(cards[n].id, cursor)
    /\ \A i \in base : row[i] # "absent"
    /\ PageInOrder
    /\ NothingSkipped

\* Rows the page was opened with do not come back once they are gone.
NoneReturn == \A i \in base : /\ row'[i] # "absent"
                              /\ row'[i] \in {"unread", "read"} => Visible(i)

LEMMA RowsList ==
    ASSUME PageInv, ListInv,
           NoneReturn, UNCHANGED <<page, base, shown>>,
           Awaited' = Awaited, \A c \in Awaited : call'[c] = call[c]
    PROVE  ListInv'
<1>2. Continues'
  BY DEF NoneReturn, ListInv, Continues, Follow, Sorted, IdsOf, Visible, page, Newer
<1>3. PageInOrder'
  BY DEF ListInv, PageInOrder, page, Newer
<1>4. NothingSkipped'
  BY DEF NoneReturn, ListInv, NothingSkipped, page, Newer, Beyond, Visible
<1>5. UNCHANGED <<cards, cursor, button, base>>
  BY DEF page
<1>6. \A i \in base' : row'[i] # "absent"
  BY <1>5 DEF NoneReturn
<1>7. (button # "hidden" => \A n \in DOMAIN cards :
          cards[n].id = cursor \/ Newer(cards[n].id, cursor))'
  BY <1>5 DEF ListInv, Newer
<1> QED BY <1>2, <1>3, <1>4, <1>6, <1>7 DEF ListInv

LEMMA OpenList == PageInv /\ Open => ListInv'
<1>1. SUFFICES ASSUME PageInv, Open PROVE ListInv'
  OBVIOUS
<1> DEFINE items == Fetch(0)
<1>2. /\ items \in Seq(Card) /\ IdsOf(items) \subseteq Rest(0) /\ Sorted(items)
      /\ HasMore(0) => Len(items) > 0
      /\ \A i \in Rest(0) \ IdsOf(items) : HasMore(0) /\ Newer(items[Len(items)].id, i)
  BY FetchPage
<1>3. Rest(0) = {i \in Ids : Visible(i)}
  BY DEF Rest
<1>4. /\ cards' = items /\ row' = row /\ shown' = IdsOf(items) /\ base' = Rest(0)
      /\ button' = "hidden" <=> ~HasMore(0)
      /\ HasMore(0) => cursor' = items[Len(items)].id
  BY <1>1, <1>3 DEF Open, NextCursor
<1>5. Awaited' = {}
  BY <1>1 DEF Open, Awaited, PageInv, Request
<1> HIDE DEF items
<1>6. HasMore(0) => \A n \in DOMAIN items :
          items[n].id = cursor' \/ Newer(items[n].id, cursor')
  BY <1>2, <1>4 DEF Sorted
<1>7. \A i \in Ids : Visible(i)' <=> Visible(i)
  BY <1>4 DEF Visible
<1>8. NothingSkipped'
  <2>1. SUFFICES ASSUME NEW i \in Rest(0), Visible(i),
                        ~HasMore(0) \/ ~Newer(cursor', i), i \notin IdsOf(items)
                 PROVE  FALSE
    BY <1>3, <1>4, <1>7 DEF NothingSkipped, Beyond, Newer
  <2> QED BY <1>2, <1>4, <2>1
<1>9. PageInOrder'
  BY <1>2, <1>4 DEF PageInOrder, Sorted, Newer
<1>10. \A i \in base' : row'[i] # "absent"
  BY <1>3, <1>4 DEF Visible
<1> QED BY <1>4, <1>5, <1>6, <1>8, <1>9, <1>10 DEF ListInv, Continues, Newer

LEMMA ClickList ==
    ASSUME PageInv, ListInv, NEW c \in Calls, Click(c)
    PROVE  ListInv'
<1>1. PICK op, i :
         /\ Send(c, op, i)
         /\ op # "more" => button' = button
         /\ op = "more" => button = "ready" /\ button' = "busy"
  BY DEF Click, ClickCard, ClickDelete, ClickMarkAll, ClickClear, ClickMore, Waiting
<1>2. /\ \A d \in Calls : d # c => call'[d] = call[d]
      /\ call[c] = NoCall /\ call'[c].op = op /\ call'[c].stage = "sent"
      /\ UNCHANGED <<row, cards, cursor, base, shown>>
  BY <1>1 DEF Send, hist, PageInv
<1>3. Awaited' \subseteq Awaited \cup {c} /\ (op # "more" => Awaited' \subseteq Awaited)
      /\ c \notin Awaited
  BY <1>2 DEF Awaited
<1>4. button = "ready" => Awaited = {}
  BY DEF Awaited, PageInv, Asking
<1>5. Continues'
  <2>1. \A d, e \in Awaited' : d = e
    BY <1>1, <1>3, <1>4 DEF ListInv, Continues
  <2>2. \A d \in Awaited' : call'[d].stage = "answered" =>
           d \in Awaited /\ call'[d] = call[d]
    BY <1>2, <1>3 DEF Awaited
  <2> QED BY <1>2, <2>1, <2>2, StillContinues DEF ListInv
<1>6. PageInOrder'
  BY <1>2 DEF ListInv, PageInOrder, Newer
<1>7. NothingSkipped'
  BY <1>1, <1>2 DEF ListInv, NothingSkipped, Newer, Beyond, Visible
<1>8. button' # "hidden" => button # "hidden"
  BY <1>1
<1> QED BY <1>2, <1>5, <1>6, <1>7, <1>8 DEF ListInv, Newer

LEMMA LoadList ==
    ASSUME PageInv, ListInv, NEW c \in Calls, LoadMore(c)
    PROVE  ListInv'
<1> DEFINE items == Fetch(call[c].id)
<1>1. /\ call[c] # NoCall /\ call[c] \in Request /\ call[c].op = "more"
      /\ call' = [call EXCEPT ![c] = [call[c] EXCEPT !.stage = "answered",
                      !.items = items, !.more = HasMore(call[c].id)]]
      /\ UNCHANGED <<row, page, hist>>
  BY DEF LoadMore, Is, PageInv
<1>2. /\ IdsOf(items) \subseteq Rest(call[c].id) /\ Sorted(items)
      /\ \A i \in Rest(call[c].id) \ IdsOf(items) :
            HasMore(call[c].id) /\ Newer(items[Len(items)].id, i)
  BY FetchPage
<1> HIDE DEF items
<1>3. /\ \A d \in Calls : d # c => call'[d] = call[d]
      /\ call'[c].items = items /\ call'[c].more = HasMore(call[c].id)
      /\ call'[c].op = "more" /\ call'[c].live = call[c].live
      /\ call'[c].stage = "answered"
  BY <1>1 DEF PageInv, Request
<1>4. Awaited' \subseteq Awaited
  BY <1>1, <1>3 DEF Awaited
<1>5. c \in Awaited => /\ call[c].id = cursor /\ cursor # 0
                       /\ Rest(cursor) = {i \in Ids : Visible(i) /\ Newer(cursor, i)}
  BY DEF Awaited, PageInv, Asking, Rest, Beyond
<1>6. c \in Awaited =>
        /\ \A n \in DOMAIN items : Newer(cursor, items[n].id)
        /\ \A i \in base \ IdsOf(items) : Visible(i) /\ Newer(cursor, i) =>
             HasMore(call[c].id) /\ Newer(items[Len(items)].id, i)
  BY <1>2, <1>5 DEF IdsOf, PageInv
<1>7. Continues'
  <2>1. \A d, e \in Awaited' : d = e
    BY <1>4 DEF ListInv, Continues
  <2>2. c \in Awaited => Follow(items, HasMore(call[c].id))
    BY <1>2, <1>6 DEF Follow
  <2>3. \A d \in Awaited' : \/ d \in Awaited /\ call'[d] = call[d]
                            \/ Follow(call'[d].items, call'[d].more)
    BY <1>3, <1>4, <2>2 DEF Awaited
  <2> QED BY <1>1, <2>1, <2>3, StillContinues DEF ListInv, page, hist
<1>8. UNCHANGED <<row, cards, cursor, button, base, shown>>
  BY <1>1 DEF page, hist
<1>9. PageInOrder' /\ NothingSkipped'
  BY <1>8 DEF ListInv, PageInOrder, NothingSkipped, Newer, Beyond, Visible
<1> QED BY <1>7, <1>8, <1>9 DEF ListInv, Newer

LEMMA ChangeList ==
    ASSUME PageInv, ListInv, NEW c \in Calls,
           OnMarked(c) \/ OnMarkedAll(c) \/ OnDeleted(c) \/ OnCleared(c)
    PROVE  ListInv'
<1>1. /\ Sync(c) /\ call[c].op # "more" /\ call' = [call EXCEPT ![c] = NoCall]
  BY ChangeTypes
<1>2. UNCHANGED <<row, cursor, button, base, shown>>
  BY <1>1 DEF Sync, hist
<1>3. Sorted(cards)
  BY DEF ListInv, PageInOrder, Sorted
<1>4. /\ Sorted(cards') /\ cards' \in Seq(Card)
      /\ \A n \in DOMAIN cards' : \E k \in DOMAIN cards : cards'[n].id = cards[k].id
  <2>1. cards \in Seq(Card)
    BY DEF PageInv
  <2>2. CASE OnMarked(c) \/ OnMarkedAll(c)
    <3>1. ASSUME NEW ids
          PROVE  /\ DOMAIN Marked(ids) = DOMAIN cards
                 /\ \A n \in DOMAIN cards : Marked(ids)[n].id = cards[n].id
      <4>1. \A k \in Card : [k EXCEPT !.read = k.read \/ k.id \in ids].id = k.id
        BY DEF Card
      <4> QED BY <2>1, <4>1, CardOf DEF Marked
    <3>2. /\ DOMAIN cards' = DOMAIN cards
          /\ \A n \in DOMAIN cards : cards'[n].id = cards[n].id
      BY <2>2, <3>1 DEF OnMarked, OnMarkedAll
    <3> QED BY <1>3, <3>2, ChangeTypes DEF Sorted, PageInv
  <2>3. CASE OnDeleted(c) \/ OnCleared(c)
    <3>1. PICK K \in SUBSET DOMAIN cards : cards' = Keep(K)
      BY <2>3 DEF OnDeleted, OnCleared
    <3> QED BY <1>3, <2>1, <3>1, KeepCards
  <2> QED BY <2>2, <2>3
<1>5. PageInOrder'
  BY <1>4 DEF Sorted, PageInOrder, Newer
<1>6. NothingSkipped'
  BY <1>2 DEF ListInv, NothingSkipped, Newer, Beyond, Visible
<1>7. Awaited' \subseteq Awaited /\ \A d \in Awaited' : call'[d] = call[d]
  BY <1>1 DEF Awaited, PageInv
<1>8. Continues'
  BY <1>2, <1>7 DEF ListInv, Continues, Follow, Sorted, IdsOf, Visible, Newer
<1> QED BY <1>2, <1>4, <1>5, <1>6, <1>8 DEF ListInv, Newer

LEMMA LoadedList ==
    ASSUME PageInv, ListInv, NEW c \in Calls, OnLoaded(c)
    PROVE  ListInv'
<1> DEFINE items == call[c].items
           last == items[Len(items)]
<1>1. /\ c \in Awaited /\ call[c] \in Request /\ call[c].stage = "answered"
      /\ call' = [call EXCEPT ![c] = NoCall]
  BY DEF OnLoaded, Answered, Is, Awaited, PageInv
<1>2. /\ items \in Seq(Card) /\ button = "busy" /\ cursor \in Ids
      /\ call[c].more => Len(items) > 0
  BY <1>1 DEF PageInv, Asking, Request, Awaited
<1>3. /\ Sorted(items)
      /\ \A n \in DOMAIN items : Newer(cursor, items[n].id)
      /\ \A i \in base \ IdsOf(items) : Visible(i) /\ Newer(cursor, i) =>
            call[c].more /\ Newer(last.id, i)
  BY <1>1 DEF ListInv, Continues, Follow
<1>4. /\ cards' = cards \o items /\ shown' = shown \cup IdsOf(items)
      /\ call[c].more => cursor' = last.id /\ button' = "ready"
      /\ ~call[c].more => cursor' = cursor /\ button' = "hidden"
      /\ UNCHANGED <<row, base>>
  BY DEF OnLoaded, NextCursor
<1>5. cards \in Seq(Card) /\ Sorted(cards)
      /\ \A n \in DOMAIN cards : cards[n].id = cursor \/ Newer(cards[n].id, cursor)
  BY <1>2 DEF PageInv, ListInv, PageInOrder, Sorted
<1>6. \A n \in DOMAIN cards, m \in DOMAIN items : Newer(cards[n].id, items[m].id)
  BY <1>2, <1>3, <1>5, CardOf, PageOrder
<1> HIDE DEF items
<1>7. Sorted(cards')
  BY <1>2, <1>3, <1>4, <1>5, <1>6 DEF Sorted
<1>8. PageInOrder'
  BY <1>7 DEF PageInOrder, Sorted, Newer
<1>9. call[c].more => \A n \in DOMAIN cards' :
          cards'[n].id = cursor' \/ Newer(cards'[n].id, cursor')
  <2>1. SUFFICES ASSUME call[c].more, NEW n \in DOMAIN cards'
                 PROVE  cards'[n].id = last.id \/ Newer(cards'[n].id, last.id)
    BY <1>4
  <2>2. /\ cards' \in Seq(Card) /\ Len(cards') = Len(cards) + Len(items)
        /\ cards'[Len(cards')] = last /\ Len(cards') \in DOMAIN cards'
    BY <1>2, <1>4, <1>5, <2>1
  <2>3. n = Len(cards') \/ n < Len(cards')
    BY <2>2
  <2> QED BY <1>7, <2>2, <2>3 DEF Sorted
<1>10. NothingSkipped'
  <2>1. SUFFICES ASSUME NEW i \in base, Visible(i), i \notin shown,
                        i \notin IdsOf(items)
                 PROVE  button' # "hidden" /\ Newer(cursor', i)
    BY <1>4 DEF NothingSkipped, Visible, Beyond, Newer
  <2>2. Newer(cursor, i)
    BY <1>2, <2>1 DEF ListInv, NothingSkipped, Beyond
  <2>3. call[c].more /\ Newer(last.id, i)
    BY <1>3, <2>1, <2>2
  <2> QED BY <1>4, <2>3
<1>11. Awaited' = {}
  BY <1>1 DEF Awaited, PageInv, ListInv, Continues
<1>12. Continues'
  BY <1>11 DEF Continues
<1> QED BY <1>4, <1>8, <1>9, <1>10, <1>12 DEF ListInv, Newer

LEMMA EndList ==
    ASSUME PageInv, ListInv, NEW c \in Calls, Fails(c) \/ Dropped(c)
    PROVE  ListInv'
<1>1. call[c] # NoCall /\ call' = [call EXCEPT ![c] = NoCall]
      /\ UNCHANGED <<row, cards, cursor, base, shown>>
  BY DEF Fails, Dropped, Is, page, hist
<1>2. button' # "hidden" <=> button # "hidden"
  BY <1>1 DEF Fails, Dropped, page, PageInv, Asking
<1>3. Awaited' \subseteq Awaited /\ \A d \in Awaited' : call'[d] = call[d]
  BY <1>1 DEF Awaited, PageInv
<1>4. Continues'
  BY <1>1, <1>3 DEF ListInv, Continues, Follow, Sorted, IdsOf, Visible, Newer
<1>5. PageInOrder' /\ NothingSkipped'
  BY <1>1, <1>2 DEF ListInv, PageInOrder, NothingSkipped, Newer, Beyond, Visible
<1> QED BY <1>1, <1>2, <1>4, <1>5 DEF ListInv, Newer

LEMMA ServeList ==
    ASSUME PageInv, ListInv, NEW c \in Calls, Commit(c) \/ Recount(c)
    PROVE  ListInv'
<1>1. /\ call[c] # NoCall /\ call[c] \in Request /\ call[c].op # "more"
      /\ \A d \in Calls : d # c => call'[d] = call[d]
      /\ call'[c].op = call[c].op
      /\ UNCHANGED <<page, base, shown>>
  BY DEF Commit, Recount, Is, PageInv, Asking, Request
<1>2. NoneReturn
  <2>1. CASE Commit(c)
    <3>1. SUFFICES ASSUME NEW i \in base
                   PROVE  row'[i] # "absent" /\ (row'[i] \in {"unread", "read"} => Visible(i))
      BY DEF NoneReturn
    <3>2. row'[i] = After(c, i) /\ row[i] # "absent" /\ ~NotFound(c)
      BY <2>1, <3>1 DEF Commit, PageInv, ListInv
    <3>3. CASE call[c].op \in {"mark", "delete"} /\ i = call[c].id
      BY <3>2, <3>3 DEF After, NotFound
    <3>4. CASE ~(call[c].op \in {"mark", "delete"} /\ i = call[c].id)
      BY <3>2, <3>4 DEF After, Visible
    <3> QED BY <3>3, <3>4
  <2>2. CASE Recount(c)
    BY <2>2 DEF NoneReturn, Recount, ListInv, Visible
  <2> QED BY <2>1, <2>2
<1>3. Awaited' = Awaited /\ \A d \in Awaited : call'[d] = call[d]
  BY <1>1 DEF Awaited
<1> QED BY <1>1, <1>2, <1>3, RowsList

LEMMA WorldList ==
    ASSUME PageInv, ListInv, NEW i \in Ids, Arrive(i) \/ Cascade(i)
    PROVE  ListInv'
<1>1. NoneReturn
  BY DEF NoneReturn, Arrive, Cascade, Visible, PageInv, ListInv
<1>2. UNCHANGED <<page, call, base, shown>>
  BY DEF Arrive, Cascade
<1>3. Awaited' = Awaited /\ \A d \in Awaited : call'[d] = call[d]
  BY <1>2 DEF Awaited
<1> QED BY <1>1, <1>2, <1>3, RowsList

LEMMA NextPage == PageInv /\ ListInv /\ [Next]_vars => PageInv' /\ ListInv'
<1>1. SUFFICES ASSUME PageInv, ListInv, [Next]_vars PROVE PageInv' /\ ListInv'
  OBVIOUS
<1>2. \A c, d \in Calls :
         /\ call[c] # NoCall /\ call[c].op = "more" /\ call[c].live
         /\ call[d] # NoCall /\ call[d].op = "more" /\ call[d].live
         => c = d
  BY <1>1 DEF ListInv, Continues, Awaited
<1>3. ASSUME NEW i \in Ids, Arrive(i) \/ Cascade(i) PROVE PageInv' /\ ListInv'
  BY <1>1, <1>3, WorldTypes, WorldList
<1>4. CASE Open
  BY <1>1, <1>4, OpenTypes, OpenList
<1>5. ASSUME NEW c \in Calls, Click(c) PROVE PageInv' /\ ListInv'
  BY <1>1, <1>5, ClickTypes, ClickList
<1>6. ASSUME NEW c \in Calls, Serve(c) PROVE PageInv' /\ ListInv'
  BY <1>1, <1>6, CommitTypes, RecountTypes, LoadTypes, ServeList, LoadList DEF Serve
<1>7. ASSUME NEW c \in Calls, Receive(c) \/ Fails(c) PROVE PageInv' /\ ListInv'
  <2>1. CASE OnMarked(c) \/ OnMarkedAll(c) \/ OnDeleted(c) \/ OnCleared(c)
    BY <1>1, <2>1, ChangeTypes, ChangeList
  <2>2. CASE OnLoaded(c)
    <3>1. call[c] # NoCall /\ call[c].op = "more" /\ call[c].live
      BY <2>2 DEF OnLoaded, Answered, Is
    <3> QED BY <1>1, <1>2, <2>2, <3>1, LoadedTypes, LoadedList
  <2>3. CASE Dropped(c) \/ Fails(c)
    BY <1>1, <1>2, <2>3, EndTypes, EndList
  <2> QED BY <1>7, <2>1, <2>2, <2>3 DEF Receive
<1>8. CASE UNCHANGED vars
  <2>1. UNCHANGED <<row, page, call, hist>>
    BY <1>8 DEF vars
  <2>2. PageInv'
    BY <1>1, <2>1 DEF PageInv, Asking, page, hist, Counts, Request
  <2>3. ListInv'
    <3>1. NoneReturn
      BY <1>1, <2>1 DEF NoneReturn, ListInv, Visible
    <3>2. Awaited' = Awaited /\ \A d \in Awaited : call'[d] = call[d]
      BY <2>1 DEF Awaited
    <3> QED BY <1>1, <2>1, <3>1, <3>2, RowsList DEF hist
  <2> QED BY <2>2, <2>3
<1> QED BY <1>1, <1>3, <1>4, <1>5, <1>6, <1>7, <1>8 DEF Next

LEMMA PageInvariant == Spec => [](PageInv /\ ListInv)
<1>1. Init => ListInv
  BY DEF Init, ListInv, Continues, Awaited, PageInOrder, NothingSkipped
<1> QED BY <1>1, InitTypes, NextPage, PTL DEF Spec

\* Rows, page and responses stay within their columns for any notifications
\* and requests: in particular the badge never goes below zero, and "Load
\* more" is never offered without a cursor.
THEOREM TypeCorrect == Spec => []TypeOK
<1>1. PageInv => TypeOK
  <2>1. SUFFICES ASSUME PageInv PROVE TypeOK
    OBVIOUS
  <2>2. call \in [Calls -> Request \cup {NoCall}]
    BY <2>1 DEF PageInv
  <2> QED BY <2>1, <2>2 DEF PageInv, TypeOK, Counts
<1> QED BY <1>1, PageInvariant, PTL

\* The list stays strictly newest first, so no notification is shown twice,
\* whatever arrives, disappears, fails or is reloaded while pages are loaded.
THEOREM NeverTwice == Spec => []PageInOrder
<1>1. ListInv => PageInOrder
  BY DEF ListInv
<1> QED BY <1>1, PageInvariant, PTL

\* Loading more skips no row that was there when the page was opened.
THEOREM NeverSkips == Spec => []NothingSkipped
<1>1. ListInv => NothingSkipped
  BY DEF ListInv
<1> QED BY <1>1, PageInvariant, PTL

-----------------------------------------------------------------------------
(* The badge                                                               *)

\* No change is made while another one is under way.
OneChange == MaxMutations = 1

\* The page agrees with the rows, and so do the counts an answer carries.
Agrees(unread, read) == unread = Count("unread") /\ read = Count("read")

BadgeInv ==
    /\ \A c, d \in Mutations : c = d
    /\ ~drift =>
         /\ \A c \in Mutations : call[c].live =>
               /\ call[c].stage = "done" /\ call[c].op = "markAll" => Count("unread") = 0
               /\ call[c].stage = "answered" => Agrees(call[c].unread, call[c].read)
         /\ (\A c \in Mutations : call[c].live => call[c].stage = "sent") =>
               badge = Count("unread") /\ clear = (Count("read") > 0)

LEMMA SameCount == row' = row => \A state : Count(state)' = Count(state)
  BY DEF Count

LEMMA InitBadge == Init => BadgeInv
  BY DEF Init, BadgeInv, Mutations

LEMMA OpenBadge == PageInv /\ BadgeInv /\ Open => BadgeInv'
<1>1. SUFFICES ASSUME PageInv, BadgeInv, Open PROVE BadgeInv'
  OBVIOUS
<1>2. \A c \in Calls : /\ call'[c] # NoCall => call[c] # NoCall
                       /\ call'[c] # NoCall => call'[c].op = call[c].op /\ ~call'[c].live
  <2>1. \A q \in Request :
           [q EXCEPT !.live = FALSE].op = q.op /\ ~[q EXCEPT !.live = FALSE].live
    BY DEF Request
  <2>2. \A c \in Calls : call'[c] = IF call[c] = NoCall THEN NoCall
                                    ELSE [call[c] EXCEPT !.live = FALSE]
    BY <1>1 DEF Open
  <2>3. \A c \in Calls : call[c] # NoCall => call[c] \in Request
    BY <1>1 DEF PageInv
  <2>4. SUFFICES ASSUME NEW c \in Calls, call'[c] # NoCall
                 PROVE  call[c] # NoCall /\ call'[c].op = call[c].op /\ ~call'[c].live
    OBVIOUS
  <2>5. call[c] # NoCall /\ call[c] \in Request /\ call'[c] = [call[c] EXCEPT !.live = FALSE]
    BY <2>2, <2>3, <2>4
  <2> QED BY <2>1, <2>5
<1>3. Mutations' \subseteq Mutations /\ \A c \in Mutations' : ~call'[c].live
  <2>1. SUFFICES ASSUME NEW c \in Mutations' PROVE c \in Mutations /\ ~call'[c].live
    OBVIOUS
  <2>2. c \in Calls /\ call'[c] # NoCall /\ call'[c].op # "more"
    BY DEF Mutations
  <2>3. call[c] # NoCall /\ call[c].op # "more" /\ ~call'[c].live
    BY <1>2, <2>2
  <2> QED BY <2>2, <2>3 DEF Mutations
<1>4. Count("unread")' = Count("unread") /\ Count("read")' = Count("read")
  BY <1>1, SameCount DEF Open
<1>5. badge' = Count("unread") /\ clear' = (Count("read") > 0)
  BY <1>1 DEF Open
<1> QED BY <1>1, <1>3, <1>4, <1>5 DEF BadgeInv

LEMMA WorldBadge ==
    ASSUME PageInv, BadgeInv, NEW i \in Ids, Arrive(i) \/ Cascade(i)
    PROVE  BadgeInv'
<1>1. drift' /\ call' = call
  BY DEF Arrive, Cascade
<1> QED BY <1>1 DEF BadgeInv, Mutations

LEMMA ClickBadge ==
    ASSUME PageInv, BadgeInv, OneChange, NEW c \in Calls, Click(c)
    PROVE  BadgeInv'
<1>1. PICK op, i : Send(c, op, i)
  BY DEF Click, ClickCard, ClickDelete, ClickMarkAll, ClickClear, ClickMore
<1>2. /\ \A d \in Calls : d # c => call'[d] = call[d]
      /\ call[c] = NoCall /\ call'[c].op = op /\ call'[c].stage = "sent"
      /\ UNCHANGED <<row, badge, clear, drift>>
  BY <1>1 DEF Send, hist, PageInv
<1>3. Mutations' \subseteq Mutations \cup {c} /\ (op = "more" => Mutations' \subseteq Mutations)
      /\ c \notin Mutations
  BY <1>2 DEF Mutations
<1>4. op # "more" => Mutations = {}
  <2>1. Mutations = {} \/ \E d : Mutations = {d}
    <3>1. ASSUME NEW d \in Mutations PROVE Mutations = {d}
      BY <3>1 DEF BadgeInv
    <3> QED BY <3>1
  <2>2. \A d : Cardinality({d}) = 1
    BY FS_Singleton
  <2>3. op # "more" => Cardinality(Mutations) < 1
    BY <1>1 DEF Send, OneChange
  <2> QED BY <2>1, <2>2, <2>3
<1>5. Count("unread")' = Count("unread") /\ Count("read")' = Count("read")
  BY <1>2, SameCount
<1>6. \A d, e \in Mutations' : d = e
  BY <1>3, <1>4 DEF BadgeInv
<1>7. \A d \in Mutations' : d # c => d \in Mutations /\ call'[d] = call[d]
  BY <1>2, <1>3 DEF Mutations
<1>8. \A d \in Mutations : d \in Mutations' /\ call'[d] = call[d]
  BY <1>2, <1>3 DEF Mutations
<1>9. ~drift' => \A d \in Mutations' : call'[d].live =>
         /\ call'[d].stage = "done" /\ call'[d].op = "markAll" => Count("unread")' = 0
         /\ call'[d].stage = "answered" => Agrees(call[d].unread, call[d].read)'
  <2>1. SUFFICES ASSUME ~drift, NEW d \in Mutations', call'[d].live
                 PROVE  /\ call'[d].stage = "done" /\ call'[d].op = "markAll"
                             => Count("unread")' = 0
                        /\ call'[d].stage = "answered"
                             => Agrees(call[d].unread, call[d].read)'
    BY <1>2
  <2> QED BY <1>2, <1>5, <1>7, <2>1 DEF BadgeInv, Agrees
<1>10. ~drift' /\ (\A d \in Mutations' : call'[d].live => call'[d].stage = "sent")
         => badge' = Count("unread")' /\ clear' = (Count("read")' > 0)
  BY <1>2, <1>5, <1>8 DEF BadgeInv
<1> QED BY <1>6, <1>9, <1>10 DEF BadgeInv

\* The one change under way, if there is one, and what is left of it.
LEMMA CommitBadge ==
    ASSUME PageInv, BadgeInv, NEW c \in Calls, Commit(c)
    PROVE  BadgeInv'
<1>1. /\ call[c] # NoCall /\ call[c] \in Request /\ call[c].op # "more"
      /\ call' = [call EXCEPT ![c] = [call[c] EXCEPT !.stage = "done"]]
      /\ row' = [i \in Ids |-> After(c, i)]
      /\ drift' = (~call[c].live \/ (drift /\ call[c].op # "markAll"))
  BY DEF Commit, Is, PageInv
<1>2. /\ \A d \in Calls : d # c => call'[d] = call[d]
      /\ call'[c].op = call[c].op /\ call'[c].live = call[c].live
      /\ call'[c].stage = "done"
  BY <1>1 DEF PageInv, Request
<1>3. c \in Mutations /\ Mutations = {c} /\ Mutations' \subseteq {c}
  <2>1. c \in Mutations /\ Mutations' \subseteq Mutations
    BY <1>1, <1>2 DEF Mutations
  <2> QED BY <2>1 DEF BadgeInv
<1>4. call[c].op = "markAll" => Count("unread")' = 0
  <2>1. SUFFICES ASSUME call[c].op = "markAll" PROVE Count("unread")' = 0
    OBVIOUS
  <2>2. {i \in Ids : row'[i] = "unread"} = {}
    BY <1>1, <2>1 DEF After
  <2> QED BY <2>2, FS_EmptySet DEF Count
<1>5. ~drift' => call[c].live
  BY <1>1
<1>6. c \in Mutations' \/ Mutations' = {}
  BY <1>3
<1>7. Mutations' = {c}
  <2>1. call'[c] # NoCall
    BY CommitTypes, NoCallIsNoRequest
  <2> QED BY <1>1, <1>2, <1>3, <2>1 DEF Mutations
<1> QED BY <1>2, <1>4, <1>5, <1>7 DEF BadgeInv

LEMMA RecountBadge ==
    ASSUME PageInv, BadgeInv, NEW c \in Calls, Recount(c)
    PROVE  BadgeInv'
<1>1. /\ call[c] # NoCall /\ call[c] \in Request /\ call[c].op # "more"
      /\ call[c].stage = "done"
      /\ call' = [call EXCEPT ![c] = [call[c] EXCEPT !.stage = "answered",
                      !.unread = Unread(c), !.read = Count("read")]]
      /\ drift' = (drift /\ (~call[c].live \/ call[c].op = "markAll"))
      /\ UNCHANGED <<row, badge, clear>>
  BY DEF Recount, Is, PageInv, Asking, page
<1>2. /\ \A d \in Calls : d # c => call'[d] = call[d]
      /\ call'[c].op = call[c].op /\ call'[c].live = call[c].live
      /\ call'[c].stage = "answered" /\ call'[c].unread = Unread(c)
      /\ call'[c].read = Count("read")
  BY <1>1 DEF PageInv, Request
<1>3. c \in Mutations /\ Mutations = {c} /\ Mutations' \subseteq {c}
  <2>1. c \in Mutations /\ Mutations' \subseteq Mutations
    BY <1>1, <1>2 DEF Mutations
  <2> QED BY <2>1 DEF BadgeInv
<1>4. Count("unread")' = Count("unread") /\ Count("read")' = Count("read")
  BY <1>1, SameCount
<1>5. ~drift' /\ call[c].live => Unread(c) = Count("unread")
  BY <1>1, <1>3 DEF Unread, BadgeInv, PageInv
<1>6. ~drift' /\ ~call[c].live => badge = Count("unread") /\ clear = (Count("read") > 0)
  BY <1>1, <1>3 DEF BadgeInv, PageInv
<1>7. call'[c] # NoCall
  BY RecountTypes, NoCallIsNoRequest
<1>8. Mutations' = {c}
  BY <1>1, <1>2, <1>3, <1>7 DEF Mutations
<1>9. ~drift' /\ call'[c].live => Agrees(call[c].unread, call[c].read)'
  BY <1>2, <1>4, <1>5 DEF Agrees
<1>10. ~drift' /\ ~call'[c].live => badge' = Count("unread")' /\ clear' = (Count("read")' > 0)
  BY <1>1, <1>2, <1>4, <1>6
<1> QED BY <1>2, <1>8, <1>9, <1>10 DEF BadgeInv

\* Requests for more are no changes.
LEMMA LoadBadge ==
    ASSUME PageInv, BadgeInv, NEW c \in Calls, LoadMore(c) \/ OnLoaded(c)
    PROVE  BadgeInv'
<1>1. /\ call[c] # NoCall /\ call[c].op = "more" /\ call[c] \in Request
      /\ \A d \in Calls : d # c => call'[d] = call[d]
      /\ call'[c] = NoCall \/ call'[c].op = "more"
      /\ UNCHANGED <<row, badge, clear, drift>>
  BY DEF LoadMore, OnLoaded, Answered, Is, PageInv, page, hist, Request
<1>2. Mutations' = Mutations /\ \A d \in Mutations : call'[d] = call[d]
  BY <1>1 DEF Mutations
<1>3. Count("unread")' = Count("unread") /\ Count("read")' = Count("read")
  BY <1>1, SameCount
<1> QED BY <1>1, <1>2, <1>3 DEF BadgeInv, Agrees

LEMMA ChangeBadge ==
    ASSUME PageInv, BadgeInv, NEW c \in Calls,
           OnMarked(c) \/ OnMarkedAll(c) \/ OnDeleted(c) \/ OnCleared(c)
    PROVE  BadgeInv'
<1>1. /\ Sync(c) /\ Is(c, "answered") /\ call[c].op # "more" /\ call[c].live
      /\ call' = [call EXCEPT ![c] = NoCall]
  BY ChangeTypes
<1>2. c \in Mutations /\ Mutations' \subseteq Mutations \ {c}
  BY <1>1 DEF Mutations, Is, PageInv
<1>3. Mutations' = {}
  BY <1>2 DEF BadgeInv
<1>4. /\ badge' = call[c].unread /\ clear' = (call[c].read > 0)
      /\ UNCHANGED <<row, drift>>
  BY <1>1 DEF Sync, NewBadge, hist
<1>5. ~drift => call[c].unread = Count("unread") /\ call[c].read = Count("read")
  BY <1>1, <1>2 DEF BadgeInv, Agrees, Is
<1>6. Count("unread")' = Count("unread") /\ Count("read")' = Count("read")
  BY <1>4, SameCount
<1> QED BY <1>3, <1>4, <1>5, <1>6 DEF BadgeInv

LEMMA EndBadge ==
    ASSUME PageInv, BadgeInv, NEW c \in Calls, Fails(c) \/ Dropped(c)
    PROVE  BadgeInv'
<1>1. /\ call[c] # NoCall /\ call' = [call EXCEPT ![c] = NoCall]
      /\ UNCHANGED <<row, badge, clear>>
      /\ ~drift' => ~drift /\ (call[c].stage = "sent" \/ ~call[c].live)
  <2>1. CASE Fails(c)
    BY <2>1 DEF Fails, PageInv
  <2>2. CASE Dropped(c)
    BY <2>2 DEF Dropped, Is, page, hist
  <2> QED BY <2>1, <2>2
<1>2. /\ Mutations' = Mutations \ {c}
      /\ \A d \in Mutations' : call'[d] = call[d]
  BY <1>1 DEF Mutations, PageInv
<1>3. Count("unread")' = Count("unread") /\ Count("read")' = Count("read")
  BY <1>1, SameCount
<1>4. \A d, e \in Mutations' : d = e
  BY <1>2 DEF BadgeInv
<1>5. ~drift' => \A d \in Mutations' : call'[d].live =>
         /\ call'[d].stage = "done" /\ call'[d].op = "markAll" => Count("unread")' = 0
         /\ call'[d].stage = "answered" => Agrees(call[d].unread, call[d].read)'
  BY <1>1, <1>2, <1>3 DEF BadgeInv, Agrees
<1>6. ~drift' /\ (\A d \in Mutations' : call'[d].live => call'[d].stage = "sent")
         => badge' = Count("unread")' /\ clear' = (Count("read")' > 0)
  BY <1>1, <1>2, <1>3 DEF BadgeInv
<1> QED BY <1>4, <1>5, <1>6 DEF BadgeInv

LEMMA NextBadge ==
    ASSUME OneChange
    PROVE  PageInv /\ BadgeInv /\ [Next]_vars => BadgeInv'
<1>1. SUFFICES ASSUME PageInv, BadgeInv, [Next]_vars PROVE BadgeInv'
  OBVIOUS
<1>2. CASE UNCHANGED vars
  <2>1. UNCHANGED <<row, badge, clear, drift, call>>
    BY <1>2 DEF vars, page, hist
  <2>2. Count("unread")' = Count("unread") /\ Count("read")' = Count("read")
    BY <2>1, SameCount
  <2> QED BY <1>1, <2>1, <2>2 DEF BadgeInv, Mutations, Agrees
<1>3. CASE Next
  BY <1>1, <1>3, OpenBadge, WorldBadge, ClickBadge, CommitBadge, RecountBadge, LoadBadge,
     ChangeBadge, EndBadge DEF Next, Serve, Receive
<1> QED BY <1>1, <1>2, <1>3

\* While changes do not overlap, the badge and "Clear read" are right whenever
\* nothing is under way: they say what the server last counted, for any rows,
\* reloads, failures and pages loaded meanwhile.
THEOREM BadgeHolds ==
    ASSUME OneChange
    PROVE  Spec => []BadgeCorrect
<1>1. BadgeInv => BadgeCorrect
  BY DEF BadgeInv, BadgeCorrect, Mutations
<1> QED BY <1>1, InitBadge, NextBadge, PageInvariant, PTL DEF Spec
=============================================================================
