-------------------------- MODULE NotificationPage --------------------------
(***************************************************************************)
(* One user's notifications and the page that lists them: the server       *)
(* answers requests of the page, which come back in any order, while the   *)
(* pipeline adds notifications and messages are deleted with theirs.       *)
(*                                                                         *)
(* One action is one click, one transaction or one response.               *)
(* Operators named Mut... are the definition below them with a slip.       *)
(***************************************************************************)
EXTENDS Integers, Sequences, FiniteSets

CONSTANTS
    Ids,           \* primary keys, in the order of the INSERTs
    Stamp,         \* created_at, set by the writer before it commits: ties
                   \* and inversions are possible
    PageSize,      \* PAGE_SIZE
    Calls,         \* requests of the page that may be under way
    MaxMutations,  \* bound: how many of them may change something
    NoCall

ASSUME ConstantsOK ==
    /\ Ids \subseteq Nat \ {0} /\ IsFiniteSet(Ids)
    /\ Stamp \in [Ids -> Nat]
    /\ PageSize \in Nat \ {0} /\ MaxMutations \in Nat

\* A card in the list.
Card == [id : Ids, read : BOOLEAN]

Counts == 0..Cardinality(Ids)

\* A request of the page: what it asks, how far it is, whether the page that
\* sent it is still there, and the answer.
Request == [op : {"mark", "delete", "markAll", "clear", "more"},
            id : Ids \cup {0}, stage : {"sent", "done", "answered"},
            live : BOOLEAN, unread : Counts, read : Counts,
            items : Seq(Card), more : BOOLEAN]

ASSUME NoCallIsNoRequest == NoCall \notin Request

VARIABLES
    row,      \* "absent" before the INSERT, "unread", "read", "gone"
    cards,    \* the list on the page: the id and class of each card
    cursor,   \* data-next-cursor: the oldest notification loaded, 0 if none
    button,   \* "Load more": "hidden", "ready", "busy" (disabled)
    badge,    \* the number on the bell
    markAll,  \* "Mark all as read" is shown
    clear,    \* "Clear read" is shown
    call,     \* the requests of the page
    base,     \* history: the rows there were when the page was opened
    shown,    \* history: the ids the page has shown since
    drift     \* history: something the page was not told of has happened
              \* since its counts were taken

page == <<cards, cursor, button, badge, markAll, clear>>
hist == <<base, shown, drift>>
vars == <<row, page, call, hist>>

-----------------------------------------------------------------------------
(* Keyset pagination                                                       *)

Visible(i) == row[i] \in {"unread", "read"}

Count(state) == Cardinality({i \in Ids : row[i] = state})

\* The order of the pages: (created_at, id), newest first.
Newer(i, j) == Stamp[i] > Stamp[j] \/ (Stamp[i] = Stamp[j] /\ i > j)
NewestFirst == {p \in Ids \X Ids : Newer(p[1], p[2])}

\* The members of a finite set as a list, in the order of a relation.
InOrder(S, before) ==
    [n \in 1..Cardinality(S) |->
        CHOOSE x \in S : Cardinality({y \in S : <<y, x>> \in before}) = n - 1]

MutBeyond(i, c) == Stamp[c] > Stamp[i]
\* Row i comes after the cursor c.
Beyond(i, c) == Newer(c, i)

Rest(c) == {i \in Ids : Visible(i) /\ (c # 0 => Beyond(i, c))}

\* One page after the cursor, as the template renders it.
Fetch(c) ==
    LET list == InOrder(Rest(c), NewestFirst)
        card(i) == [id |-> i, read |-> row[i] = "read"]
    IN [n \in {k \in DOMAIN list : k <= PageSize} |-> card(list[n])]

HasMore(c) == Cardinality(Rest(c)) > PageSize

\* The cursor of the next page: the oldest card of this one.
NextCursor(items, more) == IF more THEN items[Len(items)].id ELSE 0

IdsOf(items) == {items[n].id : n \in DOMAIN items}

-----------------------------------------------------------------------------
(* The rest of the world                                                   *)

\* The pipeline commits a notification.
Arrive(i) ==
    /\ row[i] = "absent"
    /\ row' = [row EXCEPT ![i] = "unread"]
    /\ drift' = TRUE
    /\ UNCHANGED <<page, call, base, shown>>

\* A message is deleted in another tab, and its notifications with it.
Cascade(i) ==
    /\ Visible(i)
    /\ row' = [row EXCEPT ![i] = "gone"]
    /\ drift' = TRUE
    /\ UNCHANGED <<page, call, base, shown>>

-----------------------------------------------------------------------------
(* The page                                                                *)

\* The page is loaded or loaded again: responses still under way find nobody.
Open ==
    /\ cards' = Fetch(0)
    /\ cursor' = NextCursor(Fetch(0), HasMore(0))
    /\ button' = IF HasMore(0) THEN "ready" ELSE "hidden"
    /\ badge' = Count("unread")
    /\ markAll' = (Count("unread") > 0)
    /\ clear' = (Count("read") > 0)
    /\ call' = [c \in Calls |-> IF call[c] = NoCall THEN NoCall
                                ELSE [call[c] EXCEPT !.live = FALSE]]
    /\ base' = {i \in Ids : Visible(i)}
    /\ shown' = IdsOf(Fetch(0))
    /\ drift' = FALSE
    /\ UNCHANGED row

Mutations == {c \in Calls : call[c] # NoCall /\ call[c].op # "more"}

Send(c, op, i) ==
    /\ call[c] = NoCall
    /\ op # "more" => Cardinality(Mutations) < MaxMutations
    /\ call' = [call EXCEPT ![c] =
         [op |-> op, id |-> i, stage |-> "sent", live |-> TRUE,
          unread |-> 0, read |-> 0, items |-> <<>>, more |-> FALSE]]
    /\ UNCHANGED <<row, cards, cursor, badge, markAll, clear, hist>>

MutWaiting == "ready"
Waiting == "busy"

ClickCard(c, n) == /\ ~cards[n].read /\ Send(c, "mark", cards[n].id)
                   /\ UNCHANGED button
ClickDelete(c, n) == Send(c, "delete", cards[n].id) /\ UNCHANGED button
ClickMarkAll(c) == markAll /\ Send(c, "markAll", 0) /\ UNCHANGED button
ClickClear(c) == clear /\ Send(c, "clear", 0) /\ UNCHANGED button
ClickMore(c) == /\ button = "ready"
                /\ Send(c, "more", cursor)
                /\ button' = Waiting

Click(c) ==
    \/ \E n \in DOMAIN cards : ClickCard(c, n) \/ ClickDelete(c, n)
    \/ ClickMarkAll(c) \/ ClickClear(c) \/ ClickMore(c)

-----------------------------------------------------------------------------
(* The server                                                              *)

\* What the transaction of a request does to a row.
After(c, i) ==
    CASE call[c].op = "mark" /\ i = call[c].id -> "read"
      [] call[c].op = "delete" /\ i = call[c].id -> "gone"
      [] call[c].op = "markAll" /\ row[i] = "unread" -> "read"
      [] call[c].op = "clear" /\ row[i] = "read" -> "gone"
      [] OTHER -> row[i]

\* The row of a single notification is gone: 404.
NotFound(c) == call[c].op \in {"mark", "delete"} /\ ~Visible(call[c].id)

Is(c, stage) == call[c] # NoCall /\ call[c].stage = stage

\* The transaction of a mutation.  mark_all_read answers 0 unread without
\* counting, so its counts are of this moment.
Commit(c) ==
    /\ Is(c, "sent") /\ call[c].op # "more"
    /\ ~NotFound(c)
    /\ row' = [i \in Ids |-> After(c, i)]
    /\ call' = [call EXCEPT ![c].stage = "done"]
    /\ drift' = (~call[c].live \/ (drift /\ call[c].op # "markAll"))
    /\ UNCHANGED <<page, base, shown>>

MutUnread(c) == IF call[c].op \in {"markAll", "clear"} THEN 0
                ELSE Count("unread")
Unread(c) == IF call[c].op = "markAll" THEN 0 ELSE Count("unread")

\* The counts are queried after the commit.
Recount(c) ==
    /\ Is(c, "done")
    /\ call' = [call EXCEPT ![c].stage = "answered", ![c].unread = Unread(c),
                            ![c].read = Count("read")]
    /\ drift' = (drift /\ (~call[c].live \/ call[c].op = "markAll"))
    /\ UNCHANGED <<row, page, base, shown>>

\* load_more_notifications.
LoadMore(c) ==
    /\ Is(c, "sent") /\ call[c].op = "more"
    /\ call' = [call EXCEPT ![c].stage = "answered",
                            ![c].items = Fetch(call[c].id),
                            ![c].more = HasMore(call[c].id)]
    /\ UNCHANGED <<row, page, hist>>

-----------------------------------------------------------------------------
(* The responses                                                           *)

Answered(c, op) == /\ Is(c, "answered") /\ call[c].live /\ call[c].op = op
                   /\ call' = [call EXCEPT ![c] = NoCall]

Marked(ids) == [n \in DOMAIN cards |->
                  [cards[n] EXCEPT !.read = @ \/ cards[n].id \in ids]]

MutNewBadge(c) == badge - 1
NewBadge(c) == call[c].unread

\* syncBadge, the "Mark all" button and syncClearReadBtn.
Sync(c) ==
    /\ badge' = NewBadge(c)
    /\ markAll' = (markAll /\ (call[c].unread # 0 \/ call[c].op = "clear"))
    /\ clear' = (call[c].read > 0)
    /\ UNCHANGED <<row, cursor, button, hist>>

OnMarked(c) == Answered(c, "mark") /\ cards' = Marked({call[c].id}) /\ Sync(c)

OnMarkedAll(c) == Answered(c, "markAll") /\ cards' = Marked(Ids) /\ Sync(c)

\* The cards at these positions stay in the list, the others are removed.
Keep(positions) ==
    LET at == InOrder(positions, {p \in positions \X positions : p[1] < p[2]})
    IN [n \in DOMAIN at |-> cards[at[n]]]

OnDeleted(c) ==
    /\ Answered(c, "delete")
    /\ cards' = Keep({n \in DOMAIN cards : cards[n].id # call[c].id})
    /\ Sync(c)

OnCleared(c) ==
    /\ Answered(c, "clear")
    /\ cards' = Keep({n \in DOMAIN cards : ~cards[n].read})
    /\ Sync(c)

OnLoaded(c) ==
    /\ Answered(c, "more")
    /\ cards' = cards \o call[c].items
    /\ cursor' = IF call[c].more THEN NextCursor(call[c].items, TRUE) ELSE cursor
    /\ button' = IF call[c].more THEN "ready" ELSE "hidden"
    /\ shown' = shown \cup IdsOf(call[c].items)
    /\ UNCHANGED <<row, badge, markAll, clear, base, drift>>

\* A 404, a server or a network error, before or after the commit: the page
\* enables its button again and stays as it is.
Fails(c) ==
    /\ call[c] # NoCall
    /\ call' = [call EXCEPT ![c] = NoCall]
    /\ button' = IF call[c].op = "more" /\ call[c].live THEN "ready" ELSE button
    /\ drift' = (drift \/ call[c].stage # "sent")
    /\ UNCHANGED <<row, cards, cursor, badge, markAll, clear, base, shown>>

\* The answer to a page that is gone.
Dropped(c) ==
    /\ Is(c, "answered") /\ ~call[c].live
    /\ call' = [call EXCEPT ![c] = NoCall]
    /\ UNCHANGED <<row, page, hist>>

Serve(c) == Commit(c) \/ Recount(c) \/ LoadMore(c)
Receive(c) == \/ OnMarked(c) \/ OnMarkedAll(c) \/ OnDeleted(c)
              \/ OnCleared(c) \/ OnLoaded(c) \/ Dropped(c)

-----------------------------------------------------------------------------
\* Any notifications, and no page yet.
Init ==
    /\ row \in [Ids -> {"absent", "unread", "read"}]
    /\ cards = <<>> /\ cursor = 0 /\ button = "hidden"
    /\ badge = 0 /\ markAll = FALSE /\ clear = FALSE
    /\ call = [c \in Calls |-> NoCall]
    /\ base = {} /\ shown = {} /\ drift = TRUE

Next == \/ \E i \in Ids : Arrive(i) \/ Cascade(i)
        \/ Open
        \/ \E c \in Calls : Click(c) \/ Serve(c) \/ Receive(c) \/ Fails(c)

Spec == Init /\ [][Next]_vars

-----------------------------------------------------------------------------
(* Properties                                                              *)

\* Every variable keeps to what the column, the page or a response can hold;
\* in particular the badge is never negative and "Load more" has a cursor.
TypeOK ==
    /\ row \in [Ids -> {"absent", "unread", "read", "gone"}]
    /\ cards \in Seq(Card)
    /\ cursor \in Ids \cup {0}
    /\ button \in {"hidden", "ready", "busy"}
    /\ button # "hidden" => cursor # 0
    /\ badge \in Counts
    /\ markAll \in BOOLEAN /\ clear \in BOOLEAN /\ drift \in BOOLEAN
    /\ base \subseteq Ids /\ shown \subseteq Ids
    /\ call \in [Calls -> Request \cup {NoCall}]

\* The list stays strictly newest first, so no card is ever shown twice,
\* whatever arrives, leaves or fails while pages are loaded.
PageInOrder == \A m, n \in DOMAIN cards :
                   m < n => Newer(cards[m].id, cards[n].id)

\* Loading more skips nothing: a row that was there when the page was opened,
\* and still is, has been shown as soon as the cursor is past it ("the id
\* tiebreaker prevents skipped or duplicated notifications").
NothingSkipped ==
    \A i \in base :
        Visible(i) /\ (button = "hidden" \/ ~Beyond(i, cursor)) => i \in shown

\* With no request under way the badge and "Clear read" say what the server
\* last said, which nothing has changed since: "the badge and the Clear read
\* button stay correct" (notifications.js).
BadgeCorrect ==
    (\A c \in Calls : call[c] = NoCall) /\ ~drift =>
        badge = Count("unread") /\ clear = (Count("read") > 0)
=============================================================================
