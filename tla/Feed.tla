-------------------------------- MODULE Feed --------------------------------
(***************************************************************************)
(* The two lists that are read page by page with a cursor: the activity of *)
(* a workspace (get_activity of src/app/services/dashboard/service.py) and *)
(* a member's notifications (list_notifications of                         *)
(* src/app/services/notifications/service.py).  Rows carry the time their  *)
(* transaction began, so rows of one transaction tie and a row may appear  *)
(* below others that were there before it.                                 *)
(***************************************************************************)
EXTENDS Integers, FiniteSets, Sequences

CONSTANTS
    Times,   \* times at which transactions begin
    Ids,     \* ids of rows, random in the code
    Limits   \* page sizes that readers ask for, raised to one at least

ASSUME FeedAssumption == Times \subseteq Int /\ Ids \subseteq Int /\ Limits \subseteq Nat \ {0}

VARIABLES
    feed,    \* the committed rows
    read,    \* notifications marked read
    reader   \* what one client has read so far, page by page

feedVars == <<feed, read, reader>>

Row == [at : Times, id : Ids]
Closed == [list |-> "none"]

FeedInit == feed = {} /\ read = {} /\ reader = Closed

-----------------------------------------------------------------------------
(* The order of the lists: newest first, ties by id.                        *)
Newer(a, b) == a.at > b.at \/ (a.at = b.at /\ a.id > b.id)

(* Mutant of After: the cursor's time alone.                                *)
AfterTime(row, cursor) == \A c \in cursor : row.at < c.at

(* The cursor is the last row of the page before, none for the first page.  *)
After(row, cursor) == \A c \in cursor : Newer(c, row)

(* The first n rows after the cursor, in the query's order: those that so   *)
(* many are newer than; the last of them when there is one more.            *)
PageAfter(rows, cursor, n) ==
    LET rest == {row \in rows : After(row, cursor)}
        items == {row \in rest : Cardinality({x \in rest : Newer(x, row)}) < n}
    IN  [items |-> items,
         cursor |-> IF items = rest THEN {} ELSE {row \in items : \A x \in items : ~Newer(row, x)}]

get_activity(cursor, n) == PageAfter(feed, cursor, n)

list_notifications(unread, cursor, n) == PageAfter(IF unread THEN feed \ read ELSE feed, cursor, n)

PageOf(list, cursor, n) ==
    IF list = "activity" THEN get_activity(cursor, n) ELSE list_notifications(list = "unread", cursor, n)

(* A client asks for the first page, and for the next while there is one.   *)
OpenList ==
    /\ reader = Closed
    /\ \E list \in {"activity", "all", "unread"}, n \in Limits :
         LET page == PageOf(list, {}, n)
         IN  reader' = [list |-> list, limit |-> n, first |-> feed, seen |-> <<page.items>>, cursor |-> page.cursor]
    /\ UNCHANGED <<feed, read>>

NextPage ==
    /\ reader # Closed /\ reader.cursor # {}
    /\ LET page == PageOf(reader.list, reader.cursor, reader.limit)
       IN  reader' = [reader EXCEPT !.seen = Append(@, page.items), !.cursor = page.cursor]
    /\ UNCHANGED <<feed, read>>

(* Meanwhile rows are committed and notifications read.                     *)
write_activity ==
    /\ \E row \in Row : row.id \notin {x.id : x \in feed} /\ feed' = feed \cup {row}
    /\ UNCHANGED <<read, reader>>

mark_read ==
    /\ \E row \in feed \ read : read' = read \cup {row}
    /\ UNCHANGED <<feed, reader>>

mark_all_read == feed \ read # {} /\ read' = feed /\ UNCHANGED <<feed, reader>>

FeedNext == OpenList \/ NextPage \/ write_activity \/ mark_read \/ mark_all_read

FeedSpec == FeedInit /\ [][FeedNext]_feedVars

-----------------------------------------------------------------------------
FeedTypeOK ==
    /\ feed \subseteq Row /\ read \subseteq feed
    /\ reader # Closed => reader.seen \in Seq(SUBSET feed) /\ reader.cursor \subseteq feed

(* However rows tie, arrive and are read between two pages, no row is shown *)
(* twice or out of order, and every row that was there when the list was    *)
(* opened, and still belongs to it, has been shown once its place is past.  *)
PagesCoverFeed ==
    reader # Closed =>
      /\ \A i, j \in DOMAIN reader.seen : i < j =>
           \A x \in reader.seen[i], y \in reader.seen[j] : Newer(x, y)
      /\ \A row \in reader.first :
           \/ \E i \in DOMAIN reader.seen : row \in reader.seen[i]
           \/ reader.list = "unread" /\ row \in read
           \/ reader.cursor # {} /\ After(row, reader.cursor)
=============================================================================
