------------------------------ MODULE Journal -------------------------------
(***************************************************************************)
(* The founders' journal (src/app/services/journal/service.py and its      *)
(* endpoints): an entry per founder and day, and beside it the log of the  *)
(* mood that the trend is drawn from.  Both are upserted; rows are locked  *)
(* from their write to the end of the transaction, create_entry takes the  *)
(* entry first and update_entry the log first, and of two that wait for    *)
(* each other the database fails one (Rollback).  Only a founder gets      *)
(* past check_founder_access; what is encrypted is left out.               *)
(***************************************************************************)
EXTENDS Transactions

CONSTANTS
    Founders,  \* members who pass check_founder_access
    Dates,     \* days that are written for
    Contents,  \* texts of an entry
    Moods,     \* moods that are given, of 1..5
    Stress     \* stress that is given, of 1..10

ASSUME DatesAssumption == IsFiniteSet(Dates) /\ Dates \subseteq Int
ASSUME MoodsAssumption == Moods \subseteq 1..5 /\ Stress \subseteq 1..10

VARIABLES
    entries,  \* <<founder, date>> -> entry
    moodLogs  \* <<founder, date>> -> mood of that day

journalVars == <<entries, moodLogs>>

JournalEntry == [id : Nat, content : Contents, mood : 1..5, stress : 1..10]
MoodLog == [id : Nat, mood : 1..5, stress : 1..10]

Days == Founders \X Dates
JournalInit == entries = << >> /\ moodLogs = << >>

mood_to_score == [rough |-> 1, meh |-> 2, okay |-> 3, good |-> 4, great |-> 5]
score_to_mood(n) == CHOOSE m \in DOMAIN mood_to_score : mood_to_score[m] = n
Given == [content : Contents, mood : {score_to_mood(n) : n \in Moods}, stress : Stress]

check_founder_access(user) == user \in Founders

_get_entry(user) == {k \in DOMAIN entries : k[1] = user}

-----------------------------------------------------------------------------
HoldsEntry == {"created", "logged"}
HoldsLog == {"logged", "relogged"}
There(rows, day, id) == day \in DOMAIN rows /\ rows[day].id = id
Free(r, day, ops) == \A q \in Requests \ {r} : txn[q].op \in ops => txn[q].day # day

IdOf(rows, t, new) == IF t.day \in DOMAIN rows THEN rows[t.day].id ELSE new
LogRow(t) == [id |-> IdOf(moodLogs, t, t.log), mood |-> t.data.mood, stress |-> t.data.stress]
EntryRow(t) ==
    [id |-> IdOf(entries, t, t.id), content |-> t.data.content, mood |-> t.data.mood, stress |-> t.data.stress]

Scored(data) == [data EXCEPT !.mood = mood_to_score[data.mood]]

create_journal_entry(r) ==
    /\ \E f \in Founders, date \in Dates, data \in Given :
         /\ check_founder_access(f)
         /\ Begin(r, [op |-> "create_entry", id |-> served + 1, log |-> served + 1, day |-> <<f, date>>,
                      data |-> Scored(data)])
    /\ UNCHANGED journalVars

create_entry(r) ==
    /\ Doing(r, "create_entry") /\ Free(r, txn[r].day, HoldsEntry)
    /\ Go(r, [txn[r] EXCEPT !.op = "created"])
    /\ UNCHANGED journalVars

_upsert_mood_log(r) ==
    /\ txn[r].op \in {"created", "update_entry"} /\ Free(r, txn[r].day, HoldsLog)
    /\ Go(r, [txn[r] EXCEPT !.op = IF @ = "created" THEN "logged" ELSE "relogged"])
    /\ UNCHANGED journalVars

(* Mutant of CommitEntry: the day's mood is not logged.                     *)
CommitEntryOnly(r) ==
    /\ Doing(r, "logged")
    /\ entries' = Put(entries, txn[r].day, EntryRow(txn[r]))
    /\ Commit(r)
    /\ UNCHANGED moodLogs

CommitEntry(r) ==
    /\ Doing(r, "logged")
    /\ entries' = Put(entries, txn[r].day, EntryRow(txn[r]))
    /\ moodLogs' = Put(moodLogs, txn[r].day, LogRow(txn[r]))
    /\ Commit(r)

(* What is not given is left as loaded; the log is given what the entry     *)
(* then reads as.                                                           *)
update_journal_entry(r) ==
    /\ \E f \in Founders : \E day \in _get_entry(f), set \in SUBSET {"content", "mood", "stress"}, data \in Given :
         LET old == entries[day]
             new == Scored(data)
             Pick(c) == IF c \in set THEN new[c] ELSE old[c]
         IN  /\ check_founder_access(f)
             /\ Begin(r, [op |-> "update_entry", id |-> old.id, log |-> served + 1, day |-> day, set |-> set, was |-> old,
                          data |-> [content |-> Pick("content"), mood |-> Pick("mood"), stress |-> Pick("stress")]])
    /\ UNCHANGED journalVars

(* A text is encrypted anew and always written, a mood or stress when it    *)
(* differs from what was loaded; where nothing is written, nobody notices   *)
(* that the entry is gone.                                                  *)
Written_columns(t) ==
    {c \in t.set : c = "content" \/ t.data[c] # t.was[c]}

update_entry(r) ==
    LET t == txn[r]
        cols == Written_columns(t)
    IN  /\ Doing(r, "relogged")
        /\ cols # {} => There(entries, t.day, t.id) /\ Free(r, t.day, HoldsEntry)
        /\ entries' = IF cols = {} THEN entries
                      ELSE [entries EXCEPT ![t.day] = [c \in DOMAIN @ |-> IF c \in cols THEN t.data[c] ELSE @[c]]]
        /\ moodLogs' = Put(moodLogs, t.day, LogRow(t))
        /\ Commit(r)

delete_journal_entry(r) ==
    /\ \E f \in Founders : \E day \in _get_entry(f) :
         /\ check_founder_access(f)
         /\ Begin(r, [op |-> "delete_entry", day |-> day, id |-> entries[day].id])
    /\ UNCHANGED journalVars

(* The entry's mood is looked up after it, by its day,                      *)
delete_entry(r) ==
    LET t == txn[r] IN
    /\ Doing(r, "delete_entry")
    /\ Go(r, [op |-> "deleted_entry", day |-> t.day, id |-> t.id,
              log |-> IF t.day \in DOMAIN moodLogs THEN moodLogs[t.day].id ELSE 0])
    /\ UNCHANGED journalVars

Without(rows, day, id) ==
    [k \in {i \in DOMAIN rows : ~(i = day /\ There(rows, day, id))} |-> rows[k]]

(* and both are deleted as the rows that they were.                         *)
CommitDelete(r) ==
    LET t == txn[r] IN
    /\ Doing(r, "deleted_entry")
    /\ There(entries, t.day, t.id) => Free(r, t.day, HoldsEntry)
    /\ There(moodLogs, t.day, t.log) => Free(r, t.day, HoldsLog)
    /\ entries' = Without(entries, t.day, t.id)
    /\ moodLogs' = Without(moodLogs, t.day, t.log)
    /\ Commit(r)

JournalStep(r) ==
    \/ create_journal_entry(r) \/ create_entry(r) \/ _upsert_mood_log(r) \/ CommitEntry(r)
    \/ update_journal_entry(r) \/ update_entry(r)
    \/ delete_journal_entry(r) \/ delete_entry(r) \/ CommitDelete(r)

JournalNext == \E r \in Requests : JournalStep(r) \/ (Rollback(r) /\ UNCHANGED journalVars)

JournalSpec == TransactionsInit /\ JournalInit /\ [][JournalNext]_<<journalVars, txnVars>>

-----------------------------------------------------------------------------
DaysOf(rows, user) == {k \in DOMAIN rows : k[1] = user}

(* A list is the days it has, in their order, newest first: a page of it    *)
(* are the days that skip to skip + limit - 1 of its days are newer than.   *)
Page(list, skip, limit) ==
    {k \in list : Cardinality({j \in list : j[2] > k[2]}) \in skip..skip + limit - 1}

list_entries(rows, user, skip, limit) == Page(DaysOf(rows, user), skip, limit)

(* Entries are searched decrypted: those with one of the texts found.       *)
search_entries(rows, user, found, skip, limit) ==
    Page({k \in DaysOf(rows, user) : rows[k].content \in found}, skip, limit)

_entry_list_item(rows, k) == <<k[2], score_to_mood(rows[k].mood)>>

(* Without a search, all of the founder's.                                  *)
list_journal_entries(rows, user, search, skip, limit) ==
    {_entry_list_item(rows, k) :
       k \in IF search = {} THEN list_entries(rows, user, skip, limit)
             ELSE search_entries(rows, user, search, skip, limit)}

(* Oldest first.                                                            *)
get_mood_trend(logs, user, from, to) ==
    {<<k[2], score_to_mood(logs[k].mood)>> : k \in {j \in DaysOf(logs, user) : j[2] \in from..to}}

JournalTypeOK ==
    /\ DOMAIN entries \subseteq Days /\ \A k \in DOMAIN entries : entries[k] \in JournalEntry
    /\ DOMAIN moodLogs \subseteq Days /\ \A k \in DOMAIN moodLogs : moodLogs[k] \in MoodLog

(* A request that no other commit raced leaves its day with the same mood   *)
(* in the list of entries, found by its text, as in the trend, and with     *)
(* neither where there is no entry, whatever races left there before.       *)
MoodFollowsEntry ==
    [][\A r \in Requests :
         txn[r].op \in {"logged", "relogged", "deleted_entry"} /\ journalVars' # journalVars
         /\ txn'[r] # txn[r] /\ alone[r] =>
           LET day == txn[r].day
               listed == list_journal_entries(entries', day[1], Contents, 0, Cardinality(Dates))
           IN  {item \in listed : item[1] = day[2]}
                 = get_mood_trend(moodLogs', day[1], day[2], day[2])]_journalVars
=============================================================================
