--------------------------- MODULE Notifications ----------------------------
(***************************************************************************)
(* From an event to the members of a workspace: the synchronous event bus  *)
(* (src/app/platform/events.py), the notification rows and e-mail jobs its *)
(* one subscriber writes (src/app/services/notifications/registry.py), the *)
(* live frames pushed through Redis by the session listeners               *)
(* (src/app/db/session.py, src/app/platform/realtime.py) and the stream    *)
(* endpoint that forwards them.                                            *)
(*                                                                         *)
(* A handler runs in a savepoint of the transaction that published.  The   *)
(* session's after_commit fires when a savepoint is released as well, and  *)
(* the stash is emptied there, so a frame leaves with the savepoint.       *)
(***************************************************************************)
EXTENDS Integers, FiniteSets

CONSTANTS
    Users,          \* members of one workspace, active or not
    Txns,           \* transactions that publish
    WorkerTxns,     \* those of the worker process
    Actor,          \* the user each transaction's events name as actor
    WantsMail,      \* users whose preferences allow e-mail for the category
    MaxEvents,      \* bound: events one transaction publishes
    RedisMayFail    \* may a publish to Redis be lost?

ASSUME NotificationsAssumption ==
    /\ WorkerTxns \subseteq Txns /\ WantsMail \subseteq Users
    /\ Actor \in [Txns -> Users]
    /\ MaxEvents \in Nat /\ RedisMayFail \in BOOLEAN

VARIABLES
    members,    \* users with an active membership
    state,      \* transaction -> open, committed or rolled back
    count,      \* events it has published
    rows,       \* notification rows written and not rolled back
    mail,       \* rows with an e-mail job written and not rolled back
    read,       \* rows marked read
    handling,   \* is the transaction inside a handler's savepoint?
    gate,       \* rows its handler has yet to look up preferences for
    stash,      \* the session's pending_realtime
    pushed,     \* rows sent to Redis
    stream,     \* user -> off, counted or on
    seen        \* user -> rows in the unread count or in a frame of the stream

handler == <<handling, gate, stash>>
live == <<pushed, stream, seen>>
notificationVars == <<members, state, count, rows, mail, read, handler, live>>

Events == Txns \X (1..MaxEvents)
Notes == [event : Events, user : Users]
TxnOf(n) == n.event[1]
Committed(n) == state[TxnOf(n)] = "committed"

NotificationsInit ==
    /\ members \in {m \in SUBSET Users : m # {}}
    /\ state = [t \in Txns |-> "open"]
    /\ count = [t \in Txns |-> 0]
    /\ rows = {} /\ mail = {} /\ read = {} /\ pushed = {}
    /\ handling = [t \in Txns |-> FALSE]
    /\ gate = [t \in Txns |-> {}] /\ stash = [t \in Txns |-> {}]
    /\ stream = [u \in Users |-> "off"]
    /\ seen = [u \in Users |-> {}]

-----------------------------------------------------------------------------
(* publish(): the event is recorded before any handler runs.                *)
Published(t) ==
    /\ state[t] = "open" /\ ~handling[t] /\ count[t] < MaxEvents
    /\ count' = [count EXCEPT ![t] = @ + 1]

LastEvent(t) == <<t, count[t]>>
Recipients(t) == members \ {Actor[t]}
NotesOf(e, us) == {[event |-> e, user |-> u] : u \in us}
OfLast(t) == {n \in Notes : n.event = LastEvent(t)}

(* The worker process subscribes nothing on its bus.                        *)
PublishUnheard(t) ==
    /\ t \in WorkerTxns
    /\ Published(t)
    /\ UNCHANGED <<members, state, rows, mail, read, handler, live>>

(* The handler opens its savepoint, flushes the rows and stashes frames.    *)
PublishHeard(t) ==
    /\ t \notin WorkerTxns
    /\ Published(t)
    /\ LET new == NotesOf(<<t, count[t] + 1>>, Recipients(t))
       IN /\ rows' = rows \cup new
          /\ stash' = [stash EXCEPT ![t] = @ \cup new]
          /\ gate' = [gate EXCEPT ![t] = new]
    /\ handling' = [handling EXCEPT ![t] = TRUE]
    /\ UNCHANGED <<members, state, mail, read, live>>

(* One row after the other, an e-mail job for those who want one.           *)
GateMail(t) ==
    /\ \E n \in gate[t] :
         /\ gate' = [gate EXCEPT ![t] = @ \ {n}]
         /\ mail' = mail \cup ({n} \cap {k \in Notes : k.user \in WantsMail})
    /\ UNCHANGED <<members, state, count, rows, read, handling, stash, live>>

(* Redis takes the frames of sent; each open stream forwards its own.       *)
Push(sent) ==
    /\ pushed' = pushed \cup sent
    /\ seen' = [u \in Users |->
         IF stream[u] = "on" THEN seen[u] \cup {n \in sent : n.user = u} ELSE seen[u]]

(* The savepoint is released and after_commit empties the stash.            *)
Release(t) ==
    /\ handling[t] /\ gate[t] = {}
    /\ handling' = [handling EXCEPT ![t] = FALSE]
    /\ stash' = [stash EXCEPT ![t] = {}]
    /\ IF RedisMayFail THEN \E sent \in SUBSET stash[t] : Push(sent)
                       ELSE Push(stash[t])
    /\ UNCHANGED <<members, state, count, rows, mail, read, gate, stream>>

(* Mutant of Raise: no savepoint, what was flushed stays.                   *)
RaiseKeepsFlushed(t) ==
    /\ handling[t]
    /\ handling' = [handling EXCEPT ![t] = FALSE]
    /\ gate' = [gate EXCEPT ![t] = {}]
    /\ stash' = [stash EXCEPT ![t] = {}]
    /\ UNCHANGED <<members, state, count, rows, mail, read, live>>

(* Mutant of Raise: no after_rollback listener, the stash stays.            *)
RaiseKeepsStash(t) ==
    /\ handling[t]
    /\ handling' = [handling EXCEPT ![t] = FALSE]
    /\ gate' = [gate EXCEPT ![t] = {}]
    /\ rows' = rows \ OfLast(t)
    /\ mail' = mail \ OfLast(t)
    /\ UNCHANGED <<members, state, count, read, stash, live>>

(* The handler raises: its savepoint is rolled back, the stash is dropped,  *)
(* and the action that published goes on.                                   *)
Raise(t) ==
    /\ handling[t]
    /\ handling' = [handling EXCEPT ![t] = FALSE]
    /\ gate' = [gate EXCEPT ![t] = {}]
    /\ stash' = [stash EXCEPT ![t] = {}]
    /\ rows' = rows \ OfLast(t)
    /\ mail' = mail \ OfLast(t)
    /\ UNCHANGED <<members, state, count, read, live>>

Commit(t) ==
    /\ state[t] = "open" /\ count[t] > 0 /\ ~handling[t]
    /\ state' = [state EXCEPT ![t] = "committed"]
    /\ UNCHANGED <<members, count, rows, mail, read, handler, live>>

(* The action fails after it published: the session is closed unsaved.      *)
Rollback(t) ==
    /\ state[t] = "open" /\ count[t] > 0 /\ ~handling[t]
    /\ state' = [state EXCEPT ![t] = "rolledback"]
    /\ rows' = {n \in rows : TxnOf(n) # t}
    /\ mail' = {n \in mail : TxnOf(n) # t}
    /\ UNCHANGED <<members, count, read, handler, live>>

-----------------------------------------------------------------------------
Unread(u) == {n \in rows \ read : n.user = u /\ Committed(n)}

(* The stream: the unread count goes out first, then the subscription.      *)
OpenStream(u) ==
    /\ u \in members /\ stream[u] = "off"
    /\ stream' = [stream EXCEPT ![u] = "counted"]
    /\ seen' = [seen EXCEPT ![u] = Unread(u)]
    /\ UNCHANGED <<members, state, count, rows, mail, read, handler, pushed>>

Subscribe(u) ==
    /\ stream[u] = "counted"
    /\ stream' = [stream EXCEPT ![u] = "on"]
    /\ UNCHANGED <<members, state, count, rows, mail, read, handler, pushed, seen>>

Disconnect(u) ==
    /\ stream[u] # "off"
    /\ stream' = [stream EXCEPT ![u] = "off"]
    /\ seen' = [seen EXCEPT ![u] = {}]
    /\ UNCHANGED <<members, state, count, rows, mail, read, handler, pushed>>

MarkRead(n) ==
    /\ n \in Unread(n.user)
    /\ read' = read \cup {n}
    /\ UNCHANGED <<members, state, count, rows, mail, handler, live>>

MarkAllRead(u) ==
    /\ Unread(u) # {}
    /\ read' = read \cup Unread(u)
    /\ UNCHANGED <<members, state, count, rows, mail, handler, live>>

(* accept_invitation activates a membership.                                *)
Join(u) ==
    /\ u \notin members
    /\ members' = members \cup {u}
    /\ UNCHANGED <<state, count, rows, mail, read, handler, live>>

TxnStep(t) ==
    \/ PublishHeard(t)
    \/ PublishUnheard(t)
    \/ GateMail(t)
    \/ Release(t)
    \/ Raise(t)
    \/ Commit(t)
    \/ Rollback(t)

UserStep(u) ==
    \/ OpenStream(u)
    \/ Subscribe(u)
    \/ Disconnect(u)
    \/ MarkAllRead(u)
    \/ Join(u)

NotificationsNext ==
    \/ \E t \in Txns : TxnStep(t)
    \/ \E u \in Users : UserStep(u)
    \/ \E n \in Notes : MarkRead(n)

NotificationsSpec == NotificationsInit /\ [][NotificationsNext]_notificationVars

-----------------------------------------------------------------------------
(* Types; only rows that exist are read, and preferences are looked up only *)
(* inside a handler.                                                        *)
NotificationsTypeOK ==
    /\ members \subseteq Users
    /\ state \in [Txns -> {"open", "committed", "rolledback"}]
    /\ count \in [Txns -> 0..MaxEvents]
    /\ rows \subseteq Notes /\ mail \subseteq Notes
    /\ read \subseteq rows /\ pushed \subseteq Notes
    /\ handling \in [Txns -> BOOLEAN]
    /\ gate \in [Txns -> SUBSET Notes] /\ stash \in [Txns -> SUBSET Notes]
    /\ \A t \in Txns : ~handling[t] => gate[t] = {}
    /\ stream \in [Users -> {"off", "counted", "on"}]
    /\ seen \in [Users -> SUBSET Notes]

(* Outside a handler an e-mail job exists only with its notification, and   *)
(* exactly for the notifications of those who want mail, wherever a handler *)
(* was broken off and whichever transaction was rolled back.                *)
MailIffRow ==
    \A t \in Txns : ~handling[t] =>
        {n \in mail : TxnOf(n) = t} =
        {n \in rows : TxnOf(n) = t /\ n.user \in WantsMail}

(* A frame whose transaction was not rolled back is of a notification that  *)
(* exists: what a broken handler stashed is never pushed by a later one.    *)
FramesHaveRows == \A n \in pushed : n \in rows \/ state[TxnOf(n)] = "rolledback"

=============================================================================
