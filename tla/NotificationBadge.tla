--------------------------- MODULE NotificationBadge ---------------------------
(***************************************************************************)
(* A user's notifications and the badge that counts the unread ones.       *)
(* Producers add rows to their own transaction and schedule the realtime   *)
(* sync before they commit; chat messages schedule none.  The WebSocket    *)
(* answers a sync with a snapshot; the browser also polls over HTTP, shows *)
(* whichever count comes last, and lowers the badge before its clicks have *)
(* reached the server.  Which row is meant never matters: rows are counted.*)
(***************************************************************************)
EXTENDS Naturals, Sequences

CONSTANTS
  MaxRows,    \* bound: notifications produced
  MaxClicks,  \* bound: the user's clicks
  MaxFrames   \* bound: snapshots under way on one connection

ASSUME BadgeAssumption == MaxRows \in Nat /\ MaxClicks \in Nat /\ MaxFrames \in Nat

VARIABLES
  produced, clicked,  \* rows and clicks so far
  pending,   \* rows of transactions that may still commit or roll back
  unread,    \* committed rows with is_read false
  syncs,     \* publish tasks that have not run
  socket,    \* the connection: "closed", "accepted", "live", or "polling" without Redis
  channel,   \* a sync is waiting in the connection's subscription
  frames,    \* snapshots sent on the connection, in order
  answers,   \* counts of HTTP answers under way, in any order
  posts,     \* clicks that have not reached the server
  badge      \* unreadCount

rows == <<produced, pending, unread>>
server == <<syncs, socket, channel, frames>>
client == <<clicked, answers, posts, badge>>
vars == <<rows, server, client>>

Counts == 0..MaxRows
Posts == {"one", "all"}

Init ==
  /\ produced = 0 /\ clicked = 0 /\ pending = 0 /\ unread = 0 /\ syncs = 0
  /\ socket = "closed" /\ channel = FALSE /\ frames = << >>
  /\ answers = {} /\ posts = [p \in Posts |-> 0]
  /\ badge = 0

-----------------------------------------------------------------------------
(* Producers. *)

\* notify schedules the publish, create_notification alone does not.
Produce(realtime) ==
  /\ produced < MaxRows
  /\ produced' = produced + 1 /\ pending' = pending + 1
  /\ syncs' = IF realtime THEN syncs + 1 ELSE syncs
  /\ UNCHANGED <<unread, socket, channel, frames, client>>

Commit ==
  /\ pending > 0
  /\ pending' = pending - 1 /\ unread' = unread + 1
  /\ UNCHANGED <<produced, server, client>>

RollBack ==
  /\ pending > 0
  /\ pending' = pending - 1
  /\ UNCHANGED <<produced, unread, server, client>>

\* Only who is subscribed by now hears a sync; Redis may be down or the task
\* die with its process.
Publish ==
  /\ syncs > 0
  /\ syncs' = syncs - 1
  /\ channel' \in {channel, channel \/ socket \in {"accepted", "live"}}
  /\ UNCHANGED <<rows, socket, frames, client>>

-----------------------------------------------------------------------------
(* The WebSocket. *)

\* accept, then subscribe; without Redis the loop refreshes on its own.
Open(redis) ==
  /\ socket = "closed"
  /\ socket' = IF redis THEN "accepted" ELSE "polling"
  /\ UNCHANGED <<rows, syncs, channel, frames, client>>

Send == Len(frames) < MaxFrames /\ frames' = Append(frames, unread)

\* Sent after the subscription, so nothing falls between; its failure is logged.
FirstSnapshot ==
  /\ socket = "accepted"
  /\ socket' = "live"
  /\ Send \/ UNCHANGED frames
  /\ UNCHANGED <<rows, syncs, channel, client>>

\* The browser sends no ping: a sync is what refreshes, and a wait that times
\* out may leave a reader behind that takes the sync.
WaitForChange ==
  /\ socket = "live" /\ channel
  /\ channel' = FALSE
  /\ Send \/ UNCHANGED frames
  /\ UNCHANGED <<rows, syncs, socket, client>>

FallbackRefresh ==
  /\ socket = "polling"
  /\ Send
  /\ UNCHANGED <<rows, syncs, socket, channel, client>>

Close ==
  /\ socket # "closed"
  /\ socket' = "closed" /\ channel' = FALSE /\ frames' = << >>
  /\ UNCHANGED <<rows, syncs, client>>

-----------------------------------------------------------------------------
(* The browser. *)

OnMessage ==
  /\ frames # << >>
  /\ badge' = Head(frames) /\ frames' = Tail(frames)
  /\ UNCHANGED <<rows, syncs, socket, channel, clicked, answers, posts>>

\* Mutant: the page polls only while it has no socket.
SyncUnreadOffline ==
  /\ socket = "closed"
  /\ answers' = answers \cup {unread}
  /\ UNCHANGED <<rows, server, clicked, posts, badge>>

\* On mount, when a socket opens, every thirty seconds, and with every list.
SyncUnread ==
  /\ answers' = answers \cup {unread}
  /\ UNCHANGED <<rows, server, clicked, posts, badge>>

Answer(count) ==
  /\ count \in answers
  /\ answers' = answers \ {count}
  /\ badge' = count
  /\ UNCHANGED <<rows, server, clicked, posts>>

AnswerFails(count) ==
  /\ count \in answers
  /\ answers' = answers \ {count}
  /\ UNCHANGED <<rows, server, clicked, posts, badge>>

\* markRead and markAllRead, before the server knows; a row may be clicked twice.
Click(post) ==
  /\ clicked < MaxClicks
  /\ clicked' = clicked + 1
  /\ posts' = [posts EXCEPT ![post] = @ + 1]
  /\ badge' = IF post = "one" /\ badge > 0 THEN badge - 1 ELSE 0
  /\ UNCHANGED <<rows, server, answers>>

\* The row of a click may have been read before, and the request may fail.
Arrive(post) ==
  /\ posts[post] > 0
  /\ posts' = [posts EXCEPT ![post] = @ - 1]
  /\ \/ UNCHANGED unread
     \/ unread > 0 /\ unread' = IF post = "one" THEN unread - 1 ELSE 0
  /\ UNCHANGED <<produced, pending, server, clicked, answers, badge>>

Next ==
  \/ \E realtime \in BOOLEAN : Produce(realtime)
  \/ Commit \/ RollBack \/ Publish
  \/ \E redis \in BOOLEAN : Open(redis)
  \/ FirstSnapshot \/ WaitForChange \/ FallbackRefresh \/ Close
  \/ OnMessage \/ SyncUnread
  \/ \E count \in Counts : Answer(count) \/ AnswerFails(count)
  \/ \E post \in Posts : Click(post) \/ Arrive(post)

\* The interval timer keeps asking, and not every request for a count fails.
\* Nothing is assumed of commits, syncs, sockets or clicks.
Spec ==
  /\ Init /\ [][Next]_vars
  /\ WF_vars(SyncUnread)
  /\ \A count \in Counts : SF_vars(Answer(count))

-----------------------------------------------------------------------------
TypeOK ==
  /\ produced \in Counts /\ pending \in Counts /\ unread \in Counts /\ syncs \in Counts
  /\ clicked \in 0..MaxClicks
  /\ socket \in {"closed", "accepted", "live", "polling"} /\ channel \in BOOLEAN
  /\ frames \in Seq(Counts) /\ answers \subseteq Counts
  /\ posts \in [Posts -> 0..MaxClicks]
  /\ badge \in Counts

\* "Read state will reconcile on the next poll/reload": once no more rows come
\* and the user stops clicking, the badge shows what is unread and keeps showing
\* it, though syncs run before the commit, are lost or never sent, snapshots and
\* answers overtake each other, and clicks are counted before they are stored.
BadgeSettles == <>[](badge = unread)
=============================================================================
