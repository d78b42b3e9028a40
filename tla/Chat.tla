-------------------------------- MODULE Chat --------------------------------
(***************************************************************************)
(* A chat message on its way to one open chat tab: ChatService stores it   *)
(* and enqueues a fan-out job, the BullMQ worker publishes the job to      *)
(* Redis, the fan-out gateway emits it to the couple's room, and ChatTab   *)
(* shows it.  The tab also fetches the history when it opens, older pages  *)
(* when the user scrolls up, and a resync each time its socket connects.   *)
(*                                                                         *)
(* The messages of the couple are 1 .. N in the order of sentAtMs: a       *)
(* message IS its stamp.  Stamps are set by the senders, so a message may  *)
(* be stored after one with a later stamp.  0 stands for null.             *)
(*                                                                         *)
(* strays is a history variable: the messages that something the code does *)
(* not make up for has happened to.  All others must reach the tab.        *)
(***************************************************************************)
EXTENDS Naturals, Sequences, SequencesExt, FiniteSetsExt

CONSTANTS
  N,             \* the number of messages
  Mine,          \* the messages this tab sends
  HistoryLimit,  \* messages in the first fetch (INITIAL_BATCH + LOAD_BATCH)
  OlderLimit,    \* messages in an older page (LOAD_BATCH)
  SyncLimit,     \* messages in a resync
  Attempts,      \* how often a fan-out job is tried
  Faults,        \* what may fail: "fanout" jobs, "request"s of the tab
  Scrolls        \* whether the user scrolls up to older messages

ASSUME SizeAssumption ==
  {N, HistoryLimit, OlderLimit, SyncLimit, Attempts} \subseteq Nat \ {0}
ASSUME MineAssumption == Mine \subseteq 1 .. N
ASSUME ScopeAssumption ==
  Faults \subseteq {"fanout", "request"} /\ Scrolls \in BOOLEAN

VARIABLES
  db,           \* the ChatMessage rows
  toEnqueue,    \* stored messages whose queue.add is awaited
  queue,        \* the fan-out jobs waiting, the next one first
  delayed,      \* failed jobs waiting for their backoff
  sock,         \* the tab's socket
  timer,        \* whether the reconnect timer is set
  wire,         \* what the server sent over the current connection
  sync,         \* the resync of the current connection
  since,        \* its sinceMs
  list,         \* allMessages: how often each id is in it
  seen,         \* seenMessageIds
  lastSeen,     \* lastSeenMessage
  outbox,       \* own messages whose POST has not stored them yet
  history,      \* the first fetch
  page,         \* its answer
  older,        \* fetchOlderFromServer
  olderBefore,  \* its beforeMs
  olderPage,    \* its answer
  hasMore,      \* hasMoreServer
  strays

service == <<db, toEnqueue, queue, delayed>>
socket == <<sock, timer, wire, sync, since>>
shown == <<list, seen, lastSeen>>
paging == <<older, olderBefore, olderPage>>
first == <<history, page>>
vars == <<db, toEnqueue, queue, delayed, sock, timer, wire, sync, since, list,
          seen, lastSeen, outbox, history, page, older, olderBefore,
          olderPage, hasMore, strays>>

Msgs == 1 .. N
Job == [msg : Msgs, tries : 1 .. Attempts, stalled : BOOLEAN]
Packet == [kind : {"message", "synced"}, msgs : SUBSET Msgs]

\* A message is known by the id of its row; a tab's own one also by the
\* clientMessageId it was shown with when it was sent.
Ids == {"server", "client"} \X Msgs
Server(ms) == {"server"} \X ms
Client(m) == <<"client", m>>

TypeOK ==
  /\ db \subseteq Msgs /\ toEnqueue \subseteq db
  /\ queue \in Seq(Job) /\ delayed \subseteq Job
  /\ sock \in {"connecting", "connected", "offline"} /\ timer \in BOOLEAN
  /\ wire \in Seq(Packet)
  /\ sync \in {"none", "asked", "answered"} /\ since \in 0 .. N
  /\ list \in [Ids -> Nat] /\ seen \subseteq Ids /\ lastSeen \in 0 .. N
  /\ outbox \subseteq Mine \ db
  /\ history \in {"asked", "read", "done"} /\ page \subseteq Msgs
  /\ older \in {"idle", "asked", "read"}
  /\ olderBefore \in 0 .. N /\ olderPage \subseteq Msgs
  /\ hasMore \in BOOLEAN
  /\ strays \subseteq Msgs

-----------------------------------------------------------------------------
(* Reads of the service and of the tab's list. *)

\* findMany ordered by sentAtMs, descending or ascending, with take: n.
Newest(ms, n) == {m \in ms : Cardinality({x \in ms : x > m}) < n}
Oldest(ms, n) == {m \in ms : Cardinality({x \in ms : x < m}) < n}

\* What handleSync answers to a tab that has seen everything up to s.
Resync(s) == IF s = 0 THEN Newest(db, SyncLimit)
                      ELSE Oldest({m \in db : m >= s}, SyncLimit)

Stamps == {id[2] : id \in {i \in Ids : list[i] > 0}}
Shown(m) == m \in Stamps

\* The messages a resync since s is there to deliver.
Missing(s) == {m \in db : m >= s /\ ~ Shown(m)}

\* Older than all that is loaded.
BelowList(m) == Stamps # {} /\ m < Min(Stamps)

\* Scrolling up will fetch m.
Pageable(m) == hasMore /\ BelowList(m)

\* Messages that ms, older than all that is loaded, hides from paging.
Skipped(ms) == IF ms = {} \/ Stamps = {} THEN {}
               ELSE {m \in db : /\ Min(ms) < m /\ m < Min(Stamps)
                                /\ m \notin ms}

\* appendMessage for each of ms, none of them optimistic.
Show(ms) ==
  LET new == {m \in ms : <<"server", m>> \notin seen}
  IN /\ seen' = seen \union Server(new)
     /\ list' = [id \in Ids |->
                   IF id \in Server(new) THEN list[id] + 1 ELSE list[id]]
     /\ lastSeen' = Max(new \union {lastSeen})
     /\ strays' = strays \union Skipped(new)

-----------------------------------------------------------------------------
(* The service. *)

\* Mutant: an optimistic message counts as seen.
SendMineMoves(m) ==
  /\ m \in Mine \ (db \union outbox)
  /\ outbox' = outbox \union {m}
  /\ seen' = seen \union {Client(m)}
  /\ list' = [list EXCEPT ![Client(m)] = @ + 1]
  /\ strays' = strays \union Skipped({m})
  /\ lastSeen' = Max({lastSeen, m})
  /\ UNCHANGED <<service, socket, first, paging, hasMore>>

\* sendChatMessage: shown at once, before the POST is answered.
SendMine(m) ==
  /\ m \in Mine \ (db \union outbox)
  /\ outbox' = outbox \union {m}
  /\ seen' = seen \union {Client(m)}
  /\ list' = [list EXCEPT ![Client(m)] = @ + 1]
  /\ strays' = strays \union Skipped({m})
  /\ UNCHANGED <<service, socket, lastSeen, first, paging, hasMore>>

\* Mutant: the POST is never done.
StoreKeeps(m) ==
  /\ m \notin db
  /\ m \in Mine => m \in outbox
  /\ db' = db \union {m}
  /\ toEnqueue' = toEnqueue \union {m}
  /\ outbox' = outbox
  /\ strays' = IF \E x \in db \union outbox : x > m
               THEN strays \union {m} ELSE strays
  /\ UNCHANGED <<queue, delayed, socket, shown, first, paging, hasMore>>

\* createMessage's insert.  A message stored after one with a later stamp was
\* stored or sent may be older than what a tab has when it is published.
Store(m) ==
  /\ m \notin db
  /\ m \in Mine => m \in outbox
  /\ db' = db \union {m}
  /\ toEnqueue' = toEnqueue \union {m}
  /\ outbox' = outbox \ {m}
  /\ strays' = IF \E x \in db \union outbox : x > m
               THEN strays \union {m} ELSE strays
  /\ UNCHANGED <<queue, delayed, socket, shown, first, paging, hasMore>>

\* queue.add.  Two requests may get here in either order.
Enqueue(m) ==
  /\ m \in toEnqueue
  /\ toEnqueue' = toEnqueue \ {m}
  /\ queue' = Append(queue, [msg |-> m, tries |-> 1, stalled |-> FALSE])
  /\ strays' = strays \union {x \in toEnqueue : x < m}
  /\ UNCHANGED <<db, delayed, socket, shown, outbox, first, paging, hasMore>>

\* queue.add throws, or the process stops before it: there is no job.
EnqueueFails(m) ==
  /\ "fanout" \in Faults
  /\ m \in toEnqueue
  /\ toEnqueue' = toEnqueue \ {m}
  /\ strays' = strays \union {m}
  /\ UNCHANGED <<db, queue, delayed, socket, shown, outbox, first, paging,
                 hasMore>>

\* The worker publishes, the gateway emits to the room.
Emit(m) ==
  wire' = IF sock = "connected"
          THEN Append(wire, [kind |-> "message", msgs |-> {m}]) ELSE wire

Publish ==
  /\ queue # <<>>
  /\ Emit(Head(queue).msg)
  /\ queue' = Tail(queue)
  /\ UNCHANGED <<db, toEnqueue, delayed, sock, timer, sync, since, shown,
                 outbox, first, paging, hasMore, strays>>

\* The worker is lost after it published and before it completed the job:
\* BullMQ finds the job stalled and runs it again (maxStalledCount is 1).
PublishStalls ==
  /\ "fanout" \in Faults
  /\ queue # <<>>
  /\ ~ Head(queue).stalled
  /\ Emit(Head(queue).msg)
  /\ queue' = Append(Tail(queue), [Head(queue) EXCEPT !.stalled = TRUE])
  /\ UNCHANGED <<db, toEnqueue, delayed, sock, timer, sync, since, shown,
                 outbox, first, paging, hasMore, strays>>

\* redis.publish throws: the job is tried again after a backoff, during which
\* later jobs overtake it, or given up after its last attempt.
PublishFails ==
  /\ "fanout" \in Faults
  /\ queue # <<>>
  /\ LET job == Head(queue)
     IN /\ delayed' = IF job.tries < Attempts
                      THEN delayed \union {[job EXCEPT !.tries = @ + 1]}
                      ELSE delayed
        /\ strays' = strays \union {job.msg}
  /\ queue' = Tail(queue)
  /\ UNCHANGED <<db, toEnqueue, socket, shown, outbox, first, paging, hasMore>>

\* The backoff is over.
Retry(job) ==
  /\ job \in delayed
  /\ delayed' = delayed \ {job}
  /\ queue' = Append(queue, job)
  /\ UNCHANGED <<db, toEnqueue, socket, shown, outbox, first, paging, hasMore,
                 strays>>

\* Redis has no subscriber at the moment, or the gateway has no server yet:
\* the job is done and nobody got the message.
PublishUnheard ==
  /\ "fanout" \in Faults
  /\ queue # <<>>
  /\ queue' = Tail(queue)
  /\ strays' = strays \union {Head(queue).msg}
  /\ UNCHANGED <<db, toEnqueue, delayed, socket, shown, outbox, first, paging,
                 hasMore>>

\* handleSync.
SyncRead ==
  /\ sync = "asked"
  /\ sync' = "answered"
  /\ wire' = Append(wire, [kind |-> "synced", msgs |-> Resync(since)])
  /\ strays' = strays \union (Missing(since) \ Resync(since))
  /\ UNCHANGED <<service, sock, timer, since, shown, outbox, first, paging,
                 hasMore>>

-----------------------------------------------------------------------------
(* The tab's socket. *)

\* Mutant: requestResync left out.
ConnectOnly ==
  /\ sock = "connecting"
  /\ sock' = "connected"
  /\ timer' = FALSE
  /\ sync' = "none"
  /\ since' = lastSeen
  /\ UNCHANGED <<service, wire, shown, outbox, first, paging, hasMore, strays>>

\* handleConnect.  The server joined the socket to the couple's room.
Connect ==
  /\ sock = "connecting"
  /\ sock' = "connected"
  /\ timer' = FALSE
  /\ sync' = "asked"
  /\ since' = lastSeen
  /\ UNCHANGED <<service, wire, shown, outbox, first, paging, hasMore, strays>>

\* connect_error: handleError.
ConnectFails ==
  /\ sock = "connecting"
  /\ sock' = "offline"
  /\ timer' = TRUE
  /\ UNCHANGED <<service, wire, sync, since, shown, outbox, first, paging,
                 hasMore, strays>>

\* Mutant: the timeout schedules again instead of connecting.
TimerFiresAgain ==
  /\ timer
  /\ timer' = timer
  /\ sock' = sock
  /\ UNCHANGED <<service, wire, sync, since, shown, outbox, first, paging,
                 hasMore, strays>>

\* scheduleReconnect's timeout.
TimerFires ==
  /\ timer
  /\ timer' = FALSE
  /\ sock' = IF sock = "offline" THEN "connecting" ELSE sock
  /\ UNCHANGED <<service, wire, sync, since, shown, outbox, first, paging,
                 hasMore, strays>>

\* The connection is lost, rejected, or closed by the server's heartbeat or
\* the tab's healthcheck: handleDisconnect.  The next resync starts at
\* lastSeen, and so never repeats what an unanswered one was to deliver
\* below it.
Disconnect ==
  /\ sock = "connected"
  /\ sock' = "offline"
  /\ timer' = TRUE
  /\ wire' = <<>>
  /\ sync' = "none"
  /\ strays' = IF sync = "none" THEN strays
               ELSE strays \union {m \in Missing(since) : m < lastSeen}
  /\ UNCHANGED <<service, since, shown, outbox, first, paging, hasMore>>

\* The resync runs into its 5 s timeout, or handleSync could not read the
\* database and answered with nothing.  It is not repeated.
SyncFails ==
  /\ "request" \in Faults
  /\ sync # "none"
  /\ sync' = "none"
  /\ \/ sync = "asked" /\ wire' = wire
     \/ \E i \in DOMAIN wire :
          wire[i].kind = "synced" /\ wire' = RemoveAt(wire, i)
  /\ strays' = strays \union Missing(since)
  /\ UNCHANGED <<service, sock, timer, since, shown, outbox, first, paging,
                 hasMore>>

\* handleIncomingMessage: a broadcast carries the clientMessageId, the
\* messages of a resync do not.
Receive ==
  /\ wire # <<>>
  /\ wire' = Tail(wire)
  /\ LET p == Head(wire)
         own == {m \in p.msgs : Client(m) \in seen}
     IN IF p.kind = "message"
        THEN Show(p.msgs \ own) /\ UNCHANGED sync
        ELSE Show(p.msgs) /\ sync' = "none"
  /\ UNCHANGED <<service, sock, timer, since, outbox, first, paging, hasMore>>

-----------------------------------------------------------------------------
(* The tab's history. *)

HistoryRead ==
  /\ history = "asked"
  /\ history' = "read"
  /\ page' = Newest(db, HistoryLimit)
  /\ UNCHANGED <<service, socket, shown, outbox, paging, hasMore, strays>>

\* Mutant: the seen ids are not replaced.
HistoryApplyAdds ==
  /\ history = "read"
  /\ history' = "done"
  /\ list' = [id \in Ids |-> IF id \in Server(page) THEN 1 ELSE 0]
  /\ seen' = seen \union Server(page)
  /\ lastSeen' = IF page = {} THEN lastSeen ELSE Max(page)
  /\ hasMore' = (hasMore /\ Cardinality(page) >= HistoryLimit)
  /\ strays' = strays \union
       {m \in db \ page : Shown(m) \/ (~ hasMore /\ \E x \in page : m < x)}
  /\ page' = {}
  /\ UNCHANGED <<service, socket, outbox, paging>>

\* Mutant: a full page counts as the last one.
HistoryApplyLast ==
  /\ history = "read"
  /\ history' = "done"
  /\ list' = [id \in Ids |-> IF id \in Server(page) THEN 1 ELSE 0]
  /\ seen' = Server(page)
  /\ lastSeen' = IF page = {} THEN lastSeen ELSE Max(page)
  /\ hasMore' = (hasMore /\ Cardinality(page) > HistoryLimit)
  /\ strays' = strays \union
       {m \in db \ page : Shown(m) \/ (~ hasMore /\ \E x \in page : m < x)}
  /\ page' = {}
  /\ UNCHANGED <<service, socket, outbox, paging>>

\* The answer replaces the list and the seen ids.  Messages that the socket
\* delivered after the read are gone from both, and so are older pages; if
\* one of those ended the paging, it stays ended.
HistoryApply ==
  /\ history = "read"
  /\ history' = "done"
  /\ list' = [id \in Ids |-> IF id \in Server(page) THEN 1 ELSE 0]
  /\ seen' = Server(page)
  /\ lastSeen' = IF page = {} THEN lastSeen ELSE Max(page)
  /\ hasMore' = (hasMore /\ Cardinality(page) >= HistoryLimit)
  /\ strays' = strays \union
       {m \in db \ page : Shown(m) \/ (~ hasMore /\ \E x \in page : m < x)}
  /\ page' = {}
  /\ UNCHANGED <<service, socket, outbox, paging>>

HistoryFails ==
  /\ "request" \in Faults
  /\ history # "done"
  /\ history' = "done"
  /\ page' = {}
  /\ UNCHANGED <<service, socket, shown, outbox, paging, hasMore, strays>>

\* fetchOlderFromServer up to its request.
AskOlder ==
  /\ Scrolls
  /\ older = "idle"
  /\ hasMore
  /\ Stamps # {}
  /\ older' = "asked"
  /\ olderBefore' = Min(Stamps)
  /\ UNCHANGED <<service, socket, shown, outbox, first, olderPage, hasMore,
                 strays>>

OlderRead ==
  /\ older = "asked"
  /\ older' = "read"
  /\ olderPage' = Newest({m \in db : m < olderBefore}, OlderLimit)
  /\ UNCHANGED <<service, socket, shown, outbox, first, olderBefore, hasMore,
                 strays>>

\* The answer may be one to a list that has been replaced since: then it may
\* end the paging although messages below the present list exist.
OlderApply ==
  /\ older = "read"
  /\ older' = "idle"
  /\ LET new == {m \in olderPage : <<"server", m>> \notin seen}
     IN /\ seen' = seen \union Server(new)
        /\ list' = [id \in Ids |->
                      IF id \in Server(new) THEN list[id] + 1 ELSE list[id]]
  /\ hasMore' = (hasMore /\ Cardinality(olderPage) >= OlderLimit)
  /\ strays' = IF olderBefore \in Stamps THEN strays
               ELSE strays \union {m \in db \ olderPage : BelowList(m)}
  /\ olderBefore' = 0
  /\ olderPage' = {}
  /\ UNCHANGED <<service, socket, lastSeen, outbox, first>>

OlderFails ==
  /\ "request" \in Faults
  /\ older # "idle"
  /\ older' = "idle"
  /\ olderBefore' = 0
  /\ olderPage' = {}
  /\ UNCHANGED <<service, socket, shown, outbox, first, hasMore, strays>>

-----------------------------------------------------------------------------
\* A tab is opened: its messages so far have been fanned out already.
Init ==
  /\ \E k \in 0 .. N : db = 1 .. k
  /\ toEnqueue = {} /\ queue = <<>> /\ delayed = {}
  /\ sock = "connecting" /\ timer = FALSE
  /\ wire = <<>> /\ sync = "none" /\ since = 0
  /\ list = [id \in Ids |-> 0] /\ seen = {} /\ lastSeen = 0
  /\ outbox = {}
  /\ history = "asked" /\ page = {}
  /\ older = "idle" /\ olderBefore = 0 /\ olderPage = {}
  /\ hasMore = TRUE
  /\ strays = {}

Next ==
  \/ \E m \in Msgs : SendMine(m) \/ Store(m) \/ Enqueue(m) \/ EnqueueFails(m)
  \/ Publish \/ PublishStalls \/ PublishFails \/ PublishUnheard
  \/ \E job \in delayed : Retry(job)
  \/ SyncRead \/ SyncFails
  \/ Connect \/ ConnectFails \/ TimerFires \/ Disconnect
  \/ Receive
  \/ HistoryRead \/ HistoryApply \/ HistoryFails
  \/ AskOlder \/ OlderRead \/ OlderApply \/ OlderFails

Spec == Init /\ [][Next]_vars

\* A handler, a job, a timer and an answer that can go on does so in the end.
\* Nothing is assumed about the user, the senders and the network.
Fairness ==
  /\ \A m \in Msgs : WF_vars(Enqueue(m))
  /\ WF_vars(Publish)
  /\ WF_vars(\E job \in delayed : Retry(job))
  /\ WF_vars(SyncRead) /\ WF_vars(Receive)
  /\ WF_vars(HistoryRead) /\ WF_vars(HistoryApply)
  /\ WF_vars(TimerFires)

FairSpec == Spec /\ Fairness

-----------------------------------------------------------------------------
(* Properties. *)

\* The list and the set of seen ids, which are updated by different code,
\* agree: an id that is not in the list can still be shown, and none is in
\* it twice (appendMessage, fetchMessages, fetchOlderFromServer).
ListIsSeen == \A id \in Ids : list[id] = IF id \in seen THEN 1 ELSE 0

\* m is still on its way to a tab that stays as it is.
Coming(m) ==
  \/ sock = "connected" /\
       \/ m \in toEnqueue
       \/ \E i \in DOMAIN queue : queue[i].msg = m
       \/ \E i \in DOMAIN wire : m \in wire[i].msgs
       \/ sync = "asked" /\ m >= since
  \/ sock # "connected" /\ m >= lastSeen

\* A message nothing irreparable happened to is never lost: whatever
\* reconnects, duplicated jobs and overlapping fetches do, it is shown, on
\* its way, asked for by the next resync, or found by scrolling up.
NothingLost == \A m \in db \ strays : Shown(m) \/ Coming(m) \/ Pageable(m)

\* A tab whose connection lasts shows, or finds by scrolling up, every message
\* that nothing irreparable happened to.
Delivered ==
  <>[](sock = "connected") =>
    <>[](\A m \in db \ strays : Shown(m) \/ Pageable(m))

\* A tab that lost its connection, or could not connect, tries again
\* (reconnection is off in the socket, scheduleReconnect does it).
TriesAgain == sock = "offline" ~> sock = "connecting"

\* The tab shows a message of its own once (README: the client removes
\* duplicates by message id).
OwnMessageOnce == \A m \in Mine : list[<<"server", m>>] + list[Client(m)] <= 1
=============================================================================
