# linkly-calendar in TLA+

Specifications, model-checking runs and machine-checked proofs about
linkly-calendar: a calendar, photo gallery, route planner and chat for couples
(NestJS + Prisma + PostgreSQL + Redis on the server, Next.js on the client).
Paths below are relative to `src/`; `PROJECT.json` lists, for every definition,
the lines of code it stands for.

## 1. The system

| Component | State | Operations | Talks to |
|---|---|---|---|
| Couple service, `apps/api/src/couple` | tables Couple, CoupleMember, CoupleInvite | sendInvite, acceptInvite, declineInvite, cancelInvite, breakUp, updateCouple, reads | Prisma; photo files in breakUp |
| Gallery, `apps/api/src/gallery` | table GalleryPhoto, directory `uploads/photos` | upload, remove, removeBatch, findMany | Prisma, file system |
| Couple route, `apps/api/src/transit/couple-route.service.ts` | table RouteCache, Redis entries | analyze | events, members, transit client, Redis |
| Events, `apps/api/src/event` | table CalendarEvent | create, update, remove, reads | invalidates the route cache |
| Users, `apps/api/src/user` | table User (home location) | getMe, getStatus, search, updateMe | invalidates the route cache |
| Route overlap, `apps/api/src/transit/route-overlap.ts` | none (pure) | extractStations, findOverlapStations, findMeetupStation | called by analyze |
| Transit client, `apps/api/src/transit/transit.service.ts` | Redis entries by time bucket | computeRoute, computeDepartures, searchPoi | Tmap over HTTP, Redis |
| Chat service and fan-out, `apps/api/src/chat`, `apps/api/src/chat-fanout` | table ChatMessage, BullMQ queue, rooms, heartbeat timers | createMessage, fetchMessages, send, sync, ping, publish | Prisma, BullMQ, Redis pub/sub, Socket.IO |
| Chat client, `apps/web/src/app/main/components/ChatTab.tsx` | message list, seen ids, last seen message, socket, timers | history fetch, send, receive, reconnect, resync, paging | chat service |
| Chat encryption, `apps/api/src/chat/chat-encryption.service.ts` | keys by version | encrypt, decrypt | configuration |
| Authentication, `apps/api/src/auth` | table User, JWT | validateOrCreateUser, issueToken | OAuth providers |
| Session of the web client, `context/AuthContext.tsx`, `app/page.tsx`, `app/main/page.tsx`, `app/auth/callback` | localStorage, shared by the tabs; token, user, loading per tab | load, setToken, logout, the redirects | /users/me, /users/me/status |
| Web hooks, `apps/web/src/hooks`, with the tabs that use them (`app/main/components`) | React state per hook | fetch, create, update, delete | the API |

What makes them hard:

- *Interleaving.* The server is one Node process, but every Prisma, Redis and
  HTTP call is awaited. Two requests interleave between any two awaits, and
  apart from `acceptInvite` no operation uses a transaction.
- *Check then act.* Memberships, statuses and rows are read, and used one to
  five awaits later.
- *Two stores.* Rows and files (gallery), rows and Redis entries (routes), rows
  and queue jobs (chat) are changed one after the other. Any of the steps can
  fail, and the process can stop between them.
- *Delivery.* Redis pub/sub and sockets lose messages, fan-out jobs are
  retried, and a resync overlaps both.
- *Late responses.* A hook never aborts a call (but for the search), so answers
  arrive in any order, and after the selection, the month or the page they were
  asked for is gone.
- *Shared names.* A bucket cache leaves the arrival time out of its keys,
  messages outlive the configuration they were sealed under, and the tabs of a
  browser share one token.

What each component has to get right: nobody is in two couples and a couple is
always two invited people (couples); a listed photo has its file and no file is
left behind (gallery); no route is answered for a place or home that was not
current, or for a time in another bucket than one that was (routes); every
stored message reaches every open client once (chat) and stays readable while
its key is configured (encryption); a cached answer is for the trip and the time
bucket of who asked (transit client); both partners of a couple are told to meet
or neither is (overlap); what a tab shows belongs to the account it is logged in
to (session); and what a page shows, once nothing is under way, is what the
database holds (hooks). `PROJECT.json` ("hazards") lists where each of them is
at risk.

## 2. What is modelled

One step of a model is **one awaited call together with the synchronous code
that follows it up to the next await**. Between two such steps any other
request may take steps. What the code keeps in local variables across an await
is kept per request, so stale values are stale in the model too. `pc[r]` names
the await request `r` is suspended at, `"idle"` that there is no such request.

### Pairing, CoupleInvites, CoupleInvitesProofs

`CoupleInvites` models `couple.service.ts` over the three tables:

| Model | Code |
|---|---|
| `coupleStatus[i]` | the Couple row `i` and its status; `"free"`: never made, `"deleted"`: gone |
| `inviteStatus[i]`, `inviter[i]`, `invitee[i]` | the CoupleInvite row that names couple `i`. `expiresAt` is written and read nowhere, so an invite has no age |
| `member` | the CoupleMember rows with their role |
| `actor[r]`, `peer[r]`, `rid[r]` | `userId`, the invitee's or inviter's id, the invite's / couple's id of a request |
| `SendBegin` ... `SendCreateInvite` | sendInvite, one action per await |
| `AcceptRead`, `AcceptCheckMe`, `AcceptCheckInviter`, `AcceptCommit` or `AcceptRollback` | acceptInvite; the transaction is one step, its commit needs the invite, the couple and the uniqueness of CoupleMember.userId |
| `DeclineRead/Update/Delete`, `CancelRead/Update/Delete` | declineInvite, cancelInvite |
| `BreakUpCheck`, `BreakUpDelete` | breakUp; deletes cascade (`DeleteCouple`) |
| `Abandon` | a database error, or the process stops, at any await |

sendInvite makes one Couple per invite, so one identifier stands for both rows.
The two user lookups of sendInvite are part of `SendBegin`: users are never
deleted by the code, so when they are read does not matter. A transaction that
PostgreSQL aborts (deadlock with a concurrent delete, unique violation) is
`AcceptRollback` or `Abandon`.

`Pairing` is the abstract specification: offers, and couples that form and end
as a whole. `ImplementsPairing` says that `CoupleInvites` implements it when an
offer is an invite row and the partners of a couple are its member rows.

### Gallery, GalleryProofs

| Model | Code |
|---|---|
| `photoCouple`, `photoFile`, `fresh` | the GalleryPhoto rows, and ids not generated yet |
| `files` | `uploads/photos`. A file name is the SHA-256 of the bytes and the extension, so a file is identified with its `Content` |
| `alive` | couples that exist |
| `UploadBegin`, `UploadWrite`, `UploadInsert`, `UploadFail` | upload; the inserts of its `Promise.all` arrive one by one in any order |
| `RemoveBegin`, `RemoveCheck`, `RemoveUnlink`, `RemoveDelete` | remove (one id) and removeBatch |
| `BreakUpBegin`, `BreakUpList`, `BreakUpUnlink`, `BreakUpDelete` | the photo part of CoupleService.breakUp |
| `origin`, `damaged` | history: who uploaded a content last; contents that a failed unlink or a dead request leaves behind |

Both members of a couple have the same rights here, so the caller of a request
is a couple. A couple's files in one request are a set: equal files twice in
one upload behave like two uploads.

### RouteCache, RouteCacheProofs

One event of one couple. A plan is the event's place and time together, and a
route is represented by the inputs it was computed from, which is all that
freshness depends on: the plan of its departure times, and plan and home of each
of the two journeys. The journeys come through the transit client, whose cache
does not tell apart the times of a bucket (module `Transit`): what is computed for
a plan may be a journey that was asked for any other time in its `Bucket`, also
with `forceRefresh`.

| Model | Code |
|---|---|
| `redis[k]`, `db[k]` | the Redis entry and the RouteCache row with cache key `k` |
| `exists`, `plan`, `home` | the CalendarEvent row, User.homeLat/homeLng |
| `Slot`, `Bucket(p)` | the plans by place and bucket of the transit client; the plans whose journeys `p` may be served |
| `RouteFor(i, p, q)` | the answer for the inputs `i` when the journeys were asked for `p` and `q` |
| `AnalyzeBegin` ... `AnalyzeAnswer` | analyze, checkCache, saveCache |
| `UpdateBegin`, `UpdateEvent`, `UpdateThrows` | EventService.update |
| `RemoveBegin`, `DeleteEvent` | EventService.remove |
| `UpdateMeBegin`, `UpdateHome`, `FindEvents` | UserService.updateMe |
| `FindCaches`, `DelRedis`, `DeleteRows`, `Leave` | the two invalidations, with their swallowed errors |
| `RedisExpires` | the one-hour TTL; the 24 hours of a row are a miss that may happen at any lookup (`AnalyzeGetDb`) |
| `during` | history: the inputs that were current since an analysis began |

The key is a hash of all inputs: `CacheKey` is the identity on them because
SHA-256 is taken to be injective. It does not contain the user, as in the code.
The deletion of the whole couple (breakUp), which cascades to event and cache
rows, is not part of this module.

### Chat, ChatProofs

One open chat tab of one couple, the service, the fan-out and the socket
between them. Messages are `1 .. N` in the order of `sentAtMs`, so comparing
messages is comparing stamps; two messages never have the same stamp.

| Model | Code |
|---|---|
| `db`, `toEnqueue`, `outbox` | ChatMessage rows; rows whose `queue.add` is awaited; own messages not stored yet |
| `queue`, `delayed` | the BullMQ jobs, and those in their backoff. One worker with BullMQ's default concurrency of 1 |
| `sock`, `timer`, `wire` | the socket, the reconnect timer, what the server sent over the connection |
| `sync`, `since` | the resync of the connection and its `sinceMs` |
| `list`, `seen`, `lastSeen`, `hasMore` | allMessages (a count per id), seenMessageIds, lastSeenMessage, hasMoreServer |
| `history`, `page`; `older`, `olderBefore`, `olderPage` | the first fetch; a fetch of older messages |
| `SendMine`, `Receive`, `Show` | sendChatMessage, handleIncomingMessage, appendMessage |
| `Store`, `Enqueue`, `EnqueueFails` | ChatService.createMessage |
| `Publish`, `PublishStalls`, `PublishFails`, `Retry`, `PublishUnheard` | the worker, Redis and the fan-out gateway. Publishing and emitting is one step |
| `Connect`, `ConnectFails`, `TimerFires`, `Disconnect` | the tab's socket handlers; the server's heartbeat and rejections and the tab's healthcheck close a connection like a lost one |
| `SyncRead`, `SyncFails` | handleSync; its error answer and the 5 s timeout |
| `HistoryRead/Apply/Fails`, `AskOlder`, `OlderRead/Apply/Fails` | the two fetches; the read of the database and the use of the answer are separate steps |

An id is the row's (`"server"`) or the clientMessageId (`"client"`) of a
message. `strays` is history: the messages which something has happened to that
the code does not make up for. These are all the ways the model has found:

1. stored, or enqueued, after a message with a later stamp;
2. its fan-out failed, was not enqueued, or met no subscriber;
3. a resync that was to bring it was cut off at its limit, failed, or was lost
   with its connection after a later message had been shown;
4. the answer of the first fetch wiped it from the list, or kept the paging
   ended by a page of the list it replaced;
5. an older page that was asked for before the list was replaced ended the
   paging; or a message older than all that is loaded was shown (by a resync
   read before the first fetch, by a late broadcast, or by the sender's slow
   clock), and paging now starts below it.

Each of them is needed: removing any update of `strays` makes `NothingLost`
fail. The races between fetches (5, and the ended paging of 4) show on pages of
one message; with the code's limits they need a page or more of messages within
one round trip. 1 to 3, the wipe of 4 and the clocks of 5 need only ordinary bad
luck.

### The other components

Ten components share no state with another one in the code that is modelled, and
have a module each. `Parts` composes them: a behaviour follows one of them, and
the others rest. `MCParts` gives the constants of `Parts` small values. The
parameters and variables of a component that promises something about all its
states at once are in a module of their own (`TransitState`,
`RouteOverlapState`, `KeyRingState`, `SessionState`), which both the component
and `Parts` extend. `PartsState` declares the constants and variables of `Parts`
and instantiates the two tabs with lists, photos and calendar; `Parts` extends it
with the other components and their composition.

`PartsProofs` has the theorems about `Parts`. `TabsProofs` (photos and calendar),
`SettingsProofs` and `InvitesProofs` hold the inductive invariants of the four
largest components of the web client, those of the others are in `PartsProofs`
itself.

In the modules of the web client a handler, or the continuation of a call, is one
step together with the effects and re-renders it triggers. The server answers in
a step of its own, so what an answer says may be outdated when it arrives. Calls
overlap, arrive in any order and fail, before or after the server has acted.
Most of these modules have a history variable (`mishap`, `crossed`, `touched`,
`lost`) that records what the code does not make up for; the property holds
until one of those happens, and the comment of the property lists all of them.

#### Transit, TransitState

| Model | Code |
|---|---|
| `cache` | the Redis entries: a key and the route it holds, represented by what it was computed for |
| `query`, `base`, `route`, `pc` | the locals of a run of `fetchWithCache` |
| `BucketMinutes`, `BucketStart`, `CacheKey` | resolveBucketMinutes, getBucketInfo, buildCacheKey (the arrival time is omitted) |
| `Begin`, `Hit`, `Miss`, `CallTmap`, `SetCache`, `Finish` | fetchWithCache; each of Redis and Tmap may fail |
| `Expire`, `Tick` | the TTL; the clock, which moves between lookup and request |

#### RouteOverlap, RouteOverlapState

Both partners' analyses of the same two routes, with the roles of the routes
exchanged. A step is an iteration of a loop.

| Model | Code |
|---|---|
| `ExtractStations` | extractStations, normalizeStationName |
| `match[p]`, `MatchByName`, `MatchByPlace`, `NoMatch` | the loop of findOverlapStations: a free station with the same name first, then a free one within 50 m |
| `Compare`, `Better`, `Finish` | findMeetupStation |

#### KeyRing, KeyRingState

| Model | Code |
|---|---|
| `list`, `legacy`, `chosen`, `Edit` | the environment of the server, which anyone may edit at any time |
| `ring`, `active`, `Start`, `Stop` | the constructor of ChatEncryptionService; a restart |
| `Create`, `Fetch` | encrypt in createMessage, decrypt for a page in fetchMessages |
| `lost` | history: versions whose key an edit has removed or replaced |

#### The web client

| Module | Code | State |
|---|---|---|
| `PoiSearch` | usePoiSearch, PoiSearchInput | typed text, timer, the live call, the aborted ones, list, spinner |
| `WebPhotos` | usePhotos, PhotosTab, GalleryService.findMany, the answers of upload | rows, the pages loaded, cursor, upload, deletions, selection, what a tab that was left has sent |
| `WebCalendar` | useEvents, CalendarTab, EventModal, EventService | rows, month, list, form; up to two calls |
| `WebRoute` | useCoupleRoute, the route section of CalendarTab | the event of the form, the route, calls per event |
| `WebSettings`, `SettingsProofs` | useCouple, useUserProfile, SettingsTab, findCoupleInfo, updateCouple, findMe, updateMe | rows and card of couple and profile, an editor per field, the break-up dialog, what a tab that was left has sent |
| `WebInvites`, `InvitesProofs` | useCoupleInvite, CoupleSetup, handleCoupleReady | the user's rows, both lists of the page, its buttons |
| `WebSession`, `SessionState` | AuthContext, the three pages, AuthService, the strategies | accounts, tokens, localStorage, the document of each tab |

`WebInvites` and `WebPhotos` take a request of the server in one step:
`CoupleInvites` and `Gallery` look into those. In `WebSession` an identity is
what an OAuth provider vouches for; `Login`, `FindUser`, `CreateUser` and
`Callback` are the way of a login, in which two tabs can race for the same
first account; `LoginFails` is any other error of its two statements.

The photo and settings tabs are unmounted when another tab of the page is chosen
(`main/page.tsx:107-110`). `Remount` is such a change and the way back: state and
answers are gone, the requests that the server has not run yet are in `left`,
and run at some moment or never (`RunLeft...`), also after the new tab has read
its first page or cards.

An upload of the photo tab has any number of files. Their rows are inserted
concurrently, so the answer, which is in the order of the files, is in any order
of createdAt (`Batches`), and the tab puts it in front as it is. The tab is
therefore not sorted by createdAt; what holds is that no photo comes before one
of a later upload (`Earlier`).

The couple's card shows `nickname ?? displayName`, and an empty nickname is stored
as null (`Info`, `Blank`). So the name on the couple's card depends on the
profile's row: a user without a nickname who saves a new name on the profile's
card leaves the old one on the couple's (mishap `"name"`), of which
`CardShowsDb` then still says that all but this name is right.

`Lists` has what the lists of photos and appointments need: `Sorted` and `Kept`
say what sorting and filtering return (`orderBy`, `Array.prototype.filter`)
without recursion, so that it can be reasoned about.

## 3. Runs

| Run | Question | Result |
|---|---|---|
| `couple_concurrent` | what holds under any interleaving of two requests, with crashes | passes |
| `couple_sequential` | do the documented invitation rules hold if requests do not overlap, with crashes | passes |
| `couple_cleanup` | ... does the clean-up leave an ACTIVE couple alone if they do overlap | violated |
| `gallery_concurrent` | do rows and files agree, with failing unlinks and crashes, if no bytes are uploaded twice | passes |
| `gallery_served` | ... and if they are | violated |
| `route_concurrent` | are answers fresh and rows of removed events gone, with failing Redis and database | passes |
| `chat_fanout` | which messages can a tab lose, does it get all others, does it always try to reconnect | passes |
| `chat_history` | do overlapping fetches, pages and resyncs lose messages between them | passes |
| `chat_own_once` | is an own message shown once | violated |
| `parts` | is what each of the other ten components answers or shows the right thing | passes |
| `event_time` | does an appointment that is saved unchanged keep its time | violated |
| `session_redirect` | does a tab without authentication leave the main page | violated |

The properties, by run:

- `couple_concurrent`: `OneCouplePerUser` (the unique index is the only thing
  that stops two acceptances that share a user), `CoupleIsWhole` (ACTIVE means
  exactly the inviter as OWNER and the invitee as MEMBER), `InviteHasCouple`,
  `OnlyMembersEndACouple`, `OnlyInviteeFormsACouple`, `ImplementsPairing`.
- `couple_sequential`: `SinglePendingInvite`, `CoupledHaveNoPending`,
  `CleanupOnlyPending`, `AnsweredOnce`. They hold here because a request's
  reads are not stale; a request that dies half way does not break them.
- `gallery_concurrent`: `PhotoHasCouple` (insert against cascade),
  `MissingFileIsDoomed` (a row without its file is about to be deleted),
  `OrphanIsTransient` (a file without a row is about to get one, or its couple
  is gone), `OnlyOwnersRemove`, `OnlyOwnersUnlink`.
- `route_concurrent`: `FreshAnswer` (the departure times are for a plan of some
  moment of the request, the journeys lead to its place and were asked for a time
  in its bucket, and they start from the homes of some moment of the request,
  both at once), `RowNeedsEvent`. Plan and homes may be of different moments: the
  code reads them by two statements.
- `chat_fanout`, `chat_history`: `NothingLost` (every stored message but the
  strays is shown, on its way, asked for by the next resync, or found by
  scrolling up), `ListIsSeen` (the list and the set that suppresses duplicates
  agree), `Delivered` and `TriesAgain` (liveness).
- `parts`: `AnswerInBucket` (a cached route is for the caller's own trip and
  bucket, whoever fetched it), `MeetupIsSoonest` and `AgreeToMeet` (both
  partners meet or neither does, although each pairs the stations in its own
  order), `PageFailsForLostKeyOnly` (adding keys and switching between them
  never makes a message unreadable), `FoundForLatest`, `PhotosAreRows`,
  `CalendarIsCurrent`, `RouteIsForSelected`, `CardShowsDb`, `SentIsPending` (what
  a page shows once nothing is under way), `NoSpinnerHangs` (no spinner without
  a call that ends it), `SessionIsOwn` (user and status of a tab are those of its
  token, unless another tab has changed localStorage).

The violated properties are findings; `PROJECT.json` quotes the comment or the
README line that states each:

- a decline or cancel that is overtaken by an accept deletes the ACTIVE couple;
- equal photos share a file that the first removal takes away;
- a resync shows the tab's own messages a second time;
- the form of an appointment shows the UTC time as local time, and saving it
  moves the appointment by the offset of the zone;
- if the 401 of the status arrives before that of /users/me, the tab is logged
  out but stays on the main page, loading for good.

What else the models have shown, without a statement in the repository that it
would contradict: two overlapping sendInvites of a user leave two PENDING
invites (`SinglePendingInvite` needs requests one at a time), and so do the
other rules of `couple_sequential`; a route computed during an invalidation is
cached after it, which is harmless, since the key contains every input
(`FreshAnswer`); the two partners may be told different stations, though both
are told to meet; a page that asks for photos below a deleted one ends the
paging; a page that never got its status does not notice that its own acceptance
went through.

### Bounds

- Couples: `couple_concurrent` has three users, three ids and two requests.
  Three users are the least for a user wanted by two others; three ids let a
  couple end and another form while a third invite is under way. Two requests
  suffice for every race found here, each being between two stale reads.
  `couple_sequential` has four users and four ids: two couples, and an invite
  in each direction between them. The proofs have no bound.
- Gallery: two couples, three photos, three contents, two requests, batches of
  up to two: a removal can overlap an upload, another removal of some of the
  same photos, or breakUp, and a batch can name photos of both couples. Ids
  are used up (`fresh`), so the system stops when all were used:
  `CHECK_DEADLOCK FALSE`.
- Routes: three plans of which two share a bucket (`Slot`), two homes, three
  requests (`Arrivals`), which may all overlap: enough for a fill, a change and a
  request that meets both. The behaviours end with the last request:
  `CHECK_DEADLOCK FALSE`. The proofs have no bound.
- Chat: `chat_fanout` has two messages, which can be reordered, duplicated,
  retried (two attempts per job, three in the code) and missed; `chat_history`
  has three, with pages of one and a resync of two, the least that leaves a
  hole between two loaded parts (the code: 50, 20, 50). The number of
  reconnects is not bounded. A tab always has something left to do, so deadlock
  is checked.
- Parts: two overlapping calls throughout, which is what a stale answer needs.
  Transit: two trips, times `0 .. 2`, buckets of two minutes by default and of
  three by request, so two bucket sizes meet in one cache. Overlap: routes of up
  to three stations with two names at three places, of which neighbours are
  near. Keys: two versions, two keys and a malformed one, two messages, any
  number of restarts. Search: two keywords, two aborted calls. Photos: three
  photos on pages of two, up to two files in an upload, and one deletion at a
  time (`Deletion`; any number overlap in the proof). Of the requests a photo
  tab leaves behind one upload and one deletion are followed. Calendar: two
  events and two months. Settings: two values, one of which is the empty one,
  one field in edit at a time, one request left behind (`MaxLeft`); a behaviour
  is followed until another home has been stored. Session: two tabs, two tokens,
  three identities of which two share an address and one has none. A part ends
  when its ids, photos, messages or tokens are used up: `CHECK_DEADLOCK FALSE`.
- `parts` follows a behaviour beyond a `mishap` only until what was under way has
  arrived (`Followed`): from then on the property says nothing until the next
  clean fetch. It is one run because the parts have nothing in common: each
  behaviour chooses one of them at the start, and the state of the others
  rests. Their value sets share names, each being without structure in every
  part that has it.
- `event_time` has an offset of one hour; with an offset of zero, as in `parts`,
  the property holds.
- Users, ids, photos, contents, plans, homes and requests are interchangeable
  (symmetry sets in the MC modules; no run with symmetry checks liveness).

### Fairness

Couples, gallery, routes and the parts have safety properties only; a handler
may stop at any await (`Abandon`) and a call may never be answered, so none is
assumed. In `Chat` (`FairSpec`) a request that is being handled goes on
(`Enqueue`, `SyncRead`, `HistoryRead`), BullMQ's worker takes its jobs and retries
them (`Publish`, `Retry`), and the browser delivers what has arrived and fires its
timers (`Receive`, `HistoryApply`, `TimerFires`): weak fairness of each, since
each stays possible until it happens. Nothing is assumed about users, senders,
failures, or whether a connection succeeds: `Delivered` is about tabs whose
connection lasts from some moment on. `NoSpinnerHangs` is the safety side of
"every spinner ends": while it turns, a call that ends it is under way.

## 4. Proofs

TLAPS proves, for every value of the constants:

| Module | Theorems |
|---|---|
| `CoupleInvitesProofs` | `TypeCorrect`, `OneCouple`, `InvitesHaveCouples`, `CouplesAreWhole`, `MembersEndCouples`, `InviteesFormCouples`, `Refinement`; if requests come one at a time (`OneAtATime`): `OneInviteAtATime`, `CoupledUsersAreDone`, `CleanupIsHarmless`, `AnswersAreFinal` |
| `RouteCacheProofs` | `TypeCorrect`, `AnswersAreFresh`, `RowsNeedEvents` |
| `GalleryProofs` | `TypeCorrect`, `PhotosHaveCouples`, `OwnersRemove`; if no bytes are uploaded twice (`~Reuse`): `MissingFilesAreDoomed`, `OrphansAreTransient`, `OwnersUnlink` |
| `ChatProofs` | `TypeCorrect`, `ListAndSeenAgree`, `NoMessageIsLost` |
| `PartsProofs` | transit: `AnswersAreInBucket`; overlap: `PairsAreAMatching`, `PairsAreMaximal`, `MeetupsAreSoonest`, `BothMeetOrNeither`; keys: `KeysAreTyped`, `MessagesAreSealed`, `PagesFailForLostKeys`; web client: `FoundIsForLatest`, `RoutesAreForSelected`, `CardsShowRows`, `SentInvitesArePending`, `SpinnersEnd`, `PhotosShowRows`, `CalendarShowsRows`, `SessionsAreOwn`; all parts: `PartsAreTyped` |
| `TabsProofs`, `SettingsProofs`, `InvitesProofs` | the lemmas that `PhotosShowRows`, `CalendarShowsRows`, `CardsShowRows`, `SentInvitesArePending` and `SpinnersEnd` rest on |

The assumptions are those of the modules: the "no value" constants differ from
the values, a couple has exactly two users, being near is symmetric, bounds are
natural numbers, a page has at least one photo, hours, days and months have a
positive length, and the ids of appointments are finitely many (their number is
the bound on how many are created). `OneAtATime` and `~Reuse` are hypotheses of
the theorems that need them, as they are the constants of the runs: without them
the properties fail, as the runs show that expect a violation.

**Couples.** None of the properties is inductive. What carries the proof is
what a suspended request may still rely on (`RequestKnows`): the row it saw is
the same row or is deleted, since ids are never used twice, and if it is there
the actor is one of its two users (for an acceptance: the invitee, with `peer`
the inviter). `Rows` says that the member rows are a function of the ACTIVE
couples and their invites, from which `CoupleIsWhole` follows, and
`FreshIsPrivate` that a couple between its two inserts belongs to one request.
The commit of an acceptance keeps `OneCouplePerUser` because of the unique
index, not because of the two checks before it. For the two action properties
`StepCases` sorts the steps of `Next` by what they do to the member rows;
`Refinement` maps sendInvite's last insert to `Offer`, the commit to `Pair`,
each delete to `Drop` and all else to a stutter.

If requests come one at a time, what a request has read is still so when it acts
(`WhatItReadHolds`): a sender about to insert has no PENDING invite and neither
user has a couple, an invite about to be answered is PENDING. With it the four
theorems under `OneAtATime` follow, also when requests die half way.

**Routes.** `CacheIsHonest` says that what is stored under a key was computed
for the inputs of that key, up to the bucket of the time, `AnalysisIsHonest` that
an analysis works with a plan and with homes that were current since it began.
Both survive every missed invalidation, which is why the answers are fresh
without it.

**Gallery.** In two layers. `Inv` needs no assumption: the rows a removal has
found and checked still belong to its caller, or are gone, because ids are not
used twice. `OnceInv` adds what needs that no bytes are uploaded twice: every
file in the hand of a request is that request's alone or has a row of its
couple (`RowsOwned`, `FoundOwned`), and a file without a row or a row without a
file has a request in progress to blame (`MissingIsInHand`).

**Chat.** `ListAndSeenAgree`: the four places that change the list (an own
message, a broadcast or resync, the first fetch, an older page) change the seen
ids alike. `NoMessageIsLost` is about the *open* messages, those which the tab
neither shows nor will find by scrolling up. `Accounted` says where such a
message is when the tab is connected: a resync has been asked that reaches down
to it, or the answer with it has been sent (`Answering`); or it is on its way
with nothing later before it, and nothing later has been shown (`Ahead`). The
order matters: a later message that arrives first moves `lastSeen` past the open
one, and the next resync would not ask for it. That is also what a tab that is
not connected needs: the open messages are at or after `lastSeen`. `Accounted` is
inductive together with what holds of the jobs that wait (`InTurn`: they do not
overtake a message that is yet to be enqueued, but for the strays), of the
packets (`Connection`: at most one answer to a resync, and only if one is under
way), of the two kinds of pages (`PageKnows`, `OlderKnows`: a message that is not
in a page is later than all of it, or below a full one), and that all of them
are about stored messages (`Stored`). A message that a step has made open was
open before (`OpenBefore`): what scrolling up would find, it still finds after
any step, or the message has become a stray.

**Transit.** An entry's route fits the bucket its key names, whoever stored it,
and a suspended call has in hand a route for its own key; the key determines
trip and bucket, though not the arrival time.

**Overlap.** The greedy loop keeps a matching of alike stations, and a station
it leaves alone had no free partner then and has none later, since partners
are never released: so the matching is maximal. Alikeness is symmetric, and a
maximal matching is empty exactly if no two stations are alike, hence both
analyses find a meetup or neither does. The second loop keeps the best station
so far.

**Keys.** A stored message stays `Readable`, that is, its key is configured under
its version, until an edit takes that away and puts the version into `lost`; a
running process has the ring it was started with, and what it lacks or has
beyond the configuration was edited since.

**Session.** `Sound` holds of every document whatever the other tabs do: its token
was issued, its user is the token's, a login that found its account has one.
`Follows` holds of the documents under which no other tab has changed
localStorage: the stored token is theirs, and so are status and pending call.
Accounts and tokens only grow, so a document that a step does not touch stays
sound (`MoreAccounts`, `MoreTokens`).

**Search.** What waits for the timer, or is on its way without having been
aborted, is the last keyword (`SearchInv`); so no other answer gets through.

**Route.** Unless calls have crossed, the hook is at rest with the route of the
event in the form (`AtRest`), or exactly one call is under way, for the event of
the form or for a form that was closed since (`Asked`).

**Settings and invites.** Both are proved along the same lines. While no mishap
has been noted, a card or a page shows the rows (`CardIsFresh`, `PageIsFresh`)
but for what a write that has run and is not answered will bring, and an answer
that is on its way without a mark is what the rows say (`AnswerIsFresh`). A
fetch replaces everything, so it must not overlap a write of the same tab:
`FetchIsAlone`; the writes of a tab that was left mark all that they change.
`Spinners` names the call that ends each spinner. Most of the work is that a
step marks *all* answers it makes stale (`GoneKeeps...`), however many calls
overlap.

**Lists.** `SortedIs`: the sorted list of a finite set of numbers has exactly
its members, each once, in order; `KeptIs`: a filtered list has exactly the
entries at the chosen positions, in their order. All that the two tabs do to their
lists (a page appended, new entries in front, an entry replaced or removed) is
covered by lemmas of this kind (`ConcatIs`, `FilterIs`, `NewestIs`, `OrderIs`).

**Photos.** As long as nothing was noted as a mishap (`PhotosAgree`): every row
that is not older than the cursor is shown, but for those of an upload that is
not answered yet (`RowsAreShown`); what is shown is a row or about to leave the
list (`ShownAreRows`); no photo is twice in the list or before one of a later
upload (`PhotosInOrder`), and those of an upload that is not answered are later
than all that is shown (`UploadIsNewest`); what is picked is or was in the list;
and a page under way was read below the very cursor that the tab still has
(`PageKnows`). Then a tab with nothing under way shows the rows from the newest
upload down to its cursor, without gaps or repetitions. A page falls, so it has no
photo before one of a later upload (`FallingIsOrdered`), and neither has a batch,
in whatever order its files are, since no upload begins within it. A change of
tabs leads to a state in which all of this holds whatever the rows are
(`MountedAgrees`).

**Calendar.** What carries the proof is said of the calls, each by itself: a
write that has run and that nothing has overtaken left its row as it says, and
no other such write is about the same row (`WritesStand`); a fetch that has run
and was not overtaken has exactly the rows of its month, but for what those
writes will still bring (`FetchesMatch`); and the list is like such a fetch of
the current month (`ListMatches`). `Evolves` says what a step may do to rows and
writes for a list that matches to go on matching; `QuietKeeps` covers the steps
that touch neither.

**Composition.** A step of `Parts` is one of one component (`Inv` of
`PartsProofs` is their invariants, each under its `part`). Since each of them
contains the types of its component, and the others rest in a state that has its
type, `PartsAreTyped` follows. `Parts` and the modules with the proofs
instantiate `WebSettings` and `WebInvites` separately; the lemmas `Same...` say
that both instances are the same.

The inductive invariants were checked with TLC on the runs' instances before they
were proved. Where a proof needs the smallest or largest element of a set of
numbers (the first missing message, the newest page), it comes from the
well-foundedness of the natural numbers (`Smallest` in `ChatProofs`).

Every invariant and every action property that a passing run checks is proved,
and the refinement. Model-checked only are `Delivered` and `TriesAgain`: they are
liveness properties, which need fairness and with it ENABLED, out of the prover's
reach.

## 5. What could come next

1. The chat with equal stamps, the heartbeat's clock and the tab's healthcheck,
   and a reload of the page.
2. `WebInvites` over `CoupleInvites`, and `WebPhotos` over `Gallery`, in place of
   the single server steps they take now.

## 6. Not modelled, and why

- Infrastructure (`main.ts`, the Nest modules, Prisma and Redis providers, the
  health endpoint), `prisma/seed.ts` and the scripts: wiring and data, with no
  behaviour beyond the calls they make.
- Markup, layout, scrolling, validation messages, the map and list of
  RoutePanel, and the footer beyond what it mounts. Validation of request bodies
  only rejects requests.
- The copies of birthdays and homes on the couple's card, which it shows but does
  not edit: they are read with the couple, so a profile change leaves them as
  they were until the card is read again. The partner's name in place of a
  missing nickname of the partner: `Blank` stands for it.
- Photos with the same createdAt. The rows of an upload get the time of their
  insert in milliseconds, so two may be equal, and `orderBy` leaves their order
  open; the model takes one of the possible orders and keeps it.
- The null that GET `/v1/couples/invites/sent` answers without a pending invite.
  The framework sends it as an empty body, which `sentRes.json()`
  (`useCoupleInvite.ts:37`) refuses, and the received invites are not shown then.
  In `WebInvites` that is one of the outcomes of a fetch without a pending invite
  (`FetchFails`), beside the one the code is written for: what an empty body
  becomes is up to the HTTP libraries.
- Reads are modelled where the client uses their answers (findCoupleInfo,
  findMe, getStatus, getSentInvite, getReceivedInvites, findMany, findByMonth,
  searchPoi, fetchMessages); findOne is used by no page.
- Two messages with the same stamp. With `sentAtMs < oldest`, paging skips those
  that did not fit the page; that is certain and no question of order. The
  server's heartbeat and the tab's healthcheck close a connection like a lost
  one, so their clocks are left out; a message is sent over HTTP only, as
  ChatTab does.
- OAuth, the signature of tokens, AES-GCM, SHA-256, Tmap, BullMQ's internals and
  the HTTP framework are libraries or external services. Keys and hashes are
  taken to be injective; `KakaoStrategy.validate` stands for the three
  strategies, which differ in where a provider puts the address.
