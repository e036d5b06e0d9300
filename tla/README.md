# Crammerly in TLA+

Crammerly is a study platform: an Express server over MongoDB with a Socket.io
channel beside it (`backend/`), and a React client (`frontend/src/`). This
directory holds TLA+ models of the parts of it where several requests,
connections or clients meet, what TLC finds about them on small instances, and
what TLAPS proves about them for every value of the constants.

To run it: `tlc -config Account.cfg MCAccount` model-checks one configuration,
`tlapm Account_proofs.tla` checks one module of proofs. `PROJECT.json` lists the
runs, ties every definition that models code to its lines, and lists the
hazards with the properties that cover them.

## 1. How the program runs

**The server** is one Node process (or several behind a balancer, with MongoDB
and perhaps a Redis adapter shared). Node runs one callback at a time, so the
code between two `await`s is one step, and *every await is a place where any
other request may run*. Most handlers have the form

    const doc = await Model.findOne(...)   // read
    if (...) return res.status(4xx)        // decide on the copy
    doc.field = ...                        // change the copy
    await doc.save()                       // write

so a decision is made on a copy that may be stale when it is saved. What such a
save does to a document that has changed meanwhile follows from mongoose, and
differs from one field to the next. The models depend on these rules:

| the handler did | what the save sends | condition on `__v` | raises `__v` |
|---|---|---|---|
| assign a plain field | `$set` of that field | none | no |
| `array.push(x)` at the top level | `$push` onto the *stored* array | none | yes |
| `push` inside an element of an array | `$push` to `array.<position>.list` | as read | yes |
| assign an array, `shift`, `unshift`, `pop` | `$set` of the whole array in memory | as read | yes |
| assign a field of an array element | `$set` of `array.<position>.field` | as read | no |
| `findOneAndUpdate`, `updateOne`, `updateMany` | that update, atomically | none | no |

A refused save is a `VersionError`; a save of a document that has been deleted
is refused too. Mongoose and MongoDB are not under this repository; these rules
are the models' assumption about them and are used only where a handler does
what the first column says.

**MongoDB** applies one update of one document atomically. Nothing here uses a
transaction, so a handler that writes two documents may be interrupted between
them.

**A stop** of the server may come at any moment: it loses every request being
served, the registry of video calls and the connections, and keeps MongoDB. The
modules of the server have it as the action `Restart`, or as `Fail` of one
request where nothing but that request is lost (`SignIn`, `Friendship`). A page
notices a stop as a lost connection: `Drop` in `DirectChat` and `RoomVideo`,
`AnswerLost` in `ClientSession`. A request whose connection is lost, or whose page
is loaded again, is *not* stopped: its handler goes on at the server.

**The socket** connects again by itself, in no room but that of its account, and
the server keeps nothing for a socket that is away: what it emits meanwhile is
lost, and the page stays as it was. `DirectCall` has this for each message
(`Lose`), `DirectChat` and `RoomVideo` for the connection as a whole (`Drop`).

**A page** runs one callback at a time too. What a handler of an event or a
promise sees of the React state is what was last rendered, or what an effect has
copied to a ref since; the modules of the client keep what was set and what is
seen apart where a handler depends on it. A promise that is pending when its
component goes away still runs its continuation.

## 2. Inventory

The parts, their state, and what makes them correct. The last column says where
each is modelled.

| part (code) | state | operations | what must hold | modelled in |
|---|---|---|---|---|
| Sessions (`utils/tokenService.js`, `authController.js`, `sessionController.js`, `models/Session.js`, `jobs/`) | one Session document per device: current token, history of replaced tokens, validity, refresh count, expiry | login, rotate, detect reuse, logout, revoke one or all, expire, delete | a replaced token that comes back revokes the family; a revoked session stays revoked; no honest token looks replaced; the history is bounded | `RefreshTokens` |
| Credentials (`authController.js`, `adminController.js`, `models/User.js`) | password, last five passwords, `tokenVersion`, reset link | change, reset, mail a link, log out everywhere, ban, change role | no recent password returns, none is forgotten early; a link works once; a change revokes the tokens issued before | `Account` |
| Signing in (`authController.js`, `models/User.js:150-223`) | how an address was registered, whether it is verified, failed attempts, the lock, the sessions | register, Google, verify, log in, change, reset | one way in per account; the sessions of an ended password end; guesses are bounded | `SignIn` |
| Access-token check (`middleware/auth.js`) | none | every request | reads `tokenVersion` and the session | `Admits` of `ClientSession`; its state is in the modules above |
| Room membership (`roomController.js`, `assignRole`, `friendController.js`) | the list of members with flag, role, progress | create, join, leave, toggle admin, assign role, record progress, delete | capacity; a write reaches the member it names; the owner stays | `RoomMembership` |
| Room content (`messageController.js`, `taskController.js`, `resourceController.js`) | messages, tasks and resources of a room | create, claim, update, delete, the cascades of `deleteRoom` and `deleteAccount` | nothing outlives its room or its author | `RoomContent` |
| Deadline reminders (`workers/deadlineWorker.js`) | `reminderSent` and the notification of a task | scan, notify, mark; `updateTask` resets | a mark stands for a reminder; a reminder that is due comes | `DeadlineReminders` |
| Friends and notifications (`friendController.js`) | requests, two lists of friends, notifications | send, accept, decline, remove | friendship is mutual; what asks for an answer has none | `Friendship`; the DM room is `CreateDM` of `RoomMembership` |
| Chat of two friends (`messageController.js`, `FriendsModal.jsx`, `join_room`) | messages, readers, the page's list | open, load, send, receive, mark as read, close | nothing shown twice or missed; a tick means read | `DirectChat` |
| Presence and the registry of room video (`utils/socket.js`) | connections, `isOnline`, `io._videoRooms` | connect, drop, join and leave a call | the cap of the mesh; no empty call; a dead participant leaves; connected means online | `Realtime` |
| Calls between two accounts (`utils/socket.js`, `VideoCallContext.jsx`, `CallModal.jsx`) | the state of a call at both ends | call, accept, decline, hang up, candidates, failure | the camera goes off; nobody is left in a call alone | `DirectCall` |
| Room-video clients (`useRoomVideo.js`, `VideoTab.jsx`) | one peer connection per participant | join, offer, answer, leave, refusal | who shows the call is in it; every two participants are connected | `RoomVideo` |
| Client session (`api/client.js`, `AuthContext.jsx`) | tokens of the browser, the queue of requests waiting for a refresh | 401, refresh, retry, log out | one refresh at a time, nobody waits for ever, a lost race is not a logout | `ClientSession` |
| Clean-up (`workers/cleanupWorker.js`, `jobs/`) | documents past their time | delete | deletes nothing in use | `Delete` of `RefreshTokens`; see section 6 for ROOM_CLEANUP |
| Room and board hooks of the client (`useRooms.js`, `BoardTab.jsx`) | a copy of the list of rooms, of a room's tasks | load, events of the room | the copy follows the server | no, see section 7 |
| Study sessions (`studySessionController.js`, `utils/cache.js`) | active session, cached statistics | start, end, statistics | one active session; the cache is invalidated | no, see section 7 |
| Room-list cache (`roomController.js`) | a listing, for a while | read, drop | | no, see section 7 |
| To-dos, records, bug reports, AI proxy, admin statistics | independent documents, or none | plain create/read/update/delete | written field by field by one account | no: no two actors meet |
| Filters (rate limit, captcha, CSRF, validation) | counters of a library | run before the handlers | | no: a library's state |
| User interface, build, deployment | | | | no: rendering and scripts |

How they interact: the session and credential handlers share the request
(`resetPassword`, `updateUserProfile` and deactivation write the account *and*
every session; `changePassword` writes only the account). The room handlers
write the room and then tell its channel over Socket.io. The socket layer reads
the account and, for room channels, the membership list. The client's HTTP layer
answers a 401 by calling the rotation and repeats the request. A page learns of
its chats both by requests and by the events of a channel, in either order. The
pages of a call talk to each other through the server, which passes on what they
say. The workers write the same documents as the handlers, from a timer.

The same code appears in several modules where it meets different things. A
change of password is three steps of one document in `Account`, and in `SignIn`
two, next to logins and sessions. A session is a document with its tokens in
`RefreshTokens`, and one of a kind in `SignIn`. The server of a call is
`Realtime` with all its connections, and what the pages notice of it in
`RoomVideo`. `RoomContent` has members as a set, whose list is `RoomMembership`.

## 3. The modules

Each component has a model, `MC…` which extends it with the sets a
configuration needs and the symmetry. The theorems are in modules `…_proofs`,
each with one component or two that meet: `RoomMembership_proofs` is also about
`RoomVideo`, `RoomContent_proofs` about `DeadlineReminders`, `Realtime_proofs`
about `DirectCall`, and `Contacts_proofs` about `Friendship` and `DirectChat`. A
module that shares its proofs with another prefixes the names both would have
(`VideoTypeOK`, `ChatNext`). Data is abstracted to what the properties tell apart: accounts,
requests, connections and passwords are model values or numbers, a token is the
number of its generation, time is an action ("thirty seconds pass").

Definitions commented "Seeded fault" (`RotatedWholeDocument`, `LeaveAnybody`, …)
are not used by any specification. Each is a plausible mistake in the definition
that follows it, kept so that one can check that a property notices: put it in
place of the real one and the property must fail. `PROJECT.json` pairs every
property with one.

**Exceptions that are part of a property.** Where the code lets something go
wrong in a particular way, the property says "unless this has happened", and the
model keeps a variable of history for it: `late`, `torn`, `both`, `cut`,
`missed`, `untold`, `unmarked`, `ahead`, `astray`, `crossed`, `lost`, `forked`. No guard of a program step
reads one. Each is set only by the step in which the case occurs, so that the
property claims that *nothing else* has the same effect. It does not claim that
the case does no harm, and does not notice whether the code handles it well or
badly: several of these cases are hazards of the code itself, which happen, and
section 6 tells what each leads to. An exception is as small as the case: `torn` and `both` are
about two accounts and `crossed` about the connection of one page to another, so that what went wrong between two excuses nothing between others; `lost` is about
one connection and `unmarked` about the messages of one request. `torn` is wider
than it has to be in one respect: an acceptance or a removal that fails is noted
whether or not it had saved anything, because another one may have been refused
before and relied on it to finish.

### RefreshTokens

All Session documents of one account. Sessions of different accounts share
nothing. `session[s]` is the document (`current` is the hash of the current
token, `previous` the history, `count` the refreshes, `version` is `__v`);
`recent` and `expired` replace the clock: they are the results of
`gap < 30000` and `expiresAt < now`, changed by `GraceEnds` and `Expire`.
`held` are the tokens some client was given. `pc`, `target` and `read` are the
place, the document and the copy of each request being served.

| action | code |
|---|---|
| `Login` | the session created by `loginUser`, by Google login and, for the caller, by a password change in the profile |
| `RefreshFind` | `rotateRefreshToken` up to its first write: find by current or replaced token, then decide *race*, *reuse*, *excess* or *rotate* on the copy |
| `RotateSave`, `RotateRefused` | the save of the rotation. Below five entries the history is `$push`ed; at five the `shift()` makes it a conditional write of the whole array |
| `RefreshReply` | `refreshAccessToken` looks the new token up and answers it |
| `ReuseSave`, `FamilyRevoke` | the two writes of the reuse path |
| `ExcessSave` | the limit of 50 refreshes |
| `LogoutFind`, `RevokeFind`, `RevokeSave` | logout by current token, revocation by id |
| `RevokeAll` | the `updateMany` of four handlers |
| `Delete` | the TTL index and the clean-up jobs |

`expired` is only set on a document that is not `recent`: thirty seconds are
shorter than seven days. A request that a stop interrupts is at `"lost"`, which
only the liveness property looks at.

### Account

One User document, its password, history, version and reset link. A change is
three steps: `ChangeFind` or `ResetFind` reads and tests, `PasswordHook` is the
pre-save hook that reads the stored password *again* and puts it in front of the
history in memory, `PasswordSave`/`PasswordRefused` is the save, conditional on
`revision` because it writes a whole array. The other writers (`ForgotPassword`,
`LinkExpires`, `LogoutAll`, `Moderate`, `OtherSave`) are one step each, as
nothing they write depends on what they have read, except `Moderate`: the
administrator's handlers do not select `tokenVersion`, so the value stored is
always 1, which is what the action says.

`CredentialPolicy` is what all this promises, without requests: `Change`, `Reset`
and `Mail` are atomic. `Account` implements it by the mapping

    Policy == INSTANCE CredentialPolicy
                WITH password <- password, previous <- previous, mailed <- mailed, uses <- uses

(the stored fields and the count of uses of each link): the property
`AtomicChanges` is its specification. `PasswordSave` is the
step that implements `Change` or `Reset`, `ForgotPassword` implements `Mail`, and
every other action, a stop included, is a stutter.

### SignIn

One e-mail address. `user` is the account it belongs to, `session` the valid
sessions (two of the same kind are one element), `job` what each request has
read. A password is the number of the changes that led to it.

| action | code |
|---|---|
| `RegisterFind`, `RegisterCreate`, `GoogleCreate` | `registerUser`, and `googleLogin` for an unknown address: both look first and create later, and the index on the address refuses the second |
| `GoogleFind` | `googleLogin` for an account that Google made |
| `VerifyFind`, `VerifySave`, `LinkExpires` | `verifyEmail`; the link ends with its use or after a day |
| `LoginFind` | `loginUser` up to the comparison, which goes by the copy: password, attempts and lock of that moment |
| `IncLoginAttempts` | `incLoginAttempts` of the model: with an expired lock in the copy it starts to count again, otherwise it raises the *stored* count and decides on the lock by the *copied* one |
| `CreateSession`, `ResetLoginAttempts` | the rest of a login; `CreateSession` also ends `googleLogin` and a change in the profile |
| `ChangeFind`, `Revoke`, `SavePassword` | `changePassword` (revokes nothing), `updateUserProfile` and `resetPassword` (revoke all sessions, then save) |
| `LockExpires` | thirty minutes |
| `Fail` | a refused save, or a stop |

`late` marks a request during which a revoking change was under way, and the
session it makes; `ended` is the latest password from which a revoking change led
away; `guesses` counts wrong passwords since the account was last open.
`LockExpires` waits for logins that have compared already, for thirty minutes are
longer than the answer of a login takes. `SavePassword` demands that the password is the one that was
read, since the whole-array write of `Account` refuses it otherwise.

### RoomMembership

One room document. `members` is its list in order; an entry has a user, the
admin flag and the length of its progress. `Leave` and `JoinPush` are single
updates and do not raise `version`. `ToggleFind`/`ToggleSave`,
`RoleFind`/`RoleSave` and `ProgressFind`/`ProgressSave` read a position and save
to it; `Written` is what MongoDB does with a position beyond the end of the list
(it fills the gap, hence `Blank` entries, hence `NotFound` and `FoundAt`, as the
handlers throw when they meet an entry without a user). What a project role says
no property tells apart, so `RoleSave` matters only by the position it writes to.
A scheduled room forbids joins until its date, which the set `Admitted` stands
for; the socket events after a write are left out.

### RoomContent

One room, its members and admins as sets, and the items of three kinds. An item
is a document with its author and, for a task, its assignee; it may be stored
once. `job` is a request between two awaits.

| action | code |
|---|---|
| `CreateFind`, `CreateStore` | `sendMessage`, `createTask`, `createResource`: the room and the membership are read, the item is stored later |
| `UpdateFind`, `ClaimFind`, `DeleteFind`; `Check`; `Write` | the handlers that read the item, then the room, and then write: `updateTask`, `claimTask`, `deleteTask`, `updateResource`, `deleteResource` |
| `JoinFind`, `JoinPush`, `Leave`, `ToggleAdmin` | the members, as far as the checks above need them |
| `DeleteRoomFind`, `Sweep`, `DropRoom` | `deleteRoom`: three deletions at the same time, then the room |
| `EraseFind` … `EraseAccount` | `deleteAccount`, its writes one after the other |
| `Restart` | a stop: every request is gone, what it has written stays |

`swept` and `erased` are the kinds that were deleted for the room and for an
account; an item that is stored after that is `late`.

### DeadlineReminders

Task cards with assignee, date and `reminderSent`; `near` and `gone` are the
clock, as far as the worker asks it (due within a day, past). `UpdateTask` and
`ClaimTask` read, `Save` sends the fields that differ from the copy: that is why
a new date clears the mark only if the mark was set when the task was read. The
worker (`Scan`, `LookUpRoom`, `Notify`, `NotifyFails`, `MarkSent`) reads all
tasks at once and then awaits for each. `notice` holds what was reminded of.
`Restart` stops requests and workers; several servers run a worker each.

### Friendship

Two accounts or more. `friends[u][v]` is how often `u` has `v` in its list,
`request` the friend requests by their direction (there is one document for
each, for ever), `notice` the notifications that ask for an answer. A job is one
HTTP request; `lists` says in which lists it has found the other, `stale` in
which of them a later save makes its own fail. Accepting pushes (unconditional),
removing assigns a filtered list (conditional on the revision). `OtherSave` is
any other save of the account that raises its revision. `Fail` is a call that
fails or a stop. `both` and `torn` are the history of each two accounts: they sent
requests in both directions at once, or an acceptance of theirs met a removal or
failed after its first save.

### Realtime

The server side of the Socket.io connections. `phase[s]` says how far the
connection and its last handler are; the two awaited writes of `isOnline` are
steps of their own. `entry[r][u]` is `io._videoRooms`: the connection registered
for account `u` in room `r`, `open` are its keys. A connection is used once,
since a reconnecting client has a new id. `DropEarly` is the connection that
closes before its handlers are registered: nobody hears of it, and the pending
write still lands. The adapter's `fetchSockets` is taken to answer in the same
step, as the in-memory adapter does; with the Redis adapter it is one more await
and the window of section 6 is wider.

### RoomVideo

The call of one room, with a page for every account. A page has what it shows
(`inCall`), the ref that follows an effect later (`seen`), questions for the
camera that are open, of this mount of the hook and of earlier ones (`stale`),
and the streams it holds or has lost sight of (`camera`). `pc[u][v]` is the
connection of `u` to `v`: which one it is, what it has described itself as, and
whose description it was given. `outbox` and `inbox` are ordered channels to and
from the server, which has `entry` and `channel` (who hears what it tells the
room). `JoinCall`, `LeaveCall`, `LeaveChannel`, `Relay`, `Drop` and `CleanUp` are the
server's handlers; `ClickJoin` to `Move` the user, the browser and React;
`Peers` to `Refused` the handlers of the hook. `Move` is a change of the tab,
which unmounts the hook; its clean-up goes by the ref, as that of
`useRoomVideo.js:331` does, so that a page which is left between `setInCall` and
the effect tells nobody and keeps its camera. `astray` collects the pages on which a refusal, a lost
socket, a second click, a late answer for the camera, or an event or a change of
tab before the effect has struck. `crossed` has the pairs `<<u, v>>` for which something of an
earlier call of either may have met the present connection of `u` to `v`: an
offer, answer or "left" of before was under way when one of them joined, or was
taken since. When it is told that `v` has left, or leaves the call itself, `u`
starts anew with `v`, unless an offer or an answer between the two is still under
way (`Between`). In an earlier form every "left" took the pair out, and two
members who join four times, with one change of tab, refute that. The instance of
the run is too small for that; the attempt to prove the property showed it.

### DirectCall

Two pages and the relay between them. `ui` is the state of the provider as it
was last set and `seen` as it is rendered and copied to the refs: handlers of
events and buttons go by `seen`. A flow of placing or accepting a call (`job`)
waits for the camera (`Media`, `MediaRefused`), then for the description
(`Describe`, `DescribeRefused`), then feeds the candidates that came early
(`Drain`). `conn` are the RTCPeerConnections with the description and the
candidates they were given; `live` the connections whose camera runs. `net` are
ordered channels; the server forwards and looks at nothing, so it has no state.
`Lose` takes any message away that is next: the socket of the page it is for
connects again at that moment. `lost` are the connections a candidate of which
went that way, `faults` counts lost messages and reloads. A lost offer leaves the
caller's page "outgoing", and a lost end the other page in the call, until
somebody clicks or the connection fails: no timer ends a call. `Initiate` asks
nothing, as `initiateCall` does: the buttons in the chat are disabled during a
call, those in the list of friends (`openChat`) are not. `Cleanup` is `cleanupCall`, with the stream the *ref* knows. `cut` are
the pages on which a flow was overtaken (`cleanupCall` called by a flow itself,
when the camera is refused, overtakes only the others), or which took the answer
to an earlier call.

### DirectChat

The server, the channel and one of the two pages. A message is sent, stored
(`Store`), told to the room (`EmitNew`) and answered to its sender (`Answered`).
Between the first two the request may fail (`EmitFails`: `populate` finds no
sender, the import fails, the server stops), and then the room is never told.
`MarkAsRead` may fail too (`MarkFails`): `.catch(() => {})` takes no notice, and
the page asks again only when the chat is entered or the next message comes
(`unmarked`).
The page loads the history (`ReadHistory`, `HistoryLoaded`), takes the events
`NewMessage` and `MessagesRead` in their order, and is in the channel from
`join_room` to `leave_room` (`JoinOrLeave`) unless the connection drops (`Drop`).
`OpenChat`, `StatusChange`, `CloseChat` and `CloseModal` are the effects of the
modal. `Answered` and `appendOptimisticMessage` are as the code has them: the
comparison of two absent fields makes every message count as shown already. The
friend's page is not kept, as nothing here depends on it: the friend sends
(`Send`) and reads (`FriendReads`) at any time.

### ClientSession

One browser: `stored` is `userInfo` of localStorage, `cookie` the server's cookie
(`keeps` is FALSE in a browser that blocks it), `user`, `header` and `dead` are
the React state, the default header and `_sessionDead` of each tab, `flight[t]`
is its `_refreshPromise` with the handler that serves it, and `call[t]` its API
calls. When the connection is lost or the page is loaded again, the two part
(`Parts`): `flight[n]`, for the n-th loss, is a handler that goes on at the server
and saves, for nobody. `forked` are the logins two of whose rotations overlapped. A call goes through `sent`,
`ok` or `denied`, and from `denied` to `waiting` for the refresh and back to
`sent` with `retried`, or it ends. The access and the refresh token of one answer
have one number.

| action | code |
|---|---|
| `Send`, `Resume` | the request interceptor, with the precedence of the default header over localStorage |
| `Reload` | a page is loaded and verifies the session |
| `Logout`, `ServeLogout` | `logout` of the context, `logoutUser` |
| `ServeProtected`, `ServeLogin`, `Fails` | what the server answers |
| `Accepted`, `DeniedFinally` | the caller: `updateUser`, `login`, `verifySession` |
| `AsksRefresh`, `GivesUp` | the response interceptor up to the awaited refresh |
| `Refresh…` | the rotation of `RefreshTokens`, from the client's side: found, saved, looked up, answered |
| `RefreshBreaks` | any exception in `refreshAccessToken`: its `catch` answers 401 and clears the cookie |
| `AnswerLost`, `Reload` | the connection fails, or the page goes, at any step of the handler |
| `Settle…` | all calls that wait go on when the refresh is settled: one step, since promise continuations run before the next callback |

`UNAUTHORIZED` is handled in the same step (`Unauthorized`), as events are
dispatched synchronously. Access tokens lapse in the order they were issued, and
not while an answer or a retry carries them (`Fresh`: fifteen minutes against
the time of a retry). A login, and the deletion in `ServeLogout`, are one step at
the server; the session, its history of five and its limit of fifty are in
`RefreshTokens`.

## 4. The runs

Bounds are chosen so that every guard can be both true and false and so that two
requests can interleave at every await. Two requests are enough for a stale
save: one reads and saves, any number of complete requests run in between, and
these only need the second slot one after the other.

| run | bounds | states | what it checks |
|---|---|---|---|
| `refresh` | 2 sessions, 2 requests, history 1, 2 refreshes, 3 tokens | 315 555 | `CurrentTokenIsFresh`, `RevocationIsFinal`, liveness `ReuseEndsFamily` |
| `account` | 4 passwords, history 2, 2 requests, 4 revisions, 2 links, 1 logout, symmetric | 150 326 | `ReplacedIsRemembered`, `ResetLinkOnce`, the refinement `AtomicChanges` |
| `signin` | 2 requests, 4 attempts, 2 changes of password, symmetric | 295 431 | `OneWayIn`, `EndedPasswordIsLate`, `GuessesBounded` |
| `rooms` | owner and 3 accounts, capacity 3, progress cap 1, 2 versions, 2 requests, symmetric | 125 032 | `CapacityKept`, `OwnerKeepsItsPlace`, `OwnerFlagUntouched` |
| `content` | the owner and one more account, one item of each kind, 2 requests, symmetric | 2 315 517 | `OrphanIsLate`, `ErasedAuthorIsLate` |
| `reminders` | 1 account, 2 tasks, 1 request, 1 worker, 1 date, 1 fault | 974 720 | `MarkedWasNotified`, liveness `ReminderComes` |
| `friends` | 2 accounts, 2 requests, symmetric | 1 339 039 | `FriendshipTypeOK`, `FriendsAreMutual`, `NoticeAsksForAnswer`, `OneWaits` |
| `realtime` | 3 accounts with 3, 1 and 1 connections, one room, cap 2 | 144 542 | `CapKept`, `EntryAccountedFor`, liveness `DeadEntryGoes` |
| `video` | 3 members, a call for 2, 3 clicks on "join", 1 move or loss, symmetric | 2 161 288 | `VideoTypeOK`, `ShownIsIn`, `MeshIsComplete`, `CameraOff` |
| `call` | 2 accounts, 2 calls, 1 reload or lost message, one flow of a page at a time, symmetric | 6 322 104 | `CallTypeOK`, `CameraOff`, `CallHasConnection`, `CandidatesArrive`, `NobodyTalksAlone` |
| `chat` | 2 messages, 2 turns (openings, status changes, drops) | 9 018 676 | `ChatTypeOK`, `NoneTwice`, `NothingElseMissed`, `TicksAreTrue`, `ShownIsRead` |
| `client` | 1 tab with 2 calls at a time, 1 login, 3 tokens, 1 lost answer or reload during a refresh, cookies kept or blocked | 893 797 | `ReuseMeansTheft`, `UnauthorizedIsDefinitive`, liveness `EveryCallSettles` |

What each property says is written above its definition. Every invariant and
every action property of a run is also a theorem (section 5); so are the type
invariants that no configuration names and a few invariants more
(`HistoryBounded`, `RecentPasswordsDiffer`, `OwnerProgressCapped`, `NoEmptyCall`).

Why the small numbers lose nothing that matters here:

* A history of 1 (`refresh`) and of 2 (`account`) overflows at once, which is
  the case where the write changes from an append to a conditional whole-array
  write. The limit of 2 refreshes makes the excess path reachable.
* Three tokens are a login and two rotations, or a rotation between two logins,
  so that an answer for the first login arrives in the second.
* Four passwords with a history of two: one stored, two remembered, one free.
* A limit of four attempts (`signin`) is larger than the two requests: the count
  can pass the limit by what is under way, and a lock that expired can be
  overlooked. Two changes of password tell "ended" from "ended before that".
* Capacity 3 with four accounts makes the last place contested, and two
  departures shift the list past a position that was read.
* In `content` a request creates or edits while another one deletes the room, or
  either account, step by step; a third request would add a second deletion at
  the same time, whose effect is that of the first. The theorems hold for any
  number.
* `reminders` needs two tasks for one to keep the worker from the other, and one
  date that nears and passes. Two workers and two accounts are left to the
  theorem, as the liveness property is the run's expensive part.
* Two requests of `friends` are two acceptances, one in each direction, or an
  acceptance and a removal, with other saves of the accounts in between.
* Cap 2 with three accounts makes a call full; two connections of one account
  exercise the replaced entry and the "other connections" branch. A call for 2
  among 3 pages (`video`) has refusals and a place that comes free; a call for
  all three, which has two connections of one page at a time, was explored with
  the same result (10.6 million states, too long to be a run that one repeats).
* Two calls (`call`) are one in each direction, at once or one after the other,
  so that a message of the first can arrive in the second.
* Two messages and two turns (`chat`) have a load that overtakes an event, and
  one that is overtaken. The events of one room come in one order, so a third
  message meets nothing that the second does not.
* One loss (`call`) is a reload or any one message: two that go missing in one
  call end it at two places, which the theorems cover for any number.
* Two calls of one tab (`client`) are one that starts the refresh and one that
  joins it, at any of its steps. One loss leaves one handler at the server, which
  the next refresh of the page, with the same token, can overlap at every await.

`CHECK_DEADLOCK FALSE` is in every configuration but that of `friends`, because
the bounds of the models (tokens, versions, messages, connections that are used
once) let the model stop where the program would go on, and since a deleted room
is the end of its story. `friends` has no bound of its own.

## 5. Fairness and proofs

### Fairness

`RefreshTokens!LiveSpec` has weak fairness of `Continue(r)` for each request:
MongoDB answers a query and Node runs the continuation. It includes `Restart`:
a server that stops between the two writes of the reuse path does leave the
family valid, so `ReuseEndsFamily` excepts a request that was lost in a stop. No
fairness is assumed of clients, of time, or of the clean-up jobs.

`ClientSession!LiveSpec` has weak fairness of every step of a call and of a
refresh: the server answers or the connection fails, the timers fire, the
browser runs the continuation. No fairness is assumed of users, of time, and of a
handler that nobody waits for.

`Realtime!LiveSpec` has weak fairness of what follows an await of each
connection, and includes `Restart`, which empties the registry anyway. No
fairness is assumed of connections: they may stay open for ever.

`DeadlineReminders!RemindersLiveSpec` has weak fairness of `Work(w)` of each server: the
job's interval fires and what the worker awaits is answered. Notifications fail
and servers stop only `MaxFaults` times; with a failure every time nobody would
be reminded, and the code promises no more. Nothing is assumed of users, nor that
a date nears or passes.

The other modules have no fairness: their properties are about what is so
whenever nothing is under way, which needs none.

### What is proved

The constants are assumed only what the named `ASSUME` of each module says: sets
are finite where cardinalities are taken, limits are natural numbers and positive
where the code's are (at least two for attempts at a password and members of a
room), "none" values are not members. The number of requests, sessions,
connections, accounts, and all limits are arbitrary.

Each proof has the same shape: an inductive invariant in named parts, a lemma for
the initial state and one for every action or group of actions that can disturb
it, and the theorems by `PTL` from these. The parts are defined in the module of
proofs, with a comment on what each says.

* **RefreshTokens** (`RefreshTokens_proofs`): `TypeCorrect`,
  `CurrentTokenIsFreshProved`, `HistoryBoundedProved`, `RevocationIsFinalProved`.
  `TypeOK` is inductive only with `Shape` (a document that is not stored is
  empty; a rotating request has read generated tokens). Freshness needs to know
  that a token is generated with a number no document has seen, and that the
  token a request pushes to a history cannot be current anywhere but where it
  was read. The bound of the history needs a count: the requests that may still
  append, because they read a history with room, plus what is stored, never
  exceed the bound.
* **Account** (`Account_proofs`): `TypeCorrect`, `RecentPasswordsDifferProved`,
  `ReplacedIsRememberedProved`, `ResetLinkOnceProved`. The argument is the
  soundness of the optimistic lock. `UpToDate` says what a job knows as long as
  the revision it has read is still stored: the stored history is the one it read,
  the new password is none of the recent ones, and the link it uses is unused.
  Every action that changes one of these raises the revision, so a job that has
  fallen behind never catches up. `JobOK` says so of every job, and a save is
  accepted only from one that is up to date. `AtomicChangesProved` is the
  refinement of `CredentialPolicy`: `RememberedIsLatest` shows that the loop of
  the hook computes the abstract history, `FirstUse` that an accepted reset has
  an unused link, and `StepImplements` maps every step to a step or a stutter.
* **SignIn** (`SignIn_proofs`): `TypeCorrect`, `OneWayInProved`,
  `EndedPasswordIsLateProved`, `GuessesBoundedProved`. `JobOK` says what each request rests on at each of
  its steps: one that will make a session after a login has read a verified
  account with a password, one of Google an account that Google made; how an
  account was made and that it is verified does not change. For the second
  theorem, `EndingInv` says that as long as a change has revoked the sessions and
  its save will still be accepted (`Ending`), every session by a password, and
  every request that is about to make one, is late; so that when the save ends
  the password, what rests on it is marked. For the third theorem the counter of
  the code is worth little, as each request decides by the count it has read.
  What bounds the guesses is what is still to come (`GuessInv`): requests that
  have read a lock which had expired (each can open the account again and start
  the count anew, once), those whose copy reaches the limit (each locks) or does
  not (each counts), those that are not under way, and what the stored count
  leaves. The limit is assumed to be two at least (it is five): with one, the first
  wrong password would lock already.
* **RoomMembership** (`RoomMembership_proofs`): `TypeCorrect`,
  `CapacityKeptProved`, `OwnerKeepsItsPlaceProved`, `OwnerProgressCappedProved`,
  `OwnerFlagUntouchedProved`. Here the optimistic lock is *unsound* (leaving does
  not raise the version), and what saves the owner is the position: `Aim` says
  that no toggle aims at position 1 and that every position aimed at is within
  the capacity, so that a stale save can neither hit the owner's flag nor make
  the list too long. `Fresh` says that for a progress save to position 1 the lock
  does work: if its version is still the stored one, so is the progress it read,
  as only versioned saves write the owner's progress.
* **RoomVideo** (in `RoomMembership_proofs`): `VideoTypeCorrect`,
  `ShownIsInProved`, `MeshIsCompleteProved`, `RoomCameraOffProved`. `Sound` is what
  a page is by itself: camera with the call, no connection outside it. `Lined`:
  what it has sent the server is in such an order that the server ends up with
  what the page shows. The rest is about two pages. `Clear`: until it is let in, a
  page has no connection of the present call. `Knows`: whom it is connected with is
  in the call, or it will be told otherwise. `Hears`: to be told that somebody has
  left who is back is never the last word. `Meshed`: two pages that are in, and not
  crossed, are in one of four phases of a handshake, announced, offered, answered, agreed, with
  exactly the messages under way which that phase has, and every step moves to the
  next phase. When nothing is under way only `Agreed` is left, which is
  `MeshIsComplete`. The queues are described by what they hold of one page, so
  that the mail of others does not matter.
* **RoomContent** (`RoomContent_proofs`): `TypeCorrect`, `OrphanIsLateProved`,
  `ErasedAuthorIsLateProved`. `SweptLate` and `ErasedLate` are the two claims
  before the room or the account is gone: of a kind that was deleted, what is
  stored is late. `Progress` says what each step of a deletion has deleted so far
  (`kinds` of `deleteRoom`, the order of `deleteAccount`), and `RoomGone` and
  `AccountGone` that at the end it was everything.
* **DeadlineReminders** (in `RoomContent_proofs`): `RemindersTypeCorrect`,
  `MarkedWasNotifiedProved`. `MarksInv` adds that a worker about to mark a task
  has a notification of it stored. Notifications are never taken back, nothing
  else sets the mark, and a mark is stored only with a document that still is.
* **Friendship** (`Contacts_proofs`): `FriendshipTypeCorrect`,
  `FriendsAreMutualProved`, `NoticeAsksForAnswerProved`, `OneWaitsProved`, for any
  number of accounts. Friends are mutual by the order of the two saves: `Knows`
  says for each step of an acceptance or a removal what the two lists hold,
  whatever the copies were, and that requests which work on the same two accounts
  at the same time do the same thing (`MutualInv`), unless the two are `torn`. How
  often an account may be in a list is a count (`ListsInv`): what is there, and the requests
  that found it missing and have not saved yet, are no more than the requests.
  `NoticeInv` finds for each notification without a pending request the handler
  that will take it out, and `SendInv` says that two requests in opposite
  directions that are about to be stored are noted in `both`.
* **DirectChat** (`Contacts_proofs`): `ChatTypeCorrect`, `NoneTwiceProved`,
  `NothingElseMissedProved`, `TicksAreTrueProved`, `ShownIsReadProved`, for any
  number of messages and turns. `StoredInv`: a message is stored once, and its
  event comes later. `ShownInv`: what is shown, and what every load still brings,
  has each message once and a tick only where it is true. `FoundInv`: a stored
  message is shown, coming, or noted as missed, also for a load whose answer is
  under way. `TickInv`: while an event "messages read" is to come, what the account
  has stored is read or noted as ahead. `SeenInv`: in an open chat the friend's
  messages are read, about to be marked, noted as `unmarked`, or coming, where
  coming ends with the event or with its failure: a message that stays stored and
  is never told is `missed`.
* **Realtime** (`Realtime_proofs`): `TypeCorrect`, `CapKeptProved`,
  `NoEmptyCallProved`, `EntryAccountedForProved`. The invariant joins the four;
  `EntryAccountedFor` carries the others through the disconnect handler, which
  removes an account's entry whichever connection made it.
* **DirectCall** (in `Realtime_proofs`): `CallTypeCorrect`, `CameraOffProved`,
  `CallHasConnectionProved`, `CandidatesArriveProved`, `NobodyTalksAloneProved`, for
  any number of accounts and calls. `CallTypes` includes the order of the queues:
  an offer comes from another page, and behind a description is its candidate.
  `NumbersInv`: each call is placed by one page, and nothing of it is around before
  it is offered, so that an answer with the number of a call finds the page that
  has placed it. `Sound` is a page that was not overtaken: it has one flow, and its
  state, its stream, its connection and the camera are those of that flow's step
  (`InStep`). `Keeps` says where the candidate of a ringing offer, or of the other
  end, is: with the page, given to the connection, on its way, or `lost`. As any
  message may be lost (`LoseKeeps`), no part of the invariant says that one comes:
  they only say what is so if it does.
* **ClientSession** (`ClientSession_proofs`), in three parts, for any number of
  calls, tokens, sessions and losses. `Inv` adds to the types that every token
  anybody has was issued, that a session has only its own tokens, its current one
  not among those it replaced (`Known`), that there are tokens left for the saves
  that have begun (`RoomKept`, needed for the bound of the model only), and that a
  handler alone is one of a loss that has happened (`LostGood`): `TypeCorrect`.
  `Core` is about any number of tabs and gives `UnauthorizedIsDefinitiveProved`.
  In a login that is not `forked` no save finds another token current than the one
  its handler has read, so none of its tokens is ever forgotten (`Remembered`); a
  token that was just saved is current when it is looked up (`ReplyCurrent`), which
  rests on its being known to nobody but its handler before it is answered
  (`Unshared`); every token is one of a session that exists (`Existing`); so a token
  that is rejected is one of a session that has ended (`RejectedIsEnded`). With an
  overlap the second save loses the token of the first, and the conclusion with it.
  `Undisturbed` is about one tab (`ASSUME OneTab`), as long as no answer was lost
  and no page left a refresh behind: nobody else rotates, what the browser keeps is
  current or about to be replaced (`KeptCurrent`), so what it sends is current
  (`SentCurrent`, `FlightCurrent`), and a current token is not a replaced one; that
  is `ReuseMeansTheftProved`. It needs that a login which is answered but not yet
  taken has a session of its own (`PendingApart`), and that a page without stored
  tokens has no user (`SignedOut`), for otherwise `updateUser` could write back
  tokens of its state. A refresh that an exception has ended may have saved; what the browser keeps then
  is a replaced token, but the page drops it in the step in which it takes that
  answer (`Broken`), before anything else can send it.

### What is only model-checked

The four liveness properties (`ReuseEndsFamily`, `DeadEntryGoes`,
`EveryCallSettles`, `ReminderComes`): reasoning under fairness is beyond the prover
used here. And `ReuseMeansTheft` with more than one
tab, where it does not hold: if one tab's refresh is saved but takes more than thirty
seconds to be answered, the other tab sends the token it has replaced.

## 6. What the code does otherwise

### Stated by the code or its documents, and false

Each of these is defined in its module, with the sentence it comes from, and is
in no configuration because it fails: put in place of the properties of the
module's `.cfg`, TLC shows a trace.

1. `ClientSession!ValidSessionKept` (with `Tab = {t1, t2}`, `Slot = {s1}`, no lost
   answer, no rate limit): a browser restores
   two tabs after the access token has lapsed. Both verify the session, both are
   told 401, both send the same refresh token. The second is told
   AUTH_ROTATION_RACE while the first has not yet stored its answer, tries again
   with the old token (`client.js:132`), has no further try, and `verifySession`
   (`AuthContext.jsx:35`) logs both tabs out of a session that is valid.
   `tokenService.js:64` means to allow exactly this race.
2. `RoomMembership!OneEntryPerMember`: `joinRoom`'s "Atomic update"
   (`roomController.js:151`) has the capacity in its condition but not the absence
   of the account. Two joins of one account take two places.
3. `RoomMembership!AdminOnlyByToggle`: the position saved by `toggleRoomAdmin`
   (`roomController.js:349`), by `assignRole` (`taskController.js:206`) and by
   `updateProgress` is stale after a departure, because `$pull` does not raise
   `__v`. The flag, role or progress goes to a neighbour. What is proved is that
   the flag never goes to, or is taken from, the owner.
4. `Realtime!ConnectedIsOnline`: the check "has other active connections"
   (`socket.js:258`) precedes an awaited write; a reconnection in between leaves a
   connected account marked offline until its next connection.
5. `Account!ChangeRevokesTokens`: the hook computes `tokenVersion` from the copy
   (`User.js:257`). With `logoutAllDevices` in between, the change stores the
   version that is there already. `resetPassword` and the administrator's handlers
   (`authController.js:654`, `adminController.js:61`, `101`) never select the
   version, so they always store 1.
6. `SignIn!SessionsEndWithPassword`: `changePassword` revokes access tokens
   (through the version) but no session; `docs/DATA_RETENTION.md:29` says "All
   sessions are immediately invalidated upon password change". `resetPassword`
   and `updateUserProfile` do revoke them, except one that is opened meanwhile
   (`EndedPasswordIsLate` says that there is no other).
7. `DeadlineReminders!MarkedForThisDate`: "Reset reminder if due date changed"
   (`taskController.js:103`) assigns `reminderSent`, but the save sends it only if
   the copy was marked. If the worker has sent a reminder and not saved its mark
   yet (`deadlineWorker.js:47`), the new date is stored, then the mark, and nobody
   is reminded of the new date.
8. `ClientSession!OnlyRejectionIsDefinitive`: "Only emit UNAUTHORIZED for
   definitive server rejections (expired/revoked session)" (`client.js:138`). The
   client takes every 401 but that of a race for one, and `refreshAccessToken`
   answers 401 to any exception (`authController.js:298-307`: a query that fails, a
   save that is refused): a page then declares a valid session dead and clears
   localStorage, with nothing revoked. The same happens when two rotations of the
   session overlap, which takes no second tab: a refresh whose connection was lost,
   or whose page was loaded again, goes on at the server; the page sends the same
   token again, both handlers find it current and save, and the one whose token was
   replaced finds no document with it (`authController.js:286`) and ends in the
   same `catch`. `UnauthorizedIsDefinitive` says that there is no third way.

### What the exceptions in the properties stand for

* **Content.** A message, task or resource whose room was checked before
  `deleteRoom` and that is stored after it stays for ever. `deleteAccount` removes
  the messages of the rooms it deletes, but not the tasks and resources that
  others made in them, nor notifications, records and bug reports of the account;
  `deleteRoom` removes all three kinds. An account's item that is stored after
  its kind was deleted has an author who is gone. `claimTask`
  (`taskController.js:164`) decides "claim" or "release" on a copy: of two members
  who click at once the second may release the first one's claim.
* **Friends.** An acceptance that overlaps a removal, a refused save, or a stop
  between the two saves (`torn`) leaves a friendship in one list. An acceptance
  that fails after the request was saved cannot be repeated: the request is
  "accepted" and the accounts are no friends, and as there is one document per
  direction for ever (`FriendRequest.js:23` says "Ensure only one pending request
  between two users", the index has no status), that direction can never ask
  again. Declining does not ask whether the request is pending: it turns an
  accepted one to "declined", with the friendship kept. Requests sent in both
  directions at once (`both`) are both pending; accepting both makes two rooms
  for direct messages.
* **Chats.** `missed`: the events of a room reach a page only while its chat is
  open, and a history that was loaded once is not loaded again
  (`FriendsModal.jsx`), so what the friend writes while the chat is closed, or
  after a reconnection (nobody joins the room again), is not shown until the modal
  is opened anew. The answer to a load replaces a message that came meanwhile. A message whose
  sender is not found after it was stored, or before whose event the server stops
  (`messageController.js:96`), is told to nobody and is found by the next load.
  `unmarked`: a request to mark messages as read that fails is swallowed
  (`FriendsModal.jsx:309`, `365`), so the friend sees no tick until the chat is
  entered again or another message comes.
  `m._id === savedMsg._id` compares two absent fields, so a message one has sent
  appears only when its event comes. `ahead`: "messages read" ticks all that is
  shown, also what was stored after the update it tells of.
* **Calls.** `cut`: hanging up or declining while the browser still asks for the
  camera ends the call but not the flow; the camera goes on afterwards and stays
  on, and the other account is called by a page that shows nothing. Accepting
  twice makes two connections. The events name no call, so the answer or the
  hang-up of one call can arrive in the next. The refs are updated after
  rendering, so an event in between goes by the old state. A call that is not
  answered rings for ever. `lost`: what is emitted to an account whose socket connects
  again is gone, and nothing is repeated (`socket.js:146-187`): an offer that is lost
  leaves the caller calling, a lost answer leaves one page in the call and the other
  calling, a lost end leaves the other page in it until the connection fails, and a
  lost candidate may keep two connections that know each other's descriptions from
  finding a way.
* **Video of a room.** `astray`: `handleFull` (`useRoomVideo.js:308`) sets
  `inCall` without the clean-up, so camera and connections stay on, and a place
  that comes free is not noticed; a second click on "join" while the browser
  asks leaves a camera nobody can switch off; so does an answer that comes when
  the tab was left, which also puts the account into the call without a page;
  after a lost socket the page shows a call that the server has removed it from.
  `crossed`: offers and answers do not say to which join they belong, so a quick
  leave and re-join can pair a connection with the description of an old one.
* **Signing in.** Wrong passwords tried at the same time all decide by the count
  they have read, so the lock comes late; one that has read an expired lock
  removes a fresh one (`User.js:184`); a right password that was compared before
  the lock resets it. `GuessesBounded` says how far that goes.
* **Reuse.** A stop between the two writes of the reuse path leaves the family
  valid, and the request is not repeated.

### Seen while reading, in no property

* Two refreshes with the same token may also both *find* it current and both
  save. The second save replaces the token that the first has answered, which is
  then in no document, neither current nor replaced: its holder is told
  AUTH_REVOKED, or, before it has been answered, AUTH_INVALID. `RefreshTokens` and
  `ClientSession` (`forked`) have this behaviour; `tokenService.js:118` calls the
  step "Strictly ordered to prevent race conditions".
* A lost answer to a refresh leaves the browser with a replaced token. The client
  says "Session preserved" (`client.js:152`), but when it uses that token more
  than thirty seconds later every session of the account is revoked.
  `ReuseMeansTheft` says that, with one tab, this and a page that is loaded again
  during a refresh are the only ways.
* A page that is loaded while the refresh is rate-limited (429) tries again with
  the lapsed access token and logs out (`client.js:129`, `AuthContext.jsx:35`).
* `logout` tests the refresh token "BEFORE clearing storage so the server logout
  can still revoke the session" (`AuthContext.jsx:48`), but does not send it:
  `authApi.logout` reads localStorage after that was cleared. Where the cookie is
  blocked, a logout revokes nothing (`ServeLogout`).
* `ROOM_CLEANUP` looks for rooms without members. `OwnerKeepsItsPlace`, which is
  proved, says that there are none: the job never deletes anything.
* `docs/DATA_RETENTION.md:20` says that the login of a deactivated account is
  blocked; `loginUser` does not look at `isActive`. A verification link that has
  expired is never sent again. A new address of a profile is kept in
  `pendingEmail` and applied by nobody. Login, reset and change of an account
  that Google made compare with a password that is not there, and answer 500.
* The history of a room's chat is always empty: `messagesApi.getAll` returns an
  object where `ChatTab` expects a list; its handler of new messages does not
  look at their room.
* `BoardTab` listens to events of the window that nobody dispatches
  (`BoardTab.jsx:330`); `member_updated` and `resource_*` events have no listener.
  A task that is claimed stays in its column of the board.
* `useRooms` takes a member who left one room out of *all* rooms, puts who joined
  any room into the one that is open, and builds the room it joins from the copy
  in the list, whatever came meanwhile.
* `startSession` ("Prevent multiple active sessions (Race condition prevention)",
  `studySessionController.js:15`) looks and creates in two steps: two starts at
  once make two active sessions. `getStats` may store a sum it computed before a
  session ended after that end has invalidated the cache, for five minutes.

## 7. Not modelled, and what could follow

* **Study sessions and the cache of statistics, the cache of the room list.**
  Independent documents of one account with a cached sum, and a listing that
  lives for a while. What can go wrong takes two requests and one step each, and
  is told above; nothing else in the system reads what they hold.
* **`useRooms` and `BoardTab`.** Views of what the events of a room tell. As the
  events name no room and some are never dispatched, the views differ from the
  server in ways that no useful property survives; section 6 lists them.
* **The relay of `send_message`** (`socket.js`), a second way to create a message
  that no page uses.
* **Mute, camera and screen switches** of both kinds of calls, and the candidates
  of the room's call: they change a track of a connection that stays what it is.
* **Profile fields, two-factor fields, export of data**: written by one account
  from one form, each field by itself.
* **To-dos, records, bug reports, AI proxy, administrator's statistics**: no two
  actors meet.
* **Rate limiter, captcha, CSRF, validation**: filters before the handlers; their
  state belongs to a library. Where a filter decides what a client sees, its
  answer is an alternative of the model (`MayLimit` in `ClientSession`).
* **The user interface, build and deployment.**

What would add most from here: the refinement between the `Refresh…` steps of
`ClientSession` and `RefreshTokens`; `DirectChat` with the page of the other friend
in place of an environment; and the study sessions with their cache.
