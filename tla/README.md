# lesser, verified

TLA+ models of the back end of *lesser*, a social network of Go microservices
(`service/*`, one PostgreSQL database, Redis, RabbitMQ, gRPC between the
services), TLC runs that check them on small instances, and TLAPS proofs that
carry what these runs show of safety over to any number of users, contents,
requests, messages and failures. Paths below are relative to the repository; those without a directory
are under `service/`.

## 1. Inventory

| component | state | operations | talks to | what is hard |
|---|---|---|---|---|
| **Interaction** (`interaction`) | rows of `likes`, `bookmarks`, `reposts` | Like, Bookmark, CreateRepost and their undoing | Content by RPC (existence, author, counters); publishes `content.liked` ... | row and counter are written by two services with nothing between them; retries of a delta; overtaking |
| **Content** (`content`) | contents with status and counters | Create, Update, PublishDraft, Delete, PinContent, UpdateCounter, look-ups | called by all; publishes `content.*` | read, then write back every field; counters of a deleted content |
| **RPC client** (`pkg/grpc/client`) | connections | retry interceptor, pool | every service | retries calls that are not idempotent |
| **User relationships** (`user`) | `follows`, `follow_requests`, `blocks`, counters of `users` | Follow, Unfollow, Block, Unblock, private accounts | publishes `user.followed` | checks outside of transactions, unused transactions, row locks, pool |
| **PostgreSQL access** (`pkg/db`) | connections, transactions | WithTransaction | every service | a second connection asked for while one is held |
| **Comment** (`comment`) | `comments`, `comment_likes`, `reply_count`, `like_count` | CreateComment, DeleteComment, LikeComment, UnlikeComment | Content by RPC (existence, `comment_count`); publishes | deletions and likes at once, dropped errors |
| **Publisher, worker** (`pkg/mq`) | connection, consumers, unacknowledged messages | PublishAsync; Start, consume, reconnect, Stop | RabbitMQ | lost connections, redelivery, cancelled contexts, giving up |
| **Notification** (`notification`) | rows of `notifications` | one handler per event, Create, marks as read | consumes the events above | check and insert are two statements, at-least-once delivery |
| **Search worker** (`search`) | `search_vector` of the contents | index, update, delete | consumes `content.*` from three queues | events in any order, errors that are swallowed |
| **Chat** (`chat`) | conversations, messages, `last_read_at`; unread counts in Redis | SendMessage, GetUnreadCounts, MarkAsRead, MarkMessageAsRead, CreateConversation | PostgreSQL, Redis | a cache filled, incremented and reset by several commands each |
| Chat streams (`chat`) | a stream per user | connect, broadcast, disconnect | clients | replaced streams |
| **Channel** (`channel`) | channels, admins, subscriptions, posts, two counts | the life of a channel, AddAdmin, Subscribe, PublishPost, DeletePost | PostgreSQL | no transactions, rights read before the write |
| **Auth** (`auth`) | bans and their cache, failed logins, signing keys | Login, RefreshToken, BanUser, CheckBanned, rotateKey | PostgreSQL, Redis, Gateway | a stale cache hiding a ban, a lock without an expiry |
| **Superuser bans** (`superuser`) | the same rows of `user_bans` | BanUser, UnbanUser | PostgreSQL | writes what Auth has cached, and does not know of that cache |
| **Gateway** (`gateway`) | the public key, rate limiters | validates tokens, proxies calls | Auth and every service | fetches of the key that overtake each other |
| Timeline, the rest of superuser, clients, generated code | -- | read-only queries, single statements, UI | | |

What makes the modelled components correct:

* *Interaction and Content*: a counter says how many rows there are, up to calls
  in flight and failures; nothing happens to a deleted content; an author hears
  once of what is new.
* *Relationships*: the counters of users are the follows; a block cuts what it
  must and leaving it never hides more; a request that can go on does.
* *Content life cycle*: what is published is complete, is announced once and only when found
  public, and is what the search index shows once its events have arrived; a draft is in no
  index; a deleted content stays deleted.
* *Comment*: the reply count, and the like count as if each like were atomic;
  the comment count no lower than the comments; no event without a commit.
* *Events and notifications*: an event the broker took is in one place until it
  is acknowledged, is acknowledged only when told, and is told in the end.
* *Chat*: the cached count of unread messages is the number of them, unless
  requests met on the key; what was read stays read; a pair has one private
  conversation.
* *Access*: who is banned is not let in and stays banned while the ban lasts; a
  lock after failed logins ends; a token of the signing key is accepted.
* *Channel*: counts are off by no more than failures explain; only those act who
  were entitled to while they asked; a deleted channel takes nothing new.

## 2. Modules

| module | models | main correspondence |
|---|---|---|
| `Interaction` | `interaction/internal/logic/interaction_service.go`, the RPC client and `content_data_access.go` UpdateCounter | one action per statement or RPC of a handler: `CheckContentExists`, `InsertRow`, `FetchExisting` (a repost read back), `DeleteRow`, `UpdateCounter`, `PublishEvent`; `UpdateCounterFails` is an attempt that fails before or after the server executed it, and the interceptor's retry |
| `Relationship` | `user/internal/logic/user_service.go`, `pkg/db/postgres.go` | one action per statement; `InTx` are the requests with a connection, `RowLock` and `UserLock` the row locks a transaction holds to its end; effects of a transaction appear at `Commit`; Block's statements are seen at once, each of them, as the transaction it opens is not used |
| `LikeCounter` | what LikeComment and UnlikeComment promise | a like and its count move in one step |
| `Delivery` | what publisher, broker, worker and handler promise of an event | taken or given up at the start; once taken, its notices are written and it is settled, once; it is never lost |
| `ContentLife` | what becomes of a content | a status that never goes back, an announcement owed by whoever makes it public and told once, or given up; in the index only what was public |
| `Comment` | `comment/internal/logic`, `comment/internal/data_access` | one action per statement up to a transaction and one for it; `committed` remembers what was written, for the events |
| `Notification` | `pkg/mq/worker.go`, `pkg/mq/publisher.go`, `notification/internal` | one consumer per queue and connection; `Watch`, `Connect`, `StartConsumer`, `Reconnected` are reconnect, step by step; the handler is `CheckDuplicate`, `Insert`, `Settle` |
| `Content` | `content/internal/logic/content_service.go`, `content_data_access.go`, `search/internal` | one action per statement: `InsertRow`, `Read`, `UpdateRow`, `PublishRow`, `DeleteRow`, `SetPinned`, `Reread`; an event published is in a set until `Consume`, a handler of the search worker, takes it, in any order and perhaps again (`EventFault`) |
| `Chat` | `chat/internal/logic/chat_service.go`, `unread_cache.go`, the data access they use | one action per statement or Redis command; WATCH is the set `dirty` of requests whose key was written since; `Expire` is the TTL |
| `Access` | `auth/internal/logic/auth_service.go`, `ban_data_access.go`, `ban_cache.go`, key rotation; `superuser/internal/data_access/user_data_access.go`; `gateway/internal/auth/jwt.go` | one action per statement, command or RPC; `BanEnds`, `BanCacheExpires`, `FailuresExpire` and `Rotate` are time |
| `Channel` | `channel/internal/logic/channel_service.go` and its data access | one action per statement; the service has no transaction |
| `MC*` | -- | the instances for TLC |
| `*Proofs` | -- | the theorems about the module of that name, one for each but the three abstract ones |

Three modules are abstract specifications. `Comment` instantiates `LikeCounter`,
`Notification` `Delivery` and `Content` `ContentLife`, each with expressions over its
own variables for those of the abstract one; that the detailed specification
implements the abstract one is a property of a run and a theorem.
`Content` composes the content service with the search worker, `Access` the auth
service with the gateway. `Interaction` and `Comment` contain the part of the
Content service they drive; `Notification` starts where these publish: its messages are their events.

In every module a request is served at most once, so the set `Requests` bounds a
behaviour; `MaxFaults` bounds what fails, and each failure is an action of its
own: an error of a statement or RPC, a lost answer of one that was executed, a
handler that dies. Definitions whose names end in `Bug` are what the
definition after them would be with a mistake in it; no specification uses
them. Each is there for one property, which the specification with the mistake
violates.

What is abstracted: ids and texts are model values or members of small sets, times are left out or
the order of events, an event
is the sequence of notifications its handler makes of it, the delays of
reconnection and retry are left out (any step may take any time). RabbitMQ and
PostgreSQL are modelled by how the code relies on them: a queue with
acknowledgements that returns what a lost connection held to its head; read
committed, row locks until the end of a transaction, unique constraints, one
transaction of a ring of waiting ones aborted.

## 3. Runs

| run | bounds | shows |
|---|---|---|
| `interaction` | 2 users, one of them the author, 1 content, likes and reposts, 3 requests, 2 failures, 1 retry | `UndercountBoundedByFaults`, `DriftBoundedWhenSerial`, `EventsOnlyForNewInteractions`, `DeletedContentFrozen` |
| `relationship` | 2 users in any initial relation, 2 requests, 1 failure, pool of 2 | `CountersExactWhenSerial`, `BlockedDoNotFollow`, `EventsOnlyForNewFollows`, `UnblockNeverHidesMore`, `NothingElseDelays`, `StuckOnlyOnPool` |
| `relationship_twice` | two Follows, no failure | **refutes** `FollowIsIdempotent` |
| `relationship_tx` | Follow, Unfollow and Block, 1 failure | **refutes** `FailedBlockIsNotHalfDone` |
| `comment` | 3 requests, 1 failure, 1 retry; a comment and a reply exist | `ReplyCountExact`, `CommentCountNotTooLow`, `EventsOnlyForCommitted`, refinement `LikesAreAtomic` |
| `notification` | 3 events in 2 queues, 2 more connections, 1 loss, 1 failure or restart | `ExactlyOnePlace`, `OnceUnlessOrphaned`, refinement `AtLeastOnce` |
| `notification_live` | no loss, 2 failures or restarts, one event that can never be stored | `EventuallyNotified`, under fairness |
| `notification_resume` | 1 loss and nothing else | **refutes** `ResumesAfterReconnect` |
| `chat` | 3 members of whom one has sent a message, an outsider, 3 requests, 2 new messages, 1 failure | `CountExactWhenAlone`, `ReadStaysRead`, `PrivateConversationUnique` |
| `content` | no content yet, an article in draft without a title, or a story; 4 requests, 1 failure | `PublishedComplete`, `IndexExactWhenAlone`, `DeletedIsFinal`, refinement `LifeInOrder` |
| `access` | an old ban or none, 3 requests, a lock after 2 failures (5 in the code), 2 signing keys, 1 failure | `BansTakeHold`, `BansStand`, `FailuresFade`, `CurrentTokenAccepted` |
| `channel` | owner, an admin, a subscriber; an old post; 3 requests, 2 failures | `CountsAccountedFor`, `OnlyAdminsAct`, `DeletedTakesNothing` |

Why the bounds are enough. A row has one owner and one counter cell, so three
requests give every way in which two requests on a row and one that comes
between them overlap; two failures allow a retried call and a second mishap; a
second kind is there because reposts are read back and drop errors. Two users
make every direction of a follow or a block and the ring of locks, two requests
every race on a pair, and a pool of two is the smallest that one Block fits in
and two exhaust (the code's is 25). A message that is in the hands of an old
connection's consumer and delivered again on a new one needs two connections;
the third is for a restart on top of it. All runs stop when every request is
served and every event handled, so deadlock is not an error in them;
`NothingElseDelays`, `StuckOnlyOnPool` and the liveness run say what must not get
stuck before.

`content` needs four requests: two Updates and a PublishDraft that overlap after
a Create, or on a draft, are the smallest way to lose a title. In `chat` a send
meets a fill and a mark as read on one member's key, with a second member beside
it. In `access` two bans and a check that cleans up, or two failed logins and a
right one, or two fetches around a rotation take three requests; bans and keys
share no state, so the run's constraint (`KeysMoveForTheirUsers`) follows requests
that all concern bans with one key known to all. A rotation or a first fetch
beside them changes nothing they read; it is followed in the behaviours where a
request that uses a key comes first. In `channel` any two operations overlap and a third comes before,
between or after them.

Some properties except what the code leaves open, by ghosts that say what met
what: `unclean` requests met a rival on the same key or row or had a failure,
`crossed` says that two Updates overlapped, `raced` that requests or their events
did; they are set by the overlap, never by its outcome. `clamped` says that
GREATEST has kept a count at zero. `stale` in `Access` says that the cached answer
to CheckBanned may be wrong: an unclean request was at work on it, or a superuser
banned while the answer was "free", or lifted a ban while it was "banned". It ends
when the answer expires while nobody is at work on it, or a BanUser of the auth service, which deletes the
answer, has run without meeting anyone.

Symmetry is used between requests and, in `MCRelationship`, between users, and
not in a run with fairness.

**Fairness** (`FairSpec` of `Notification`) is weak fairness of each consumer
goroutine and of the reconnecting goroutine: the Go scheduler runs what can run
and the broker delivers to a consumer that is idle. Nothing is assumed of
publishers, of readers, or of failures, except that there are finitely many. A
`Connect` that stays possible happens: the failed dials before it are the
faults. `EventuallyNotified` ends its promise with the first lost connection,
since after it `ResumesAfterReconnect` fails, and it speaks of queues without a
message that can never be handled, which blocks those behind it for ever.

### What the refuted properties say

* `FollowIsIdempotent`. `user_service.go:176` calls Follow idempotent (so does
  `user_service_test.go:72`, a test with a comment for a body); two at once both find no row,
  one inserts it, and both move the counters: the transaction does not look at
  whether `ON CONFLICT DO NOTHING` did anything.
* `FailedBlockIsNotHalfDone`. `user_service.go:364` says that Block uses a
  transaction. Its statements go through `s.blockDA`, `s.followDA` and `s.userDA`,
  which use the pool: a Block that fails leaves the first of its writes behind.
* `ResumesAfterReconnect`. `docs/架构梳理.md:399` says the worker reconnects by
  itself. `reconnect` gives the new consumers a context and cancels it before it
  returns; their handlers query with it, fail, and requeue for ever. It is stated for
  queues all of whose messages can be handled, so the cancelled context is what
  refutes it: with that line of `Reconnected` taken out it holds on the same instance.

### What else the models reach

These are behaviours of the code the models contain, which the properties above
therefore except or bound:

* *Interaction.* `interaction_service.go:135` (and `:224`, `:323`) say that
  undoing what is not there is no error; Unlike then asks Content for the count
  by `UpdateCounter(..., 0)`, an error when the content was deleted.
* *Notification.* `notification_service.go:32` says no notification is created
  twice. A handler whose connection is lost goes on while its message is
  delivered again: both find no duplicate, both insert (`OnceUnlessOrphaned`).
* *Content.* Two Updates and a PublishDraft that overlap leave an article
  published without a title (`crossed`), which
  `content_service_property_test.go:217` excludes for calls one after the other.
  Update always overwrites `comments_disabled`. SetPinned and IndexContent look
  at no status, so a deleted content may be pinned. IndexContent drops its error
  as long as the row exists. SearchContents uses ILIKE, not the `search_vector`
  the worker maintains, and nothing writes `content_embeddings`.
* *Chat.* A fill between the INSERT of a message and its increment counts it
  twice; an increment that finds its key watched and written is logged and lost;
  a fill stores a count older than the reset it overlaps; `last_read_at` moves
  back when an older mark as read is written later; a private conversation is
  created again when the look-up of the first one fails.
* *Access.* A ban lifts the one before in a statement of its own, so one that
  fails between the two leaves the user without any. The clean-up of a ban that
  is over deactivates whatever ban the user has by then. The superuser service bans and
  lifts bans in the auth service's table (`user_data_access.go:168`, `:182`) and
  leaves `auth:ban:<user>` alone: without any overlap or failure a user it has
  banned passes, or one it has pardoned is refused, until the cached answer expires
  (5 minutes by default). `BansTakeHold` excepts exactly that (`stale`). It is also the only way
  to lift a ban: no RPC reaches the auth service's UnbanUser. A failure count whose
  EXPIRE is lost locks the account until somebody deletes the key. After a
  rotation GetPublicKey hands out the new key only, whatever the comment on
  `rotateKey` says of the previous one.
* *Channel.* Two UpdateChannels lose one. A count that GREATEST kept at zero
  stays too high. EditPost and PinPost check the rights and change nothing.
* *Comment.* CreateComment does not ask whether the parent belongs to the same
  content (`comment_service.go:114`).

## 4. Proofs

Each theorem is about every value of the constants that the module's named
assumptions admit: any sets of users and requests, any number of failures,
retries and connections. The assumptions say what the constants are (bounds are
naturals, calls are calls, sets are finite where cardinalities are taken); those
that say more are given below with their reason. TLC evaluates all of them on
every instance.

| module | theorem | property |
|---|---|---|
| all eight | `TypeCorrect` | `TypeOK` |
| `InteractionProofs` | `UndercountBounded`, `SerialDriftBounded` | `UndercountBoundedByFaults`, `DriftBoundedWhenSerial` |
| | `EventsOnlyForNew`, `DeletedFrozen` | `EventsOnlyForNewInteractions`, `DeletedContentFrozen` |
| `RelationshipProofs` | `CountersExact`, `BlockedAreCut` | `CountersExactWhenSerial`, `BlockedDoNotFollow` |
| | `NewFollowersTold`, `UnblockReveals` | `EventsOnlyForNewFollows`, `UnblockNeverHidesMore` |
| | `OnlyThePoolStops` | `StuckOnlyOnPool`, the absence of a deadlock on row locks included |
| | `LocksHold` | `LocksProtect`, of the row locks; in no run |
| `CommentProofs` | `LikesRefine` | `LikesAreAtomic`, the refinement of `LikeCounter` |
| | `RepliesExact`, `CountNotTooLow`, `Announced` | `ReplyCountExact`, `CommentCountNotTooLow`, `EventsOnlyForCommitted` |
| `ContentProofs` | `LivesInOrder` | `LifeInOrder`, the refinement of `ContentLife` |
| | `PublishedAreComplete`, `IndexExact`, `DeletedFinal` | `PublishedComplete`, `IndexExactWhenAlone`, `DeletedIsFinal` |
| | `AnnouncedOnce`, `DraftsOut` | `CreatedOnce`, `DraftsStayOut`, that it rests on; in no run |
| `ChatProofs` | `CountExact`, `StaysRead`, `OneConversation` | `CountExactWhenAlone`, `ReadStaysRead`, `PrivateConversationUnique` |
| `ChannelProofs` | `CountsExplained`, `AdminsAct`, `DeletedChannel` | `CountsAccountedFor`, `OnlyAdminsAct`, `DeletedTakesNothing` |
| `AccessProofs` | `BansHold`, `BansStandFirm` | `BansTakeHold`, `BansStand` |
| | `CountsFade`, `TokensAccepted` | `FailuresFade`, `CurrentTokenAccepted` |
| `NotificationProofs` | `DeliversAtLeastOnce` | `AtLeastOnce`, the refinement of `Delivery` |
| | `OnePlace`, `WrittenOnce` | `ExactlyOnePlace`, `OnceUnlessOrphaned` |
| | `NotifiedWhenAcked` | `AckedMeansNotified`, that the refinement rests on; in no run |

The proofs are laid out alike. `CallFits` says which request can be at which
statement; it and `TypeOK` are `Typed`, which every other step relies on. Lemmas
then say what each action changes, a name for each kind of step, and the
invariants are proved from those, so that the definitions of the actions are
expanded in one place. What follows is why each property needs more than itself
to be inductive.

**Interaction.** Neither bound is inductive. A handler's `delta` is what a step
adds to the counter, so one must know that it is 0 until the row is written
(`FreshDelta`): otherwise the step to "count" could add an owed +1 that no row
stands for. And clamping at zero loses a -1 when it overtakes a +1: the upper
bound needs that, on rows without overlap, there is one active request at most
and a request that owes +1 has its row (`SerialRows`). So each +1 in flight has a
holder of its own (`OwingAtMostHolders`), the counter, as the bounds say, is then
large enough for the -1, and nothing is clamped. `IInv` is `TypeOK`, these two
and both bounds together; each needs the other when a call that was executed is
retried. The proof takes a step's effect on the three cardinalities `Drift` is
made of by lemmas (`OwingEnters`, `OwingLeaves`, `HoldersInsert`,
`HoldersDelete`, `ExecutedDelta`), one per kind of step, and `DriftStep` puts
them together action by action. `EventsInv` strengthens the property of events
by what a handler at "notify" has behind it.

**Relationship.** The handlers read outside of the transactions they write in,
so the argument is that a request which met nobody on its pair of users still
finds what it read: `Serial` has `Alone` (of two at work on a pair, the pair is in
`raced`) and `AsRead` (a Follow past its check is not blocked, a row about to be
inserted is not there, one about to be cut is). `BlockedDoNotFollow` allows for a
Block that has not got to the cut; `CutInv` says which Block that is, for every
pair, so that its step to the next statement cannot leave a follow behind.
`CountInv` states each counter as rows, plus decrements a Block still owes, plus
at most one for each Block that failed half-way (`Balanced`).

A request waits for a lock, for a connection, or not at all (`CanGoOn`). The rows
of users are locked in the order a request names them, so two transactions can
wait for each other, or more of them in a circle; that PostgreSQL aborts one of
such a ring is in the model, that whatever waits contains a ring is not. The proof
takes the transactions that all wait at their second user: each of them waits
for another of them (`Closed`). A smallest closed set exists, as there are
finitely many requests, and in it each is waited for, so it is a ring
(`RingFound`): one of them is aborted. At any earlier statement a transaction waits
only for one that is further on, so `TransfersGoOn` holds, and if there are none, no
lock is held, and only Blocks can have exhausted the pool (`StuckOnlyOnPool`). All
of this needs no more than `Typed`. `LocksProtect`, that a lock has one holder and
that nobody undoes what he did before he commits, is inductive with it: a statement that
takes a lock has found it free (`Waited`), Block's deletion included, which takes and
releases its lock in one step. It is a theorem only, for a Block beside an open transaction
never finds a connection in a pool of two, so the run could say little about it.

**Comment.** `CommitInv` ties where a request is to whether it has written.
`LikesCounted`, the like count as the number of likers, is what lets a like or
its removal be a step of `LikeCounter`, and every other action a stutter. For the
other counts one must know which comments the requests hold: `IdInv` says that
creations hold a new comment each, that deletions past their check hold one that
is or was there, and that a comment is dead exactly if a deletion of it
committed. `ReplyCountExact` needs the invariant only for parents none of whose
replies was erased twice, `CommentCountNotTooLow` counts what is owed and what
failed beside it. `OldAssumption` says that the comments there at first have
parents among them, `InfoAssumption` that a comment can be made at all.

**Content.** `StatusInv` says what a request's progress tells of the status. At
most one request has announced or is about to (`OneAnnouncer`), since the second
to publish finds no draft: the statement of PublishDraft has the status in its
WHERE. `CompleteInv` carries completeness from the row to the fields an Update
has merged and not yet written, as long as no two Updates overlap. `IndexInv`
adds that all events on their way tell what the row says. For the
refinement of `ContentLife` the announcement is owed while a request that
announces is about to read the content again, and told once one has found it
public. `OneAnnouncer` then makes owing end in one telling at most, with `ToldDone`
(who has told is through), and `StatusInv` says that what is found by that reading is
not a draft, so it is public. `OldRowsAssumption`: a
content published before the behaviour begins is complete, as a row written by
this service is.

**Chat.** `Typed` here contains facts of other requests: a message about to be
inserted has a stamp of its own (`Stamped`), nobody has read what is not stamped
(`ReadIsSent`), and a key not written since WATCH is as EXISTS saw it (`Watched`).
`Meeting` says that requests that clash know it. `Counting` is the invariant
behind the cached count: while nobody who met a rival is at work on a member's
key, the count is absent, or about to be dropped, or one short of the messages
with a SendMessage owing that one, or exact (`Right`); and what a request holds
between its read and its write is still so (`Holds`). The two need each other: a
fill writes what it holds, and what it holds stays true because the send that
would change it would have met it. It was checked by TLC on the instance of `chat`
before it was proved, as were the invariants of `Notification`.

**Channel.** `Entitlement` follows the rights from the check to the write.
`LifeInv` says that one request creates the channel (`OneCreator`, `BornOnce`), and
that what begins after the deletion gets no further than a look-up or an
Unsubscribe (`LateLeaves`). `CountsInv` bounds both counts from either side, with
`FreshPosts`, since a PublishPost adds a post that was not there; it stops at
the deletion of the channel, as the property does. Posts are named after the
request that makes them, so their set is finite.

**Access.** Bans: at most one ban stands (`OneStanding`, from the unique index),
the cached answer agrees with the table unless it is `stale` (`CacheAgrees`), as a
superuser's ban or pardon may leave it with nobody else there; a ban of the auth service
that met nobody deletes the answer, which repairs it; and
`BanProgress` says at each statement what a request that met nobody relies on:
that the ban it will clean is over, that what it will fill in is so. With it,
`BarredProgress` keeps a request that began under the ban away from the password.
Tokens: between the fetch and the check, the key a clean request has fetched is
the key of its token (`TokenInv`).

**Notification.** A message is in the queue it is routed to or with a consumer of
that queue (`Routed`), once and nowhere else (`Single`); on it rests
`ExactlyOnePlace`, where the step that matters is a lost connection: what its
consumers held goes back to the queues while their handlers go on. A handler has
written the notices before the one it is at, and acknowledges past the last
(`Writing`); rows of a notice never become fewer, which a message acknowledged
long ago relies on. `OnceUnlessOrphaned` needs that two handlers never race on
one notice: at most one open connection has a context that is not cancelled
(`OneConnection`, through every step of reconnecting), and two consumers of one
connection work on different queues. That these write different notices is
`NoticeAssumption`: the type and target by which
`notification_service.go` looks for a duplicate tell the queue, as no two
handlers of `event_worker.go` have both in common.

For the refinement of `Delivery` an event is taken when the broker has it, given up
when the publisher drops it, settled when it is acknowledged. That it stays taken
through lost connections and restarts is `Routed` and `Single` again: what leaves a
consumer's hands is back in its queue or acknowledged. A notice may be written by
a handler whose connection is gone and whose event has been delivered again, or
acknowledged since; it is still a notice of an event that was taken (`Known`) and
one that the event calls for, not of one's own action (`Meant`). That an event is
settled only with all its notices is `AckedMeansNotified`.

**What the proofs changed.** The attempt for `Channel` showed two arms of a CASE
in `Counted` that overlapped, which left the model to the tool's choice of one;
they are disjoint now. The one for `Notification` showed that the model had left
open whether two queues could make the same notice, now an assumption with its
reason. `StuckOnlyOnPool` was stated with ENABLED, which no prover could treat, and said
nothing of transactions that wait while the pool is exhausted: it now speaks of
`CanGoOn`, and `NothingElseDelays` says that
`CanGoOn` is what enables a step. In `Content` an INSERT whose answer is lost takes
effect, as the other statements did before: the row is there and nobody tells of it,
which `ContentLife` has to allow for.

**Model-checked only.** `EventuallyNotified` is liveness under fairness and
`NothingElseDelays` speaks of ENABLED; both are out of the provers' reach. The three
refuted properties are refuted by the counterexamples TLC finds. Every other
property of the runs is a theorem. No module has a recursive operator.

## 5. Not modelled, and the plan

Not modelled for good: Timeline (reads only), Superuser but for its bans (single
statements and an audit log), the Flutter client and the tools, generated protobuf code, deployment files,
configuration, logging, tracing, paging; the distributed lock, which no service
calls; the gateway's ProxyBidirectional and the channel service's BroadcastNewPost
and BroadcastPostDeleted, which have no caller either, so that the channel streams
carry nothing (a goroutine of `subscribeToRedis` outlives a stream that ends by
itself, `stream.go:176`). Generated and client code is most of the repository's
lines.

Left out of modelled components: in Chat, groups and changes of membership (no
RPC reaches AddMember and RemoveMember) and GetUnreadCount for one conversation
(likewise); its tables are those its queries name, `conversations` and
`messages`, where `init.sql` creates `chat_conversations` and `chat_messages`. In
Content, tags, mentions, media and view counts. In Auth, registration, log-out,
password hashes and UnbanUser, which no RPC reaches. In User, profiles, settings and the acceptance of follow
requests. In Channel, the view counts.

Planned, in this order:

1. The chat streams: a user who connects again while the old stream's goroutine
   still answers, and what of a broadcast either of them receives.
2. Shutdown of the worker: two callers of Stop.
3. Proofs: the theorems of what is added by 1 and 2.

Hazards that no property covers yet are in `PROJECT.json` with the reason.
