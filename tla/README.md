# Verification of omni-aws

omni-aws implements the interfaces of the omni libraries on AWS: a secret vault on Secrets Manager and on
Parameter Store, object storage on S3, an agent memory on DynamoDB, mail on SES, a chat model on Bedrock,
and a collector of usage data of the Kiro CLI. There is no server. A provider is a Go value whose methods
any number of goroutines call, and a method is a handful of requests to a service that other processes use
as well. What can go wrong lies between those requests, and that is what the modules here are about; what is
said in a few pure functions (keys, names, conversions, estimates, classes of errors) is checked over all short inputs and
proved for all.

## Inventory

| Component (source) | State | Operations | Shared with | Hard behaviour | Correct when |
|---|---|---|---|---|---|
| Secrets Manager provider (`src/omnivault/secretsmanager`) | `mu` (RWMutex), `closed`; secrets and their versions in the account | Get, Set, Delete, Exists, List, GetVersion, ListVersions, Rotate, Close | goroutines on one Provider (lock), other Providers (account only), rotation functions | Set is two requests; Rotate gives the lock back before its Get; List pages while others write; lost responses, after which the SDK sends again | what a call answers was so at one moment; it takes effect once, a Delete perhaps again; nothing runs after Close; every call returns |
| Parameter Store provider (`src/omnivault/parameterstore`) | the same; parameters and their versions | the same without Rotate | the same | writes that the SDK repeats; a history read page by page, the last of which is marked current; names with the path prefix | as above, where a lost Set may be carried out again as well; the marked version is the newest; names come out as they went in |
| S3 backend (`src/omnistorage/backend/s3/backend.go`) | `closed` under `mu`; writers with a buffer and a closed flag of their own; objects in the bucket | NewWriter, Write, Close of a writer, NewReader, Exists, Stat, Delete, List, Copy, Move, Mkdir, Rmdir, Close | goroutines on one backend or writer, others on the bucket | the lock is held for the look at `closed` only; Move is two requests; Rmdir looks and then deletes; a writer is closed while it is written | no accepted byte is lost; one upload per writer; Move never loses the object; List misses nothing that stayed |
| Keys and ranges of the S3 backend (`fullKey`, `List`, `Mkdir`, `NewReader`) | none | path to key, key to path, prefix to prefix; offset and limit to a Range header | configured prefix | `path.Join` cleans, and drops the slash at the end of a query, `strings.TrimPrefix` does not; the end of a range is a sum of two int64 | a path comes back from List as it was written, and List selects by path; the window asked for is read, or refused when the object ends before it |
| DynamoDB memory provider (`src/omnimemory/dynamodb`) | none; items in the table | Add, Get, Update, Delete, List, Search, Recall | all providers on the table, the service's reaper | stale reads; Update is a read, an embedder call and an unconditional write; pages before filters, in the order of random ids; seconds against nanoseconds | expired memories stay away; embeddings fit contents; List and Search answer from one state, and a memory is passed over for a reason |
| DynamoDB table creation (`NewProvider`, same file) | none; table and its TTL setting | describe, create, wait, enable TTL | every program that starts | several starters, failure or crash half way, a timeout | the table that was made is usable and expires its items |
| Bedrock stream (`src/omnillm/stream.go`) | `currentToolID`, `toolInputParts` | Recv, Close, one handler for each event | the service's stream, the reader goroutine of the SDK, whoever closes | a stream that ends anywhere; Close against a Recv that waits; deltas that name no call | what the caller puts together is what was said, up to some point; a finish reason means all of it; Close releases Recv |
| Bedrock conversion (`src/omnillm/adapter.go`) | none | messages, tools, tool choice and limits to a request; a response to a message | - | tool results between other messages, answers streamed or not | what a request means survives; both kinds of answer say the same |
| SES sender (`src/omnimail`) | default tags; nothing else | New, Send, Classify | callers of one sender, the map the caller keeps, the SDK's attempts | a lost answer makes an attempt that is accepted twice; a context that ends with a request on its way | the right tags on every copy; ok and refusals mean what they say; errors say whether to send again |
| Kiro collector (`src/omnidevx`) | the `seen` map of one Collect | Collect over archives and the live database, events of a conversation | Kiro and an archiver, which write meanwhile | the same conversation in several sources, at different ages; files and rows that cannot be read, files without a time | snapshots are taken from old to new; what was there is reported, or a diagnostic is; numbers add up |
| Facade, configuration, example (`src/omnivault/{aws,providers}.go`, `examples`, `s3/options.go`) | none | constructors, settings | - | none | - |

The components do not call one another, so the modules compose within a component: a provider with its lock
(`GoRWMutex`), with history (`...History`), with what it converts (`S3Keys`, `ParameterNames`, `SESErrors`,
`BedrockConvert`, `KiroConversation`), with what is expected of its results (`KiroReports`), and under the specification of what it promises (`VaultSpec`, `MailSpec`).
The omni core libraries, the AWS SDK, the services, `sync.RWMutex`, the embedder and the clock are outside the
repository and modelled from how the code uses them ("external" in PROJECT.json).

## Modules

| Module | What it is |
|---|---|
| `GoRWMutex` | the reader/writer lock of Go as a record and its operations: announced writer, parked readers, hand-over |
| `VaultSpec` | what a vault promises: what a call answers was so at one moment since it was made, and what it changes it changes then, or before if responses were lost. Two implementations: `SecretsManager` (knows a repeated Set again by its token, versions also appear by rotation) and `ParameterStore` (a lost Set may make another version) |
| `SecretsManager` | the provider, one action per request, and its mapping to `VaultSpec` |
| `SecretsListHistory` | `SecretsManager` with history variables for what a List could have seen |
| `ParameterStore` | the provider, one action per request, and its mapping to `VaultSpec` |
| `ParameterNames` | paths to names and back, as operators |
| `ParameterHistory` | `ParameterStore` with history for List, as above, and the names List reports |
| `S3Backend` | the backend and its writers, one action per request |
| `S3History` | `S3Backend` with history variables for List and Rmdir, and what its paths, keys and ranges have to fulfil |
| `S3Keys` | paths to keys and back, on strings of segments, and ranges, in integers up to `MaxInt64` |
| `DynamoMemory` | the memory provider, a lagging replica and the service's reaper |
| `DynamoHistory` | `DynamoMemory` with the expiry each Add computed and the states a query may have read; what List and Search promise |
| `DynamoTable` | starting several providers on a missing table |
| `BedrockStream` | the service, the reader of the SDK, `converseStream` and a caller who puts chunks together; what its requests have to keep |
| `BedrockConvert` | the conversions of a request and of a response, as operators: loops over messages and blocks are folds |
| `MailSpec` | what a mail sender promises, without attempts and network |
| `SESSender` | New and Send, the SDK's attempts and a network that loses, and its mapping to `MailSpec` |
| `SESErrors` | Classify and parseRetryAfter, as operators |
| `KiroCollector` | one Collect, file by file and row by row, while Kiro and the archiver write |
| `KiroConversation` | the events made of one snapshot, with their estimates, as operators |
| `KiroReports` | what the events of a Collect say, of what it has taken and of any snapshot |
| `...Proofs` | theorems about the module they are named after and the ones that extend it; `DynamoMemoryProofs` holds those of `DynamoTable` as well |
| `Folding` | lemmas: induction over numbers, and what `FoldLeft` computes |
| `MC...` | values for the constants, named in the `.cfg` files |

In the modules of the providers `at[g]` is where goroutine g is in its method, `call[g]` the method and its
arguments, and `res[g]`, `ans[g]` what it is about to be answered. `Invoke` enters a method, `Return` leaves
it; each request to a service is an action of its own, and so is taking a lock or looking at a flag whenever
another goroutine can come in between. Each request may also fail, and **a request that reports a failure may
have been carried out**: responses get lost, and the SDK's retries end. What is local to the
goroutine between two requests belongs to the action before or after.

Some definitions have a neighbour whose name continues theirs (`Wait`, `WaitIgnoringErrors`). Those are
plausible mistakes: the run must fail when the neighbour takes the definition's place (the "mutants" of
PROJECT.json). No specification uses them otherwise.

### SecretsManager

`rw[r]` is the `mu` of Provider r, `closed[r]` its flag, `Home[g]` the Provider that g calls; `secrets`
belongs to the account. A reader goes `rlock` (EnterRead: closed test) -> its requests -> done; a writer
`lock` (AnnounceWriter, EnterWrite: closed test) -> its requests -> done. The deferred unlock is part of
ReturnRead and ReturnWrite. Rotate unlocks by hand: `rotate` -> `relock` (GetAfterRotate asks for the read lock) -> `rlock`
-> `get`. A secret is the set of its version ids; the newest is AWSCURRENT, the two newest are what
ListSecretVersionIds returns unasked. Rotation functions finish at any time, or never. The text of a
secret (JSON of Fields, the `password` field) is left out.

A response may be lost after the service has carried out the request, and the SDK then sends it again, up to `MaxAttempts` times:
`TryAgain`, counted in `tries[g]`. Requests that make a version (`StoreVersion`) carry a token, for which the service knows
them again as long as the version is there (`token[g]` is that version), so nothing is stored twice. DeleteSecret carries
none: `DeleteSecret` is simply carried out again, also over what another Provider has set in between.

`VaultSpec` sees the store, the closed flags, and of every goroutine whether it waits for an answer, and which
it gets. The call takes effect in the step that answers it; the lock steps and the requests before are steps the
vault does not see, except a write whose response is lost: that is `LostWrite`, and `Confirm` the answer of a later try that
finds its version stored.

### ParameterStore

Locks and steps as above; a method is one kind of request. `params[p]` is the sequence of what the versions of p
hold (numbers given out in increasing order), its length the current version number; Delete and Set again
start at 1, so a number may name another value later (`Named`). `TryAgain` is a write that was carried out, whose
response was lost and that the SDK sends again: `LostWrite` of VaultSpec, with `AtLeastOnce` because PutParameter has no token. `HistoryPage` and `ListPage` are one page
each, with the token in `cursor`; `current` is the version that ListVersions marks.

### S3Backend and S3Keys

`Enter` is `checkClosed` with the `ctx.Err` test behind it. It releases the lock before anything else happens, so
Close may follow it at once; Move enters three times (itself, Copy, Delete). A writer's mutex is held
during the upload, which is the state `uploading`; Write and a second Close wait for its end. Contents
are sequences of chunks named after who wrote them. Content type, metadata and hashes are left out.

`S3Keys` keeps strings apart by segments and letters, because the properties are about slashes: `fullKey`
uses `path.Join` when there is a configured prefix and nothing when there is none, List cuts the prefix
and then one slash off, Mkdir adds a slash. A query may end in a slash, as in the documentation's examples: `Heard` is what is left of it, since
`path.Join` drops that slash. `RangeHeader` adds offset and limit in integers that wrap around beyond `MaxInt64`, and `Refused` is
the 416 of the service for a range that begins past the end of the object.

### DynamoMemory, DynamoHistory

`items` is the table, `replica` what an eventually consistent read may see, key by key older. Both reads
of the code are of that kind. `clock` runs in ticks, the table keeps seconds (`TicksPerSecond`), so expiry is
rounded down on the way in. `page[g]` is what GetItem or Query returned, `mem[g]` the memory that is about
to be put. Update is GetItem -> Check (expired) or Update -> Embed, if the content changes -> Put. List is
Query (limit plus one, as int32; never more than fits in one answer of the service) -> List; Search is
Embed of the query -> Query -> Search, and Recall is Search without type filter and threshold. What is scored is one
page of List's default size, whatever the caller's limit. An embedding is named
after the content it was made from, a score is given per content.

### DynamoTable

DescribeTable -> CreateTable -> Wait -> EnableTTL, for each starter; a starter may crash at any point and,
like one whose NewProvider failed, be started again.

### BedrockStream, BedrockConvert

The service says blocks (`kinds`) and their parts (`said[n]` is the block of part n), one event at a time; the
SDK's reader offers it on an unbuffered channel (`event`), `HangUp` breaks the connection, `Close` may come at any time
and `ReaderStops` is the reader that notices. `RecvEvent` takes an event through processEvent and its handlers to
a chunk, or goes on in its loop; the caller (`heard`, `finish`) adds contents, opens a tool call when a chunk has an id, and
adds arguments to the call opened last, as chunks give it nothing else to go by. A text, or the arguments of a call,
is the set of its parts.

### SESSender, SESErrors, MailSpec

A call makes attempts, each a request on the `wire` that the service accepts (into `outbox`), refuses, or never sees; its answer
is in `replies` until the call takes it, and lost when the call no longer waits. `Receive` and `Break` are the end of an attempt,
with an answer or without; then the call fails or the SDK tries again. `configTags` is the map of the caller, who goes on using
it. `MailSpec` knows senders, calls, verdicts and accepted copies only; `Meaning` says which kinds of errors tell a caller
that the mail was refused, which leave it open.

### KiroCollector, KiroConversation, KiroReports

`rows` is the database, `dbTime` its file time, `files` the archive. A turn is the time its request started, 0 without metadata;
a conversation lives in the table that dates its rows (`V2`) or in the older one. Collect goes ReadDir -> ReadArchive for each
file (and DateArchive, the later look at the time of the file, for an archive without a date) -> StatDatabase -> Query, ScanRow, EndRows for
each table; any of them may find something unreadable. `Take` is the check of `seen` (`Unseen`), its assignment (`Note`) and parseSnapshot (`Parse`). The time of a
file, or of the database, may not be had (`ModUnixMS`): such a snapshot of the older table has the time 0, passes the check and resets
`seen`; `undated` remembers the conversations this happened to, for the properties. The
tokens and events of a snapshot are operators of `KiroConversation`, where a text is its length. What a snapshot on its way
through Collect keeps of a turn is the time; `Contents` adds the rest from `TurnOf`, the turns each conversation would have, for Kiro only
adds turns.

## Runs

| Run | Instance | Shows |
|---|---|---|
| `secrets_vault` | 3 goroutines, 2 Providers, 1 secret, 2 version-making calls, 2 tries of each request, all methods between them | type correctness; `ClosedQuiet` (no request after Close, Rotate's second half included); `VaultSafety` (implements VaultSpec) |
| `secrets_pages` | 3 goroutines, 1 Provider, 2 names, one a prefix of both, pages of 1, 2 tries; List, Rotate, Set and Delete | `SetNeverConflicts` (one Provider: nobody comes between Set's two requests); `ListComplete` (names that stayed are reported, names that never were are not); `EveryCallReturns` |
| `s3_objects` | 2 goroutines on one backend, 4 files of which 2 in a directory, 1 writer, 1 chunk, pages of 1, all methods; paths of at most 2 segments of at most 2 letters, as prefixes also with a slash at either end or both, as queries also with one behind, and the empty query; `MaxInt64` of 15 | type correctness; `WritersSafe` (accepted chunks are in the one upload); `MoveConserves`; `ListComplete`; `RmdirNeedsEmpty`; `PathsAndKeysAgree`; `RangeExact` |
| `dynamo_memory` | 2 goroutines, 2 memories, of 2 subjects, one with a TTL; seconds of 2 ticks, clock to 5; a default page of 1 | type correctness; `EmbeddingFits`; `ExpiryIsFinal`; `ListSound`; `SearchMissesOnlyBeyondPage` (a fitting memory is passed over for better ones only, or because a default page of others comes before it) |
| `dynamo_scored` | 2 goroutines, 3 memories of one subject, 2 of which make a default page | **violated** `SearchReportsBest`: the best memory is not on the one page that is scored |
| `dynamo_update` | Update against Delete | **violated** `UpdateOnlyExisting`: Update puts a deleted memory back |
| `table_start` | 3 starters, 3 restarts | type correctness (`TableTypeOK`); `CreatorReady`; `EveryStartEnds` even if the table never becomes active |
| `table_ttl` | 2 starters, 1 restart | **violated** `TTLComesOn`: a table whose creator stopped before UpdateTimeToLive never deletes expired memories |
| `params` | 3 goroutines, 2 Providers, 2 parameters, one the path of both, 2 calls of Set, 2 tries, pages of 1; 6 prefixes, 8 paths | `ClosedQuiet`; `VaultSafety` (the VaultSpec whose lost writes are repeated); `ListComplete`; `CurrentIsNewest`; `NamesResolve` |
| `stream` | 3 blocks, 3 parts, 3 stop reasons; conversations of 3 messages, 2 tools | type correctness; `HeardInOrder`; `FinishMeansWhole`; `StreamAgrees`; `RequestKeepsMeaning`; `CloseReleases` |
| `kiro` | 1 conversation in each table, 2 archive files, 4 changes of files; histories of up to 3 turns | type correctness; `NewestLast`; `NothingLost`; `LastWord` (of two events with one id the later one is not older and counts no fewer tokens); `EventsAddUp` (`CacheSums`, `TotalsMatch`, `PeriodsSplit`) |
| `ses` | 2 senders, with 1 and with 2 attempts, 2 calls, 4 mails (plain, tagged, bad tag, foreign address), all classes of errors; Durations up to 63 and 127 units, of which a second has 1 or 10 | type correctness; `MailSafety` (implements MailSpec); `ErrorsTellWhatToDo` |

The violated ones are the findings of PROJECT.json, each with the line of the code and the sentence it
departs from.

**Bounds.** MaxVersions, MaxSets, MaxChunks and MaxRestarts count calls, Slots, Ids and Sends what is made in a run; MaxTime
stops the clock. Everything else is finite by itself, and every goroutine may call again and again. Two goroutines on one
Provider and a third on another are what the two kinds of interference take: excluded by the lock, and
through the account only. Pages of one make every List of two names a paged one. One chunk is enough for a
chunk to come too late, before or during an upload. Two moves, in and out of the listed directory, are
enough for an object to pass a List that is under way. Seconds of two ticks make an item expire earlier in
the table than in the memory Add answered with, and five ticks let it be added in one second, updated in the
next and expire in the third; MaxInt32 is 4 so that a limit (5) lies beyond it. Two letters per segment make one
name the beginning of another; a third letter would only rename. Two tries (`MaxAttempts`) and two calls of Set let a repeated
Set, or Delete, meet what another Provider wrote in between. A default page of one, where a subject has two memories, leaves Search
one that it does not get to see; that among several on its page it takes the best is left to the theorem and to `dynamo_scored`, where two of three make a page. Three blocks have a tool call before and after another block, and
three parts an input in two pieces. A sender with one attempt and one with two are the two cases that a refusal
distinguishes; the two calls are alike (symmetry). Two archive files and the database are three places for one
conversation, four changes two turns stored and two snapshots written between any two steps of Collect.

In the runs of the providers deadlock is checked (idle goroutines can always be called); the systems of the others stop when every
start, the stream, every call or the Collect has ended, so those runs do not check it.

**Fairness.** `Fairness` of SecretsManager (`secrets_pages`, where all goroutines contend for one lock; another Provider has a lock of its
own and only changes what requests answer): weak fairness of a goroutine's next step (the scheduler runs it, the
service answers in the end, if need be with a failure: the SDK has timeouts) and strong fairness of
AnnounceWriter, because others may take and leave the mutex again and again; `sync.Mutex` hands itself to
a waiter that starves, so a writer that is able to announce itself infinitely often does. Readers need no
such assumption: Unlock admits all parked readers. No one has to call a method, and rotations need not
finish. `FairSpec` of BedrockStream: a goroutine in Recv runs when there is something to receive, and the SDK's reader notices
Close; nothing of the service, which may fall silent. `StartSpec` of DynamoTable: a program that has not crashed takes
its next step. `LiveSpec` adds that the
service finishes a table, without which `TTLComesOn` would fail for a reason that is not the code's.

## Theorems

All are about arbitrary constants that satisfy the named assumption of the module (any number of goroutines,
Providers, keys, pages, tries, bounds, messages of any length). The assumptions are types and non-emptiness, and

- the objects a bucket holds at first are finitely many, and no directory lies below itself (`S3Assumption`);
- letters of keys are totally ordered, and "none" is not the id of a memory (`DynamoAssumption`);
- "tool_calls" is not among the stop reasons of the service, which says "tool_use" (`StreamAssumption`);
- what the errors of SES mean: those of `Refused` are classified as refusals, those of `Faults` are not (`MailsAssumption`);
- paths are clean, a query as well but for a slash at its end, and a configured prefix but for a slash at either end (`KeysAssumption`);
- a token has at least one character, and a conversation as many turns in store as the clock allows (`ReportsAssumption`).

TLC evaluates each of them in a run. Hypotheses of single theorems are in their rows.

| Theorem | Statement | Argument |
|---|---|---|
| `SecretsManagerProofs!TypeCorrect` | `[]TypeOK` | inductive as it stands, since it says which methods a step belongs to |
| `LockCorrect` | `[]LockInv` | inductive with TypeOK. A step changes the lock in one of a few ways (`StepsLock`); each keeps the invariant (`LockStepKeeps`). The part about parked readers is what makes it inductive: a writer's Unlock turns them into readers |
| `CloseIsQuiet` | `[]ClosedQuiet` | Close holds the write lock when it sets the flag, so by LockInv no one is at a request; later ones test the flag under the lock |
| `SetAtomic` | `[]SetNeverConflicts` | what DescribeSecret found still holds at the second request: by LockInv writers of one Provider exclude one another (`WritersExclude`), and a rotation only adds to a secret that exists (`RotatesExisting`, an invariant of its own: Delete cancels rotations) |
| `ProviderImplementsVault` | `VaultSafety` | each step is a step of VaultSpec or one it does not see, step by step under TypeOK, ClosedQuiet and the invariants of the service; ClosedQuiet is what makes every effect one of an open provider, and every finite set of versions has a newest (from the well-founded order of the naturals). A try that stores or deletes and loses its response is a `LostWrite`; `token` is what the lost try added to the secret, so a later try either finds it there (`Confirm`) or stores one anew |
| `ListIsComplete` | `ListComplete` of `SecretsListHistory` | `ListInv`: what a List in progress has collected was there at some time, and has all that was always there and lies up to its cursor (`Listed`). The account is finite, so a page has all that come before one it has (`PageIsFirst`) |
| `ParameterStoreProofs!TypeCorrect`, `LockCorrect`, `CloseIsQuiet` | `[]TypeOK`, `[]LockInv`, `[]ClosedQuiet` | as above; a further try of the SDK runs under the same lock |
| `MarksTheNewest` | `CurrentIsNewest` | `HistoryInv`: versions of a parameter increase; what a listing has collected is the beginning of the parameter up to its cursor, as long as no other Provider deletes it, while LockInv keeps the deleters of its own out |
| `ProviderImplementsVault` | `VaultSafety`, if `DeletesApart` | from the same invariants. ListVersions answers with what is in the store at the moment of its last page: all it collected is still there by HistoryInv. Without DeletesApart (no Provider deletes a parameter whose versions another one lists) an answer may mix versions of two lives of a parameter |
| `ListIsComplete` | `ListComplete` of `ParameterHistory` | as for Secrets Manager |
| `NamesLeadBack` | `[]NamesResolve`, if paths and prefixes are sequences of one alphabet with the slash in it | for prefixes and paths of any length: putting a prefix before a rooted path and taking it off again are inverse |
| `S3BackendProofs!TypeCorrect` | `[]TypeOK` | inductive as it stands |
| `WritersCorrect` | `[]WritersSafe` | with `SlotsFresh`: a writer under construction belongs to one goroutine. The writer is locked from the copy of its buffer to the end of the upload, so neither Write nor a second Close changes it |
| `MovesConserve` | `[]MoveConserves`, if the keys moved are `Undisturbed` (nothing else writes or deletes them), `Increasing` (moves go forward in some order) and `Traced` (no two objects are on their way to one key) | `MoveInv`: beyond every Move that has copied and not yet deleted there is the same content further ahead (`Ahead`). Without the order, two opposite moves delete each other's copy. `MCS3Backend` evaluates the three hypotheses for its moves |
| `ListIsComplete`, `RmdirLeavesFull` | `ListComplete`, `RmdirNeedsEmpty` of `S3History` | `WatchInv`: what a List has collected and what Rmdir has seen, against the keys that were there all the time or at some time (`Watched`). Rmdir asks for two keys: one may be the marker, so the other is an object if there is one |
| `RangesAreExact` | `[]RangeExact` | arithmetic modulo 2 * (MaxInt64 + 1), for all offsets, limits, sizes and any MaxInt64, as long as the window ends within it: what is sent is the window, and what is refused is a window that begins at or past the end |
| `PathsLeadBack` | `[]PathsAndKeysAgree` | for paths of any length: `Clean` of prefix and path keeps every name and drops every empty segment (`CleanKeepsNames`, from `Folding`), so a key is the prefix without its last slash, followed by the path (`CleanJoins`, `KeyIs`); the same string in front of two others does not change whether one begins with the other (`Lifted`); TrimPrefix and the cut of a slash undo it whether the prefix ends in a slash or not (`TrimsAt`). Queries may end in a slash; a configured prefix makes List deaf to it, and the statement says so (`Heard`) |
| `DynamoMemoryProofs!TypeCorrect` | `[]TypeOK`, with unique keys in table and replica | strengthened by `Carried`: from GetItem to Put, Update holds a memory with the key its caller named |
| `PageRangeCorrect` | `[]PageInRange` (no page is asked for that the service would refuse) | follows from types and the cap in PageLimit, for any MaxInt32 above the default |
| `EmbeddingCorrect` | `[]EmbeddingFits`, if every provider has an embedder | `EmbInv`: what was read fits, what is about to be put fits, and between the change of the content and the embedder's answer the memory already has the content the embedder is asked for. Without an embedder Update leaves the old embedding in place, hence the hypothesis |
| `ExpiredStaysExpired` | `ExpiryIsFinal` | `ExpiryInv`: every copy of a memory with a lifetime, in the table, in the replica, read or about to be put, ends no later than what Add computed; Update carries the expiry on, and rounding to seconds only shortens it |
| `ListIsSound` | `ListSound`, if no subject contains the separator `#` | `ListInv`: table and replica are finite, and the page that is filtered was read from one of the views Query could read. Sort keys order memories totally (`Before`), so a page of n is well defined and full when there are n |
| `SearchMissesLittle` | `SearchMissesOnlyBeyondPage`, if no subject contains `#` | from `ListInv`: a memory that fits and is not on the page has a page of the subject's items before it; one on the page was scored, and falls behind as many as the limit, none of them worse |
| `TableTypeCorrect`, `CreatorCorrect` | `[]TableTypeOK`, `[]CreatorReady` | `TableInv` adds: whoever made the table is past CreateTable, and the table never goes away; hence a second starter cannot make it |
| `BedrockStreamProofs!TypeCorrect` | `[]TypeOK` | `TypeInv` adds what the reader may have on offer at each stage (`OfferRight`): without it a delta might name a block or part that was never said |
| `InOrder` | `[]HeardInOrder` | `StreamInv` adds that an open stream has told the caller everything but what is on offer (`AllHeard`); a delta belongs to the block said last, which is why the call opened last is the right one |
| `FinishComesLast` | `[]FinishMeansWhole` | `FinishInv` adds that a reason is known only after the last block stopped; with AllHeard nothing is missing then |
| `StreamedIsSame` | `[]StreamAgrees` | from HeardInOrder: what was heard and what `convertConverseOutput` makes of the same blocks in one go have the same text and calls, block by block along the fold |
| `RequestsKeepMeaning` | `[]RequestKeepsMeaning` | `convertMessages` places every message that is sent at a position, in order (`AllPlaced`, an invariant of its loop); a tool result therefore follows its tool use, and none is lost because results are in bijection with the blocks made of them (`AsManyResults`) |
| `SESSenderProofs!TypeCorrect` | `[]TypeOK` | inductive as it stands; merging tags keeps them valid |
| `SenderImplementsMail` | `MailSafety` | invariants: requests and accepted copies belong to attempts made, with the tags of that sender; an attempt is on the wire or accepted, not both; an answer `Ok` belongs to an accepted copy, and one that means a refusal to an attempt that is never accepted. So `ok` finds a copy, and of a refused call one attempt stays free |
| `ErrorsAreClear` | `[]ErrorsTellWhatToDo` | by cases on codes and statuses, and arithmetic for the time a Retry-After names; for any status, header, clock and width of a Duration. The kind of a response that breaks off is left open: the code and its comment disagree there |
| `KiroCollectorProofs!TypeCorrect` | `[]TypeOK` | `TypeInv` adds that known dates lie in the past (`DatesKnown`), for only then are the times of a snapshot without dates within the clock; those of a file without a time are 0 |
| `TakenInOrder` | `[]NewestLast` | `OrderInv`: every snapshot of a dated conversation, wherever it is, is no newer than its row (`OwnDates`); newer ones have more turns (`Ordered`); `seen` never falls behind what was taken (`SeenIsLast`), except for conversations in `undated`, and those of conversations_v2 never get there (`UndatedNoted`) |
| `AllIsTaken` | `[]NothingLost` | `CoverInv`: without a diagnostic, what `seen` notes was taken; a row that was there is in the query's rows or taken; a conversation of the older table is in `seen` early only if it is archived, which is what the property excludes |
| `NumbersAddUp` | `[]EventsAddUp` | `EstimatesRun` follows the loop of estimateUsages turn by turn, so usage i is known in closed form (`UsageOf`, from the sum of what was said up to i), which is `CacheSums`. `ParseSelects` says what parseSnapshot makes of a snapshot: the events of `Says`, of which a period takes those with a time in it, and the tokens of each type (`Parsed`); `PeriodsSplit` is then set algebra, `TotalsMatch` the sum of the same amounts on both sides |
| `LaterEventsWin` | `[]LastWord` | `StoryInv`: all snapshots of a conversation, wherever they are kept, agree on the turns they both have (`OneStory`), and a row is ahead of its snapshots until it is dropped (`RowsAhead`), so a new turn continues what all of them tell. Common turns then have the same usage (`SameUsages`), and by `NewestLast` the later snapshot ends later (in the older table if it has a time) and, in conversations_v2, has more turns |

**Loops.** Where the code walks over a sequence (`path.Clean`, `convertMessages`, `convertConverseOutput`, `estimateUsages`, `parseSnapshot`), the model folds over it
with `FoldLeft`, which the community modules define by a recursive function on sets of positions. `Folding` proves that
there is such a function and that it takes one step for each position in turn (`FoldExists`, `FoldRuns`). What is kept by every step
then holds at the end: the positions up to which it holds are a set, and `CountUp` is the induction. So these theorems hold for inputs
of any length, and not only for those TLC enumerates.

**Only model-checked.** Liveness (`EveryCallReturns`, `EveryStartEnds`, `CloseReleases`), which is beyond the prover. Every other property of
a passing run is proved, under the hypotheses named above.

## What is assumed of the world outside

- A request takes effect at one moment, or not at all, whatever it reports; one that is sent again may do so again. Secrets Manager knows
  the token of a request again as long as the version it made exists. Secrets Manager, Parameter Store and S3 read
  what was last written; DynamoDB reads may lag, one key at a time.
- ListSecrets, GetParametersByPath and ListObjectsV2 return keys in one order, a page being what comes first after the last one.
- A secret that is deleted is gone at once (the code asks for ForceDeleteWithoutRecovery), its rotation with it.
- CopyObject refuses to copy an object to itself; the upload manager's parts become one object.
- uuid.New gives a new id; the embedder depends on the content only.
- `sync.RWMutex` is as in `GoRWMutex`.
- Bedrock sends the events of a message in the order of its blocks, deltas and stop of one block before the next begins.
- A mail that SES answers with an error of `Refused` was not taken; an error of `Faults` says nothing. A request still on
  its way may be accepted after the call has answered.
- A query sees its table at one moment; a file is read, and written, at one moment, and is not removed (the look at its time may fail all the same); Kiro and the archiver only ever store later
  versions of a conversation, and no two changes of files fall into one millisecond.

## What is not covered

- Known and without a property, because nothing in the repository promises otherwise; the hazards of
  PROJECT.json name the lines: a second Close of a writer whose upload failed returns nil; Move loses what is written to
  its source between its two requests; a starter takes a table in creation for a usable one; several Updates in a row
  may lose merged metadata to a stale read; providers with and without embedder on one table leave embeddings that do not fit;
  requests of an S3 method that passed `checkClosed` go on after Close; a negative Offset reads the whole object, and so does a window
  whose end overflows; an object written between the two requests of Rmdir loses its directory's marker.
- Known, of comments that the code departs from, and left out of the properties that come near them: Rotate may
  answer with the value from before the rotation (comment at secretsmanager.go:471); ListVersions of Secrets Manager shows
  the labelled versions only (414); with a configured S3 prefix, List("path/prefix/") of docs/omnistorage/index.md:191 also reports
  "path/prefixes", as `path.Join` drops the slash (backend.go:280; `ListSelects` says exactly what is reported, for queries with and
  without a slash); HasMore of the memory provider may be false although a match was left out (dynamodb.go:409, where line 368 says "+1 to check
  HasMore"), and the page is in the order of random ids (369, "Most recent first"); a network error that cuts a response short is Unknown
  (classify.go:114), where the comment at line 76 and docs/omnimail/index.md:135 have all of them transient; the last chunk of a Bedrock stream
  has no Choices (stream.go:235), which the loop at docs/omnillm/index.md:147 indexes; a tool of a Kiro turn that
  its metadata and a ToolUse record both name is reported twice (conversation.go:166, where docs/omnidevx/index.md:67 says "or").
- Smaller things, left out with the data they are about: keys of a StringList after the tenth (parameterstore.go:194); tool choice
  "none" becomes no choice (adapter.go:315); malformed tool arguments become an empty document (adapter.go:476, in the model); undated archives
  of a conversation in the older table, whose file time may hide a newer row. Such an archive that is written over between its
  reading and the look at its time (archive.go:55) is taken with the new time and the old turns, so a later end of the session may
  count fewer tokens; and where that look fails (kiro.go:200) the snapshot has no time, so an older one may be taken behind it. `LastWord` and
  `NewestLast` compare whole sessions of conversations_v2 only, and leave the times of the conversations in `undated` open.
- `MoveConserves` excludes moves in a circle and other writers of the keys moved, for which it is false.
- Paths with `..` segments: `fullKey` resolves them, and keys outside the prefix result.
- A subject with `#` in its name shares a key prefix with another; `ListSound` and `SearchMissesOnlyBeyondPage` are checked and proved without.
- Data that no property tells apart: JSON of secrets and of archives, object metadata, MIME bodies, schemas of tools, scores, tenants
  but one, tags and descriptions of parameters.
- Not modelled: the reading of settings (`s3/options.go`), constructors and aliases (`omnivault/{aws,providers}.go`,
  `omnillm/bedrock.go`), the example program. They hold no state and take no step that another could come between.

## Plan

Done: both vault providers, S3, DynamoDB, Bedrock, SES and Kiro, each with its runs; the refinements of VaultSpec and
MailSpec, checked and proved; the invariants above.

Proved: the invariants of all components, the two refinements, and what the conversions and estimates promise.

Left: nothing that the prover could take on. What could be added is the data the models leave out, as listed above, and the settings.
