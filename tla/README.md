# StaticMessageProtocol: a verification project

StaticMessageProtocol (SMP) is a small request/response messaging system: a Rust
library that assembles and parses messages (`src/core`), a Go server that keeps
tokens, accounts, inboxes and uploaded files (`src/server`), a Go command line
client (`src/client`), and a Rust library for uploaded files (`src/cfm`). This
directory holds TLA+ models of it, the TLC runs that check them on small
instances, and TLAPS proofs of what matters most for instances of any size.

* [Inventory](#inventory): the system's parts, their state, their operations, what is hard about each
* [How the parts interact](#how-the-parts-interact)
* [Modules](#modules): which module models which part, and how
* [Runs](#runs): the question each run answers, its bounds and why they suffice
* [Fairness](#fairness)
* [Proofs](#proofs)
* [What the models found](#what-the-models-found)
* [What is not modelled](#what-is-not-modelled)
* [Plan](#plan)

To check everything by hand, in this directory:

    tlc -workers 2 -config process.cfg MCProcess        # and so on, see PROJECT.json "runs"
    tlapm StoreProofs.tla                               # and the other *Proofs modules

## Inventory

| Component | State | Operations | What is hard | Properties that make it correct |
|---|---|---|---|---|
| Idempotency cache, `server/internal/cache/idempotency.go` | `entries` (map), `order` (slice of keys), capacity | `Get`, `Put` | a map and a slice edited in separate places; eviction order | the two agree; capacity holds; a replayed answer goes only when it is the oldest |
| Token store, `server/internal/auth/token.go` | `tokens` (tail → user), `tails` (slice) | `Generate`, `Lookup`, `LookupUser`, `List`, `Revoke` | tails are 32 random bits and may collide | every live token is listed; the list is exact while tails are distinct |
| Account store, `store/account.go` | `accounts` | `Create`, `Get`, `List`, `Delete` | only its callers' check-then-act | a user is created once; an account has a token |
| Message store, `store/message.go` | `messages` (route → slice) | `Store`, `Query`, `LatestID`, `Cleanup` | slices are not in timestamp order; paging and second boundaries; retention | watch agrees with pull; pages and windows cover an inbox; expired messages leave |
| File store, `store/cfm.go` | `entries` in memory, files on disk | `Save`, `Load`, `Cleanup` | writes that fail half way, expiry in two places, restarts that forget the index | no dangling entry; a file is under its own uploader and visibility; expired entries leave |
| Message handlers, `handler/message.go` | locals of each goroutine | `ProcessParsedMessage` and one case per route | no lock spans two calls; cached answers skip the checks; tokens change in between; a negative offset panics | authorisation, ownership of answers, at-most-once, every request answered, policy |
| Access policy, `config/config.go` | the configuration, fixed at start; while the file is read, the open section and the current user | `Load`, `parseYAML`; `HasAccess`, `CommandAllowed`, … | state carried from line to line; two lists, two switches and a mode in combination | the configuration is the one the file declares; what the server did obeys it |
| Parser and assembler, `core/src/{parser,assembler,types}.rs` | stage, buffer, parsed blocks | `feed`, `reset`, `assemble_message` | TCP cuts the stream anywhere; offsets depend on parsed lengths; limits | chunking is invisible; accepts exactly the encodings |
| Server, `server/internal/server/server.go`, `handler/connection.go` | goroutines, wait group, `done` channel, listener | `Start`, `Stop`, accept, cleanup and connection loops | shutdown races with accept; deadlines inside messages; writes without a deadline; pipelined bytes; a panic ends the process | Stop returns, if clients read, and leaves nothing running; order; what was read is handled |
| Client, `client/internal/cli` | `.smprc`, `.smp-token`, and a process's copy of the former | push, pull, watch-context, create, list, cfm push | processes share files without locks, write them in two steps that may fail, ignore that, and may be killed; one read per answer; EOF is an answer | the configuration is what the commands one by one leave; it was really chosen; a kept token was minted |
| CFM library, `cfm/src/lib.rs` | one global store: index in memory, files on disk | `cfm_init`, `cfm_save`, `cfm_load`, `cfm_size`, `cfm_cleanup` | host threads between a size and a load; writes that fail half way; a second `cfm_init` | implements the server's file store; a load is cut only when it was overtaken |
| Token, error, md5 helpers of the core | none | pure functions | | not modelled: no state |

## How the parts interact

A client dials, sends messages and reads answers. The server's accept loop starts
one goroutine per connection (`HandleConnection`), which reads with a 30 s
deadline, feeds the parser, and when a message is complete calls
`ProcessParsedMessage`, which writes the answer (with no deadline), then resets the parser. All connections share one
`Handler` with the cache, the token, account, message and file stores. Each of
these has a mutex that every method holds from entry to return, and no lock is
held across two calls or while an answer is written. So a store method is one atomic action
in the models, the mutexes are not in them, and a handler is a sequence of them that interleaves with the other connections'
handlers and with the cleanup goroutine, which sweeps messages and then files.
`main` calls `Stop` on a signal: it closes `done`, closes the listener and waits.

Before that, `main` parses its flags into the default configuration and then reads
the configuration file over it. The client's processes are independent: each runs one
command, and they meet in two files of the home directory.

The models compose along the same lines:

    Wire <- Parser                    the parser, fed by a stream in chunks
    Server                            goroutines, reads, shutdown; a parser is
                                      "done when fed a whole message", which is what
                                      Parser establishes
    IdempotencyCache \
    TokenStore        \
    MessageStore       > Handler <- HandlerHistory - - implements - -> OnceOnly
    CFMStore          /    <- CFMLibrary - - implements - -> CFMStore
    Policy           /
    ConfigFile                        what the file's lines make of the configuration
    Parser <- Getters                 what of a parsed message reaches the handler
    Client <- ClientHistory           the processes of one user and their files

`Handler` INSTANCEs the stores' modules and uses their actions, so the actions
checked alone in the run `process` are those the handlers take. The stores and the
goroutines share neither state nor locks: `MCProcess` puts them side by side, and of a
behaviour one of them moves. `MCEnds` does the same with what is at either end of the
server: the configuration file, the message parser and the client.

## Modules

**`Slices`.** `Keeping`, the loop with which Go code filters a slice, as a recursive function:
what it computes can be proved, of `SelectSeq` it cannot.

**`IdempotencyCache`, `CacheHistory`.** `Hit` is a `Get` that finds the key, `PutFresh`
and `PutAgain` are the two branches of `Put`. A `Get` that misses changes nothing.
`CacheHistory` adds what the code does not keep: the resident keys by how recently they were
used (`recency`), and those used again since they were stored (`replayed`). Of replayed
answers the one used the longest ago goes first (`ReplayedGoByAge`); of the cache as a whole
the code says that it is LRU (`LeastRecentGoesNext`), which it is not: `cache_lru`.

**`TokenStore`, `TokenHistory`.** `Generate` takes any tail, colliding or not, because
the code draws it from `math/rand` seeded with the clock and does not look whether
it is taken. `Revoke` cuts one occurrence out of the slice, as the code's loop does.
`TokenHistory` remembers whether a listed tail was ever drawn again.

**`MessageStore`.** `Store`, `Cleanup`, and `Query` and `LatestID` as operators.
`sort.Slice` is not stable, so `Query` is a set of possible answers. A message is
stored with a timestamp read up to `MaxDelay` ticks earlier. `Keeping` is the loop of both
filters. `Page` is the slice expression for the offsets with which it returns; with a negative
one it panics, which is `Handler`'s action `Panic`. The user data and
context of messages are left out: no operation looks at them.

**`CFMStore`.** The index and the directory. `SaveDone` and `SaveTorn` are `Save` with a
whole write and with `os.WriteFile` failing after it truncated the file;
`LoadExpired` is the branch of `Load` that removes; `Restart` is a new process over
the old directory. A file's content is who sent it, whether as public, and whether
all of it was written.

**`CFMLibrary`.** `cfm/src/lib.rs` is the file store a second time, so its actions are
`CFMStore`'s with what the library adds: `Open` (`cfm_init`, which may come again and then
replaces the store), the recorded size and the length on disk, and a host thread, the
`reader`, that asks for the size (`AskSize`) and then loads into a buffer of that size
(`LoadInto`, `LoadRefused`). The other host threads do everything else in between. Every call
holds the mutex throughout and is one action. `60 * expire_minutes` wraps; a period that
ends before the upload stands for that.

**`ConfigFile`.** `parseYAML`, one action per kind of line. The state is the code's:
configuration, `section` and `mapKey`, and the lines to come. A document is a sequence of
declarations, each in one of the forms the parser knows; `Lines` writes it down and
`Meaning` says what it declares, one declaration after the other over what the command line
gave (`After`). `WellFormed` is what a document keeps to: each target has its forms, a list
and a user's permissions are declared once, a next user stands where `special-permission` is
still open (`LeavesOpen`), and no user is named like a key. Settings may be repeated: the last
one counts. The command line leaves what `main` has no flag for as it is in `Default`
(`FlagsAssumption`). Trimming, comments, quotes and commas are done when a line is
represented, lists are sets. The names of sections count in `FileMeansWhatItSays`, as
`config.go:70` wants them to; `SectionNamesIgnored` is what the documentation says of them
(the meaning of the document without its `[header]` forms, `Unnamed`), and `config_sections`
shows that it is otherwise.

**`Policy`.** The predicates of `config.go` over a configuration record. Whether a
pattern matches a route is a relation `Covers`, as the models do not put strings
together.

**`Handler`.** One action for each call a handler makes into a store, with the
handler's locals (`req`, `user`, `reply`, `stamp`) in between:
`Receive → LookupToken → Replay | Miss → (one case of the switch) → PutReply → Write`.
`Refuse` and `RefuseName` are the rejections, which are cached like every answer. A push
is two steps (the timestamp is read, then the message is stored), `_create` is three
(the account is looked up, the token minted, the account made). A `_pull` takes limit, offset,
after, before and id from the request, as `handlePull` does, and with a negative offset it is
`Panic`: `up` becomes false and nothing happens any more. `Write` may never come, as a client
need not read. The name `None` stands
for a name that is missing or blank, the inbox `smp@u` is the user `u`, and `CfmId`
sets the top bit of an identifier as `cfID := msgID | (1 << 63)` does.

**`HandlerHistory`.** Adds what was ever true: which user a tail was ever bound to, what
was ever pushed, what every executed request was answered. The security properties
are about these, as at the time of an answer the token may be revoked already.
`PolicyEnforced` states the policy once more, from the configuration's fields and without the
operators that the handlers use (`TurnedAway`, `Covered`, `MayRun`), for every route: a fault of
`CommandAllowed` or `HasAccess` breaks it as one of the handlers does.

**`OnceOnly`.** The abstract specification of the cache and handlers together: a key is
executed once, its answer never changes, and only that answer is sent. The refinement
mapping takes a key's answer from the connection that is about to cache it, then from
the cache.

**`Wire`, `Parser`.** `Wire` has the assembler and the parser's stages as pure operators,
`Parser` the parser as a process that is fed chunks. A byte string is a sequence of
cells, one per number (whatever its width) or character: a number that is torn apart
is the same case as one that has not come, as every stage waits for all of a field.
Every stage returns the parser as it is unless it is that stage's turn, so
`try_parse`'s loop is their composition. The digest is a parameter.

**`Getters`.** The getters of `core/src/ffi.rs` with the fixed buffers of the handler, over a
parser that has accepted a message.

**`Client`, `ClientHistory`.** A process goes
`Start → (track → tracking →) token → send → sent → served → record | keep`, or ends early.
`Start(p, saved)` parses the arguments and notes `-u` in the process's copy of `.smprc`, `saved`
being what the file said or, when it could not be read, the defaults. `OpenConfig` and
`WriteConfig` are `os.WriteFile` truncating and writing, `OpenToken` and `WriteToken` the same for
`.smp-token`. Each has its failure (`OpenConfigFails`, `WriteConfigFails`, …), after which
the command goes on as if nothing had happened: `SaveConfig`'s callers do not look at its error. A
write that fails may have written the beginning of its text, over nothing or over what
another process wrote meanwhile (`Mixed`). The answer is read whole (`ReadWhole`), in a first
segment only (`ReadCut`), not at all with the connection closed (`ReadEOF`) or with an error
(`ReadFails`); `Kill` may come at any
step. The server is external: it accepts or refuses, and numbers the tokens it mints.
`ClientHistory` keeps the configuration that the commands would leave one after another
(`intended`), the pushes the server handled, and the incidents that excuse a difference: of the
commands that write `.smprc`, "overlap", "killed", "unread", "unsaved", "mixed", "failed", "eof";
of `create`, "cut" and "torn".

**`Server`.** The goroutines, the wait group, the listener and the connections; bytes are
counted in pieces of a message. `Handle` is `ProcessParsedMessage` up to the write of the
answer, `Answer` the return of `conn.Write` and what follows. A client may stop reading
(`Stall`), and its connection then stays in the write until it reads on (`ReadOn`): only reads
have a deadline. A handler may `Panic`, which ends the process. `reset` throws away what else
was in the buffer: `base` jumps to `taken`. If that is the middle of a message, the parser may take the rest
for anything: a start, an error, or, when the data spells one, a message, which is counted in
`stray`. Only a client that pipelines can bring that about (`ReadIsHandled`).

**`*Proofs`, `SequenceLemmas`.** See [Proofs](#proofs).

**Definitions that are variants of others** (`MoveToFrontKeepingOld`, `SaveKeepingEntry`,
`KeyOnId`, …) stand before the definition they vary. Each is a plausible bug of that
definition; PROJECT.json, "mutants", names the property it breaks. No
specification uses them.

## Runs

All passing runs explore the whole state space of their instance.

| Run | Instance | Distinct states | What it shows |
|---|---|---|---|
| `process` | cache of 3 entries with 5 keys; 4 tails, 4 listed; 2 inboxes, 3 messages, retention of 2 ticks, clock to 7; 2 files, lengths 1 and 2 (3 is too large), expiry 1, clock to 2; 2 connections, one of which pipelines, 2 messages of 2 pieces | 83,034 | the cache's map and slice agree (`OrderMatchesEntries`), a replayed answer is evicted only when it is the oldest (`ReplayedGoByAge`); `LiveTokensListed` with collisions, `ListExact` without; watch and pull agree, pages and seconds cover an inbox, watch never goes back, inboxes drain; no dangling entry, complete files match their entries, a load is cut only when it was overtaken (`CutOnlyWhenOvertaken`), expired entries leave; messages are handled in order, one that was read is handled, Stop leaves nothing running and, if clients read, returns |
| `handler_mail` | 2 connections, 7 messages, 4 received, cache of 3, a configuration that turns carol away and lets alice not list | 755,100 | only a token once bound to the owner pushes to or reads an inbox; answers are own and true; accounts have tokens; the policy holds while tails are bound anew |
| `handler_files` | 1 connection, 7 messages, 5 received, cache of 2 | 926,060 | a private complete file goes only to a token once bound to its uploader; a user is created once by one connection |
| `handler_once` | 2 connections that do not hold one message at once, 5 received, cache of 4 | 117,340 | the handlers implement `OnceOnly`; no message is stored twice |
| `handler_routes` | 2 connections, 15 messages for all routes, rejections and a negative offset, 2 received | 54,256 | types, the policy holds for every route, every message is answered unless a negative offset ends the process |
| `ends` | streams of 3 cell values up to 14 cells; all messages at the limits of each field; configuration files of up to 3 declarations of lists, grants, settings and misspelt keys in all forms and orders, over 2 command lines; 2 client processes at a time, 3 commands out of 9, 2 servers | 1,455,542 | `ChunkingInvisible`, `AcceptsOnlyEncodings`, `AcceptsEveryEncoding`; offsets stay in range (`ParserTypeOK`); the configuration is the one declared (`FileMeansWhatItSays`); commands that neither overlapped nor were disturbed leave the configuration they leave one by one (`ConfigIsSerial`); whatever happened, failing saves included, a readable one was chosen and its push handled (`SavedConfigIsReal`); a kept token was minted (`KeptTokenIsMinted`) |
| `handler_duplicates` | 2 connections, 3 received | | violation of `NoDuplicateMessages` |
| `handler_create_race` | 2 connections, 3 received | | violation of `CreatedOnce` |
| `data_cut` | a message as long as the handler's buffer and one as long as the parser allows, in cells of 2 KiB | | violation of `DataReachesHandler` |
| `config_format` | `retention = 25` | | violation of `FileMeansWhatItSays` |
| `config_sections` | a list of users below a `[header]` | | violation of `SectionNamesIgnored` |
| `cache_lru` | cache of 2 entries with 3 keys | | violation of `LeastRecentGoesNext` |

Why the bounds are enough:

* *process, the cache*: with 3 entries and 5 keys the cache fills, evicts the last, takes an evicted
  key back and mixes replayed with fresh keys in every order; the theorems cover all sizes.
* *process, tokens*: two equal tails with others between them need 4 places.
* *process, messages*: three messages in one inbox can be stored in every order of their
  timestamps, with ties; two ticks make a second, so a second's boundary lies inside.
* *process, files*: a file of either length is replaced by the other, torn or expired between
  the size and the load, and the other file shows that only the file asked for matters. One
  user uploads, that user and another load; replacement by another user is in
  `handler_files` and in the proofs, which cover all sizes.
* *handlers*: races are between two messages, on two connections; a third and fourth
  create the accounts and tokens they need. Identifiers are shared by messages of two
  tails (`handler_mail`), or map to one file (`handler_files`: 1 and 5 differ only in the
  top bit). Caches are smaller than the number of messages where eviction matters, and
  large enough in `handler_once`, where it is the premise: a key that was evicted is
  executed again.
* *ends, messages*: the shortest message has twelve cells and is cut at every one of
  them; one optional field at a time is at its limit. `TailMax` and `DataMax` are 1, below
  the largest cell, so that both sides of each limit are there.
* *ends, the file*: what a line leaves behind is the section and the user, so two
  neighbours show each way one can disturb the next, and a third that it lasts or does not.
  Two users are declared and a third is not; the theorem covers documents of every length.
* *ends, the client*: an overlap takes two processes; a third command sets the
  configuration up or reads what is left.
* *process, the server*: while Stop waits for one connection the other is dialled, accepted, read,
  dropped or not read from; the second message shows what a reset in its middle does.

Deadlock is checked in `process`, where only a server that stopped or panicked may end. The
other models may really stop: when the clients have sent what they send, a parser has failed,
a file was read or a handler has panicked.

The clock (`MaxNow`), the number of messages received (`MaxRequests`), stored
(`MaxStored`), listed (`MaxListed`), sent (`MaxMessages`) and the length of a stream
(`MaxReceived`, `MaxChunk`), the commands started (`MaxStarted`) and the time of the last
store and save (`LastStore`, `LastSave`) are bounds of the models, not of the code.

## Fairness

* `LibrarySpec`: the clock advances, and the host calls `cfm_cleanup` again and again, as
  `docs/cfm-docs.md:74` asks of it. `ProcessSpec` has the fairness of `MessageFairSpec`,
  `LibrarySpec` and `ServerSpec` for the steps of the part that moves.
* `MessageFairSpec`, `CfmSpec`: the clock advances, and the cleanup goroutine's ticker
  fires again and again (weak fairness of the clock's tick and of the sweep). Stores and
  uploads are not fair: `InboxesDrain` and `EntriesGetRemoved` hold once they cease, which
  their bounds make them do.
* `FairHistorySpec`: weak fairness for the steps of each connection's handler. Go runs a
  goroutine that can run, and the stores' mutexes are released on return, so no
  handler waits for another. Receiving is not fair, and neither is the write of an answer: that
  waits for the client, so every message has its answer *ready* (`RequestsAnswered`),
  whatever the clients of the other connections do, and after a panic no step is fair.
* `ServerSpec`: weak fairness for each connection's reads (a read ends by its deadline),
  for the accept loop's return, for Stop's steps and for the end of a sweep; strong
  fairness for the cleanup loop's return, as `select` picks at random between a tick and
  the closed channel and so does not prefer the tick for ever; and strong fairness for the
  end of a write, which ends when its client reads again and again. Nothing makes a client
  do that: that none leaves an answer unread for ever is the premise of `StopReturns`. Clients
  need not do anything else.

## Proofs

TLAPS proves the following for every value of the constants, from the named assumptions of
the modules (capacities and bounds are natural numbers; limits and the version's length fit
the cells of a length field; the model's time goes on for a second at least, as the clock
of the code does; the set of connections is finite; what is encoded is a byte string; a
message has the fields that the case of its route reads; `None` and the like differ from
the values they stand beside; the command line sets no list of the configuration). The
theorem about the configuration file has the premise that the documents are well-formed, which
`MCConfig`'s are and the one of `config_format` is meant not to be. The theorems about *once* have premises of their own, which are discussed with them. All the
state invariants, action properties and refinements that the passing runs check are
theorems.

| Theorem | Says | Argument |
|---|---|---|
| `StoreProofs!CacheConsistent` | `CacheTypeOK /\ OrderMatchesEntries` | inductive together: each branch of `Put` needs both the order's injectivity and its equality with the map's domain to know what an eviction removes |
| `StoreProofs!ReplayedEvictedByAge` | `ReplayedGoByAge` | `LayoutInv`: `order` is the replayed keys, the latest used first, and then the fresh ones, the oldest first. One key stands before another in `order` exactly where that layout has it (`Before`, `Ahead`); each branch of `Put` is one edit at an end, for which a lemma says what comes before what. So the last of `order` is replayed only when all are, and no other was used before it, which makes it the last in `recency` |
| `StoreProofs!MessageTypes`, `WatchMovesOn` | `MessageTypeOK`, `WatchNeverGoesBack` | `MessageInv`, below |
| `StoreProofs!PagesAreTheInbox` | `PagesCoverInbox` | the first k pages are the first k · limit messages, by induction over k; every inbox ends before the last page as it has no more than `MaxStored` messages |
| `StoreProofs!SecondsAreThePartition` | `SecondsPartitionInbox` | what is found in the seconds up to s is what is stamped up to the end of s, by induction over s: the window of second s has `after` = `before` = s, both ends included as in `message.go:58`, and a filter and its complement add up (`FilterAddsUp`) |
| `StoreProofs!WatchReportsPulled` | `WatchAgreesWithPull` | `LatestID` reports the first of the newest messages, by induction over its loop; and any newest message can come last in a sorted inbox, which a selection sort that is told where to begin shows (`SelectionRuns`) |
| `StoreProofs!LiveListed`, `ListIsExact` | `LiveTokensListed`, `ListExact` | `Inv` is their conjunction with the types; a revoke of a tail that is listed twice keeps one of the two, which is why only the inclusion survives collisions |
| `ParserProofs!ChunksInvisible` | `ChunkingInvisible` | a stage that gets on has all it looks at in the buffer, so more bytes behind that change nothing (`*Extends`); a stage that waits has changed nothing (`StagesWait`); so going on from a stage, getting bytes and going on is getting them before (`*Resumes`, from the last stage backwards), and two chunks are one (`FeedTwice`) |
| `ParserProofs!ParserTyped`, `OnlyEncodingsAccepted` | `ParserTypeOK`, `AcceptsOnlyEncodings` | `Stands(buf, at, s)`: the bytes s are in the buffer behind `at`. Each stage that gets on has found, behind what the stages before it found, what the assembler writes for the fields it took (`*Finds`); put together that is the assembled message (`DoneAssembles`) |
| `ParserProofs!EveryEncodingAccepted` | `AcceptsEveryEncoding` | on an encoding that has come entirely each stage finds the message's field and none fails (`*Reads`); on one that has not, an error or an acceptance would be there with the missing bytes too, as stages are not undone by more bytes (`*Over`); and by `ChunksInvisible` the parser is always where it would be had all come at once |
| `ParserProofs!ReachesOrIsCut` | `FitsOrIsCut`: of the three fields of a message within the limits that the handler copies, each reaches it as it was sent exactly when it fits its buffer; the identifier and the context always do | what the parser keeps is what was encoded (`EveryEncodingAccepted`), and a copy is the whole exactly when there is room (`CopiedWhole`). It says precisely when the counterexample of `data_cut` happens |
| `FileProofs!EntriesNeverDangle`, `FilesMatchEntries` | `CfmTypeOK`, `EntriesHaveFiles`, `FileMatchesEntry` | inductive with the types: entries and files are replaced, and removed, together, and a torn file is not complete |
| `HandlerProofs!PullsStayOwn`, `FilesAreOwn`, `AnswersAreOwn`, `CreatedWithToken`, `PolicyHolds` | `OnlyOwnerReads`, `FilesStayPrivate`, `RepliesAreOwn`, `AccountsHaveTokens`, `PolicyEnforced` | `HandlerInv`, below |
| `HandlerProofs!HandlerTypes` | `HandlerTypeOK` | `Typed`: also every reply that is about to be cached or written is one, and every `stamp` a time |
| `HandlerProofs!PushesStayOwn`, `AcknowledgedStored` | `OnlyOwnerPushes`, `AcknowledgedIsStored` | `MailInv` over `HandlerInv` and `Typed`: what appears in an inbox is what `StorePush` appended, from a handler that is past the check with a user its tail was bound to; nothing else becomes an acknowledgement |
| `HandlerProofs!ServerExecutesOnce`, `StoredOnce` | `ExecutedOnce`, `NoDuplicateMessages` | `OnceInv`, below |
| `HandlerProofs!UserCreatedOnce` | `CreatedOnce` | `CreatedInv`, below |
| `FileProofs!BufferSuffices` | `CutOnlyWhenOvertaken` | `LibraryInv`: a complete file has its recorded size, and as long as nobody wrote to the file asked for and it has an entry, it is complete and the buffer is its size. The condition on the entry is needed: `cfm_init` and expiry take the entry, and only a save, which counts as overtaking, brings it back |
| `FileProofs!LibraryImplementsStore`, `LibraryIndexIsTrue` | the library implements `CfmInit /\ [][CfmNext]_cfmVars`; `EntriesHaveFiles`, `FileMatchesEntry` of it | every library step is a step of the store or leaves its state; the store's lemmas are cited step by step |
| `ServerProofs!StopLeavesNothing` | `StoppedIsQuiet` | `QuietInv` adds that the wait group counts the loops and the connections being served; when it is zero both parts are |
| `ServerProofs!InOrderAlways`, `WaitingClientsServed`, `ServerTypes` | `HandledInOrder`, `ReadIsHandled`, `ServerTypeOK` | `StreamInv`: what was handled lies before the place where the parser was last reset, and a message is handled only when a whole one follows that place; of a client that waits, that place is exactly the end of what was handled, so `reset` drops nothing |
| `ClientProofs!TokensAreMinted` | `KeptTokenIsMinted` | `TokenInv`: until an answer was cut or a write of the file failed, who is about to keep a token has one that was minted, and the file has such a one, is empty or is missing, also between truncating and writing |
| `ClientProofs!ConfigIsReal` | `SavedConfigIsReal` | `RealInv`: until a failed write mixed two texts (which other processes then read), every process's copy, and the file when it is readable, are what some command line chose (`Genuine`) with the identifier of a handled push; of a push that was served, its own identifier is one. A save that fails leaves the old file or none that is readable |
| `ClientProofs!SerialConfig` | `ConfigIsSerial` | `SerialInv`: without an incident at most one process is saving, when none is the file is what was intended, and one that is will write what was intended (`OnTrack`), at whichever step it is. That a save fails is one of the incidents, "unsaved", and that the file could not be read another: no command looks at these errors, so without either exception the statement is false |
| `ConfigProofs!ConfigMeans` | `FileMeansWhatItSays` | `ConfigInv`, below |

`HandlerInv` says what a handler that is between two calls can rely on although the
stores have moved on: the user it looked up had the message's tail (`UsersBound`), who is
past the checks passed them with that user (`LocalsOK`), whatever was computed shows its
own tail no more than a user of that tail may see (`AnswersOK`), and what is about to be
cached, is cached or is about to be written was computed for its key (`RepliesKnown`,
`EntriesKnown`). The store invariant `FileMatchesEntry` is part of it, as a download
checks the entry and returns the file; so is that tokens are only bound to names that have
access (`BoundOK`), as nobody asks again. `PolicyEnforced` is stated without the operators of
`Policy`, so `PolicyHolds` also rests on lemmas that `HasAccess` and `CommandAllowed` compute what
the configuration says, the command permissions for any relation between patterns and routes. `WorkStep` shows what the actions do to the
handler that takes them, one lemma per action or kind of action, `StepKeepsLocals` that
this is enough, and `EntriesStayKnown`, `BindingsStayGood`, `AccountsStayOK` and
`FilesStayMatched` show the shared state kept. Nothing is assumed of how messages
coincide, so the theorems hold for duplicates too.

`MessageInv` is the types, that every stored message was stamped at a time between the first
second and now, and that no more are stored than `MaxStored`. The stamps are what
`WatchNeverGoesBack` needs: `Cleanup` compares all of them with one cutoff, so it takes the
newest message of an inbox only with all the others, and a slice in any order loses none
that is newer than one it keeps.

`ServerExecutesOnce` and `StoredOnce` are about `OneAtATimeSpec`, where a message that is being
handled is not sent again, and assume `RoomForAll`, that the cache has room for the keys of all
the messages there may be. Neither can be dropped: without the first the run
`handler_duplicates` has the counterexample, and without the second the cache evicts a key and
a message that is sent again is executed again, as the cache is all the server knows it by.
`OnceInv` adds to them that a handler between its miss and its put is the only one with its key
and the key is not in the cache, and that what is about to be written is what the cache has.
From it each step of the handlers is a step of `OnceOnly` or changes nothing of what `OnceOnly`
sees (`OnceStep`); and that an inbox has no message twice follows with `StoredKeys`, that what
is stored has an answer in `OnceOnly`'s sense.

That a user is created once is a theorem of `OneCreateSpec`, where no two `_create` requests for
one name are handled at the same time; the cache and repeated messages do not matter here, as
the account is there when the answer is not. `CreatedInv` says that a handler between
`accounts.Get` and `accounts.Create` has a name without an account, and that who was told of a
user was told of an account. Without the premise `handler_create_race` has the counterexample.

`ConfigInv` places the reader in the document: the lines that are left are those behind the
k-th line of declaration i + 1 (`At`, over the places that `FlattenPlaces` finds for the parts
of a joined sequence). Between two declarations the configuration agrees with what the first i
mean (`Agrees`: the same fields, the same permissions of every user). Within one it agrees with
that and the values of the items so far (`Midway`, `Partly`), the section is the declaration's
and `mapKey` its user. The heading of a block must find its list or user empty, as a `[header]`
does not empty it: that is `Fresh`, which follows from each being declared once (`AfterLeaves`)
and the command line setting none. And when a next user comes first, the section is still
`special-permission`, which is what `OpenAfter` in `WellFormed` is matched with. `LineRead`
then is one lemma for each kind of line: the first and second heading, an item, a declaration
of one line.

`SequenceLemmas` proves what the community modules' sequence operators (`RemoveFirst`,
`Front`, `Cons`, `Reverse`, …) do to the elements, length, injectivity and order of a
sequence; those are what the cache's and the token store's slices are edited with. Its second
part is about loops: recursive functions over 0 .. n exist and are what their definition says
(`LoopRuns`, `FilterRuns`, `FlattenRuns`), and what they compute is shown by induction over the
set of the numbers that a statement holds for (`UpTo`), as no operator can be a parameter.

Only model-checked, and why:

* `InboxesDrain`, `EntriesGetRemoved`, `RequestsAnswered`, `StopReturns`: liveness under
  fairness, and with it ENABLED, is out of the prover's reach.
* `DataReachesHandler`, and `NoDuplicateMessages` and `CreatedOnce` without their premises: false,
  see below.

## What the models found

* **A message sent again before it is answered is executed twice** (`handler_duplicates`).
  `handler/message.go:84` looks into the cache and `:207` fills it, with the whole handler in
  between. `docs/server-docs.md:64`: "Duplicate IDs return cached response, no duplicate
  business logic execution". When no two connections hold one message at once, it holds
  (`handler_once`).
* **Two `_create` requests for one name can both succeed** (`handler_create_race`):
  `accounts.Get`, `tokens.Generate` and `accounts.Create` are separate steps
  (`message.go:156`).
* **User data over 128 KiB is cut without a word** (`data_cut`). `handler/message.go:63` copies it
  into 131072 bytes, the parser accepts 133120, and `docs/README.md:132` promises 0–130 KB; the
  push is stored cut and acknowledged. The route's buffer (512 bytes) is cut the same
  way, and nothing else is lost (`ReachesOrIsCut`).
* **The documented configuration file sets nothing** (`config_format`). `docs/server-docs.md:101`
  shows `key = value` lines and `config.go:42` speaks of a "key=value or YAML config file"; the
  parser looks for a colon (`config.go:99`) and skips lines without one.
* **A section's name decides what its items are** (`config_sections`). `docs/server-docs.md:109`:
  "section names ignored"; a `[header]` opens the section it names (`config.go:71`), and an item
  below it goes to that list or user. `FileMeansWhatItSays` is therefore about what the code means,
  as its own comment at `config.go:70` has it, and not about this line of the documentation.
* **The idempotency cache is not LRU** (`cache_lru`). `idempotency.go:9` and
  `docs/server-docs.md:63` say that it is. New keys are appended at the end that is evicted from
  (`idempotency.go:55`), so a full cache evicts the newest key that was never used again, which
  may be the most recently used of all. Among answers that were replayed it is LRU
  (`ReplayedGoByAge`).

Faults of the code that the properties have to exempt, and name:

* A `_pull` with a negative offset panics in the slice expression at `store/message.go:77`, as
  `handlePull` takes the offset from the message unchecked, and ends the process: the
  exception of `RequestsAnswered`, and "panicked" in `StopReturns`.
* `conn.Write` has no deadline (`connection.go:33` sets one for reads only), so a client that does
  not read its answer holds `wg.Wait` and with it `Stop`: the premise of `StopReturns`.
* push and pull ignore the error of `SaveConfig` (`push.go:69` and `:118`, `pull.go:58`) and go on
  with a `.smprc` that is unchanged, empty or partly written: the incidents "unsaved" and "mixed".

Divergences met while modelling that no run states:

* A generated tail can be one that is bound already; the token is then rebound to the
  new user (`token.go:44`), while `docs/README.md:221` says that the command "returns a token
  bound to that user".
* A file that an earlier process left, or that lost its entry, is never removed, as
  `Cleanup` walks the entries; `docs/server-docs.md:74` says that it "removes expired files".
* After a torn write a part of a private upload may lie under an older, public entry of
  the same identifier (`cfm.go:52`, `docs/server-docs.md:73`); `FileMatchesEntry` and
  `FilesStayPrivate` are therefore about complete files.
* The configuration file overrides flags that were given explicitly: `main.go:21` parses them
  first and `main.go:30` reads the file over them.
* `watch-context` offers protocol flags (`main.go:82` and `:100` of the client) but uses the
  saved protocol (`watch.go:47`), which is never empty. Its hint to use `push -u` with a server
  only (`watch.go:39`) leads to a usage error until a user was saved.
* The http transport, and so `--force`, posts to a server that speaks no http; ssh is a stub.
* A closed connection counts as an answer (`transport.go:210`), so push records an identifier
  the server may not have seen. In `ClientHistory` that is the incident "eof", which
  `SavedConfigIsReal` has to exempt.
* `-u` is saved before the addresses are parsed (`push.go:69`), so an address that every later
  command refuses stays in `.smprc`.
* `docs/cfm-docs.md` lets an admin download private files; the library knows no admin.
* Messages that a client sends without waiting for the answer can be lost: `reset` drops
  what was read behind the end of a message (`connection.go:54`). The parser then starts in the
  middle of one, and if its user data spells a whole message, that is handled (`stray` in
  `Server`).

## What is not modelled

* *Contents*: user data, context pairs and texts, except what the parser extracts; the
  format of responses; logging.
* *The C interface's null checks, token validation and callback setters*: the programs pass no
  null, validate no token and set no callback. Except in `Getters`, getters return whole fields.
* *The configuration as `Handler`'s constant*: `ConfigFile` says which one a file gives,
  `Handler` takes any. Not in the documents are users named like a setting, a misspelt key
  with items below it, and a list or user that is declared twice: there the file does not
  mean what it says (a sub-key `verbose` sets the switch; items below `whitelst:` join the
  list before it, though not those below `[whitelst]`; a second `[blacklist]` adds to the
  first where a second `blacklist:` replaces it).
* *What the client prints*, the payload from standard input, the context flag and the own
  address; the tables of `error.go`. `cfm install` only prints.
* *Host programs of the CFM library*, but for the one thread that asks and loads.
* *Restarts of the server as a whole*: cache, tokens, accounts and messages are in memory
  only and a new process starts from `Init`; only the files survive, and `CFMStore` models
  that.
* *The mutexes*: every method holds its store's from entry to return and takes no other one, so a
  method is one action and none can wait for ever.
* *The transport of `Handler`*: its clients send any of the messages at any time and may not
  read; bytes, deadlines and Stop are in `Server`.
* *`GetByID`, `AccountStore.Delete`, `Permissions` of accounts*: nothing
  calls the first two, nothing changes or reads the third.
* *Token, error and md5 helpers of the core*: pure functions without state.

## Plan

Done, in this order: the inventory; the stores (`IdempotencyCache`, `TokenStore`,
`MessageStore`, `CFMStore`); `Handler` over them, with its history and `OnceOnly`; `Policy`;
`Wire` and `Parser`; `Server`; the proofs of these; then `Client`, `Getters`, `ConfigFile` and
`CFMLibrary`, with the library's proofs; the handlers' proofs and those of
the connection loop; then the proofs of the message store, the cache's layout, the parser
against the assembler, the handlers against `OnceOnly`, and the client; and of the
configuration file, for which `Meaning` became a recursive function and what a document keeps
to a definition.

Next, the model: `Server` composed with `Handler` through the parser's `done`, in place of
`Receive`, and the client's processes in place of the clients of `Server`.
