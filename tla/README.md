# Verification of solace-rs

TLA+ models, TLC runs and TLAPS proofs for `solace-rs`: safe Rust bindings to
the Solace C messaging library, and the failover rig built on them. The modules
follow the code under `src/`, `examples/` and `failover-rig/`; line references
in comments and in `PROJECT.json` are to those files.

## 1. The system

The crate wraps a C library that has a thread of its own. Nearly all of the
crate's difficulty is in what that **context thread** and the application's
threads share: closures boxed in Rust and called from C, a map of promises, a
thread-local, reference counts, and the order in which everything is freed.

| Part | Source | State it keeps | Operations |
|---|---|---|---|
| Context | `context.rs` | a process-wide `OnceLock` with the result of the one initialisation and its crypto configuration, one C context behind an `Arc` | `new`, `with_crypto`, clone, drop |
| Session | `session.rs`, `session/builder.rs` | C session, a context clone, two closure boxes | build (create, connect), publish, publish_multiple, subscribe, unsubscribe, request, disconnect, cache_session, drop |
| Cache session | `cache_session.rs` | C cache session around a session | build, blocking request, drop |
| AsyncSession | `async_support.rs` | `Arc<Mutex<Session>>`, `ack_senders`, `next_corr_id`, message and event channels | publish, publish_with_ack, publish_multiple, subscribe, unsubscribe, create_flow, recv, try_recv, recv_event, take_event_receiver, disconnect, drop |
| Event trampoline | `util.rs` | the thread-local `CURRENT_EVENT_CORR_PTR` | `static_on_event`, `static_on_message`, `static_on_flow_message`, `static_on_flow_event` |
| Error information | `util.rs`, `lib.rs`, `session/event.rs`, `flow/event.rs` | kept by the C library, per thread | `from_raw` of codes and events, `get_last_error_info` |
| Flow | `flow/` | C flow, closure boxes, a borrow of its session | build, start, stop, ack, settle, drop |
| OwnedAsyncFlow | `async_support.rs` | C flow, closure boxes, an `Arc` of the session, two channels | recv, try_recv, recv_event, start, stop, ack, settle, drop |
| Messages | `message.rs`, `message/` | one C message each | builder, getters, conversions |
| Builders | `session/builder.rs`, `flow/builder.rs`, `cache_session.rs`, `context.rs` | options that may be set | setters, checks, property lists |
| Build script | `solace-rs-sys/build.rs` | the tarball, the extracted tree and its marker in `OUT_DIR` | choose, fetch, verify, unpack, mark, link |
| Requests and replies | `session.rs`, `examples/request_reply.rs` | what the responder's channel holds | request, reply |
| Failover publisher | `examples/failover_publisher.rs` | `SHUTDOWN`, `is_leader`, inbox, rolling counts | callback, drain loop, signal handler |
| Egress gate | `examples/egress_gate.rs` | `SHUTDOWN`, `is_leader`, `relay_q` | two callbacks, relay loop, signal handler |
| Load generator, recorder | `examples/load_gen.rs`, `examples/output_recorder.rs` | the next input; the rows written | publish, SIGTERM; record |

**How they interact.** A builder hands the addresses of its closure boxes to the
C library; from then on the context thread may call them. `publish_with_ack`
puts a oneshot sender in `ack_senders` under a fresh id, tags the message with
the id, and publishes under the session mutex. The library's event about the
message passes the tag to `static_on_event`, which leaves it in a thread-local
for the `on_event` closure, which takes the sender out of the map and resolves
it, or forwards the event to the event channel. A flow's messages go through its
closure into an unbounded channel. All calls of an `AsyncSession` that publish,
subscribe or bind go through the same mutex, and read the error information of
their own thread when they fail. The two rig programs combine sessions and flows
with an exclusive queue that elects a leader. The build script decides which C
library all of this is linked with.

**What is hard here.** An answer can overtake the publish that asked for it. The
session mutex is held through a blocking send that only the context thread can
unblock. Callers give up, publishes fail, tags get lost, sessions and flows are
dropped in any order on any thread. Replicas are killed between publishing and
acknowledging, acknowledgements are buffered, redelivered messages are still in
somebody's inbox. Contexts race to initialise the library, a bind holds the
session while events come in, a reply comes after its request timed out, a build
is killed while it unpacks. `PROJECT.json` lists each such hazard at its line.

**What makes each part correct.**

- *Publishing*: an answer resolves exactly the promise of its own message;
  nothing is left in the map that is not owed; whoever waits is served; nobody
  waits for the context thread while holding what it needs.
- *Ownership*: C objects go children first, each once; a closure outlives the C
  object that calls it; in the end everything is reclaimed.
- *Flows*: with client acknowledgement no message is deleted that was not
  accepted, none is stuck between broker and application, all are received.
- *Failover publisher*: at-least-once with recognisable duplicates; no split
  brain; a graceful handoff without duplicates; a standby that resumes.
- *Builders and messages*: the C library gets every option's last value in a list
  that ends; a refusal has the reason it names; a message reads back as built, and
  fields of other publishers do not confuse the getters.
- *Shared session*: batches stay together, no call waits for ever for another,
  everything that arrives comes out once and in order.
- *Initialisation*: one configuration for the process, whoever comes first.
- *Build script*: the marker means a whole tree of one archive, pinned bytes are
  the only ones, builds heal.
- *Egress gate*: gates take turns; counts never go back; a leader that knows it
  and relays the newest row.

## 2. Modules

| Module | Models | Its state and actions in the code |
|---|---|---|
| `AckPromise` | what `publish_with_ack` promises (abstract) | one promise per call: made, answered, resolved, withdrawn, closed |
| `AsyncPublish` | publishing on an `AsyncSession` | `pc` is a call's place in `publish`/`publish_with_ack`; `ackSenders`, `nextCorrId`, `innerLock`, `corrPtr` are the code's variables; `mapLocked` is the mutex of the map; one action per lock, C call or map access |
| `AsyncPublishProofs` | theorems about it | |
| `SessionLifecycle` | who owns what and who frees what | `sess`, `flow`: stages of the Rust values (`destroyed`, `unref`, `freed` are `Drop::drop`, then the fields in order); `csess`, `cflow`, `cctx`, `cache`: the C objects; `handle`, `owner`, `ctxRef`: the owners an `Arc` or a borrow counts. A `CacheSession` goes in two drops, its own (`DropCache`) and then its session's (`DropCachedSession`) |
| `SessionLifecycleProofs` | theorems about it | |
| `FlowDelivery` | a flow, by `OwnedAsyncFlow` or by callback, from the broker's spool to the application and back | `transit` is the C library's window, `msgRx` the channel, `held` what `recv` returned, `ackBuf` the library's acknowledgements not yet sent; `api` and `mode` are fixed by `create_flow` or `FlowBuilder::build` |
| `FlowDeliveryProofs` | theorems about it | |
| `ReturnCodes` | codes of the C library and their names, events known and unknown | operators for `from_raw` |
| `Calls` | threads that make calls one after the other | `program` and `at` say which call a thread makes, `pc` is the place in it, `results` the codes its calls returned |
| `GlobalInit` | `RawContext::new` | `globalInit` is the `OnceLock`, a thread that waits for it has `pc` "once"; `initRaw` is what it remembers, `library` what the C library was told, `warned` who was told that his configuration is ignored |
| `SessionCalls` | an `AsyncSession` several threads share, and its context thread | `innerLock` is the session mutex, `sent` the place in a batch, `channel` the unbounded channels, `inbound` what the library has yet to hand over; `arrived` remembers in which order it came |
| `RequestReply` | `Session::request` and the responder | `asked` is the responder's channel, which goes with it when it ends or panics, `held` what it answers, `replies` what is on its way back; a reply is the request it is for |
| `Application` | a process that does any of these: `Calls`, `GlobalInit`, `SessionCalls`, `RequestReply` together | one `Next` for all threads, the context thread, and what arrives |
| `ApplicationProofs` | theorems about it | |
| `FailoverPublisher` | the replicas of the rig, their connections and the exclusive queue | `pc` is the place in the drain loop; `inbox`, `shutdown` are the code's; `wire` carries outputs, acknowledgements and the unbind in order |
| `FailoverPublisherProofs` | theorems about it: turns and at-least-once; marks, order and the graceful handoff | |
| `FailoverRig` | the publisher between load generator and recorder | `seq` is the generator's counter, `inFlight` what the broker has yet to queue, `written` the rows of the recording |
| `EgressGate` | the gates, their replicas' rows, the election | `isLeader`, `relayQ`, `shutdown` are the code's; `events` are flow events on their way to the closure |
| `EgressGateProofs` | theorems about it | |
| `BuildScript` | `build.rs`, run any number of times under any settings, and interrupted anywhere | `tarball`, `tree`, `marker` are the files; `env` the variables of this run; `next` the next entry of the archive |
| `BuildScriptProofs` | theorems about it | |
| `LibraryNames` | names and defaults of properties from the generated bindings | sets and functions |
| `PropertyLists`, `SessionProps`, `FlowProps` | checks and property lists of sessions, flows, cache sessions and the crypto configuration | operators: `...Fault` is the option a builder refuses, `...ToRaw` the list; `LibraryReads` is how the C library takes it |
| `MessageFields` | what `build` writes into a C message and the getters read | operators on a record of the fields a C message carries |
| `Builders` | an application that sets options and builds | `texts`, `nums`, `userProps` are the builder's `Option`s, `raw` the list, `msg` the C message; `asked` remembers the calls |
| `BuildersProofs` | theorems about it | |
| `MC...` | the instances TLC checks | `EXTENDS` the module and adds its symmetry set |

A definition called *Variant of X* is no part of a specification: it is X with
a plausible mistake in it. `PROJECT.json` lists under `mutants` which property
each of them breaks.

**Steps.** An action is what happens between two points where another thread can
look: a mutex operation, an atomic operation, a C call, a callback. Taking a
sender out of the map and using it are two actions because the map's guard
lives through both (`async_support.rs:219-227`, the temporary of the `if let`), and
`mapLocked` keeps the others out in between. A drop is several actions because
`Drop::drop` and the drops of the fields are.

**What is external.** The C library and the broker are not in the repository.
They are modelled as the crate relies on them, and marked `external` in the map:
guaranteed messages occupy a window until their answer has been delivered;
events of one session come one at a time on the context thread;
`solClient_session_destroy` and `solClient_flow_destroy` return only when no
callback runs; acknowledgements are sent in bulk and behind what was published
before on the same connection; an exclusive queue delivers to one bound flow at
a time and redelivers what that flow had not acknowledged.

## 3. Runs

| Run | Instance | Shows |
|---|---|---|
| `publish` | 2 calls, window 1, failing sends and tags, session with or without a flow | answers resolve their own promise and stay private, the map is what is owed, waiters are served, `ImplementsAckPromise`, no deadlock through the session mutex, every answer ends its wait |
| `publish_lost_tag` | as above, sends succeed | **violated**: a lost tag turns a tracked answer into an event |
| `lifecycle` | 2 sessions, 2 flows | children first, closures outlive their callers, destroyed once, nothing leaked |
| `lifecycle_failed_connect` | 1 session, 1 flow | **violated**: a failed connect leaves a C session with freed closures |
| `failover_faults` | 2 replicas, 3 inputs (the last malformed), 2 unacknowledged, crashes, 1 demotion | at-least-once and marked duplicates always; no split brain, queue order, no stale output without a demotion; no duplicate without crashes |
| `rig` | load generator, 2 replicas, recorder; 3 inputs (the second malformed), skipped ones, crashes, no demotion, fairness | every well-formed input that got into the queue is recorded while a replica is healthy |
| `gate` | 2 gates, 2 rows, lag 1, crashes, 1 demotion, fairness | turns, monotone counts, newest row relayed, a leader that knows it |
| `flow` | 4 messages, window 2, 3 unacknowledged, 3 bindings, both APIs and both modes, fairness | nothing lost, nothing stranded, everything seen |
| `application` | 2 threads, 8 pairs of programs, chunks of 2, 2 arrivals, fairness | one configuration, whole batches, arrivals in order, every call returns: also one that waits for the initialisation of another thread, or for a reply nobody sends |
| `builders` | 2 setter calls behind the required ones, values on both sides of every bound | lists end and carry the last word of every option; refusals are just; messages read back; foreign fields are not invented |
| `cache_limit` | a cache session | **violated**: the message limit of a cache session never reaches the C library |
| `build` | six platforms, four that have an archive and two unsupported, an official archive of two entries and two others of one, digests pinned or not, any order of settings and interruptions | the marker proves the tree, pinned bytes only, builds heal |

**Why the bounds are enough.** Two calls give every race of the publishing model:
two threads at the counter, the map, the mutex and a window of one, with the
context thread in between; the proofs cover any number. Two sessions and two
flows give shared and separate owners of one session and of the context. Three
inputs with two unacknowledged give a backlog in the inbox, a redelivery and an
order; one demotion is enough to get a replica back in the lead with an old
inbox. For the gates two rows and a lag of one tell a stale gate from a fresh
one. Options are independent of each other, so two calls behind the required ones
reach every pair of options and every setting of one option twice; a word of 16
has the same two halves as a `u64`, and 3 bytes of user data stand for the limit.
Three bindings give a drop and a reconnection in every order. A chunk limit of 2
for the code's 50 lets batches of 0, 1, 3 and 5 be empty, one chunk, and several
with a short last one. The program pairs of `application` put together what
competes: contexts for the initialisation, batches and binds for the mutex, a
subscription that is refused, an event receiver that changes hands, a flow's
events beside the session's, requests and their responder; the events that arrive
are two the crate knows and one it does not. Archives that share file names
are enough to mix them in one tree. `MaxBinds`, `MaxDemotions`, `MaxArrivals` and
`MaxCalls` bound otherwise endless behaviour; the other parameters bound nothing
the code does not bound, apart from the length of the input. Symmetry over
interchangeable replicas is used only where no liveness property is checked.

**Conditions in the properties.** `LeadersTakeTurns`, `OutputsFollowTheQueue`,
`AckedInputsStayDone`, `GatesTakeTurns` and `CountsNeverGoBack` say what holds
until a flow loses the lock while it stays bound; with such a demotion the
programs do not keep them: the publisher's drain loop works off a stale inbox
beside the new leader (`failover_publisher.rs:160-175` does not ask `is_leader`), and
the gate's relay loop its queue (`egress_gate.rs:123-143`).
`AckedInputsWerePublished` holds unless publish fails on a live connection
(`PublishMayFail = FALSE`). `BuildsHeal` is about platforms
with an official archive. `NothingIsLost` is about `AckMode::Client`, and in
both modes about callbacks. `GracefulHandoffIsClean` is about runs without a kill or a lost connection.
`MessageReadsBack` leaves two conversions out that do not come back: a topic is
written as a temporary one (`message/destination.rs:24`), and sequence numbers from
2^63 on are read as negative ones (`message.rs:290-302`).

**Fairness.** Weak fairness stands for a thread that runs: a publishing call, the
context thread, a main loop, a drop that has begun. The broker answers what it
has received, delivers and elects (weak), the library's acknowledgement timer
expires (weak). In `application` the threads and the context thread run; a bind is
answered by the broker, and that it would time out otherwise is not used. In
`rig` generator and recorder run too. A build script that runs ends (weak);
somebody builds without special settings again and again, and official server
and disk do not fail every time (strong), which is what retrying a failed build
amounts to. `AnswerEvent(c)` has strong fairness because the library delivers
events in the order of their arrival, so other events cannot displace an answer
for ever. No fairness is assumed for signals, kills, lost connections, demotions,
new calls, failing sends or an application that drops something; a killed
process's connection is eventually noticed (keepalive).

## 4. What is proved

For all values of the constants, from the assumptions the modules state about
them: `NoCall`, `NoSession`, `NoReplica`, `NoGate`, `NoThread` are none of the things
they are not, a thread is none of the kinds of things that arrive, a message that asks for no reply
is no request, at most one thread responds, numbers are natural, programs are finite
sequences, an archive has entries. For the builders `SamplesAssumption`
gives the numbers the types of the setters' arguments (`u64`, `u32`, `i64`, `u8`), and
`NumeralsAssumption` says that a number does not read like the null pointer at the end
of a list. Finiteness of the sets is not needed. The type invariants of the seven
concurrent modules are proved and not run once more; the types of the builders are part
of their `IInv`.

*`AsyncPublishProofs`.* `Invariance`: `IInv` is an invariant. The safety
properties are conjuncts of it, but not inductive by themselves:

- `IdsAreUnique` (ids are handed out once; a tag is its own call's id or null),
- `CallsAreInStep` (what a call has done by the time it is at a step),
- `MapIsRight` (a sender is in the map from before the send until the closure
  takes it),
- `EventIsRight` (the event in hand is about an answered message in the window
  and carries that message's tag),
- `TeardownIsFinal` (nothing happens after the last `Arc`).

With uniqueness a lookup finds the message's own sender, with `MapIsRight` it
finds one whenever there is a tag: hence `PromisesKept` and `AnswersPrivate`.
`NoSenderForgotten` and `NoWaiterForgotten` are the two directions of "the map is
what is owed". `Refinement` maps receivers to promises and `SessionAlive` to `open`:
`InsertSender` is `Promise` (it displaces nobody), `RemoveSender` and `DropReceiver`
are `Withdraw`, `ClosureResolve` is `Resolve` or invisible, the drop of the last
`Arc` is `Close`, and everything else is a stutter.

*`SessionLifecycleProofs`.* `Invariance` for `IInv`: `SessionsAreInStage` and
`FlowsAreInStage` (what exists at each stage of a drop), `ContextIsCounted`,
`LiveSessionsAreOwned`. From it `ClosuresFound`, `ChildrenFirst`, and the action
property `OneDestroys`: a session is destroyed only by an owner that found it
alive.

*`FlowDeliveryProofs`.* The two properties are inductive together with
`WayBackIsRight` (what travels back was accepted, or seen by a callback) and
`AutoIsAtOnce` (in `AckMode::Auto` the library holds nothing back for the
application). `NoMessageLost` and `NoMessageStranded`.

*`FailoverPublisherProofs`.* `IInv`: the loop holds an input between pop and ack, a
connection carries its own replica's frames with the unbind last
(`OwnFrames`, `UnbindIsLast`), and without a demotion whoever may still put out
anything is the Active replica (`OnlyTheActivePublishes`) while all other outputs
are of replicas whose binding is gone for good (`OutputsFollowTheLock`): hence
`TurnsAreTaken`. For at-least-once `AckInv` follows one input along the program:
what the loop is about to acknowledge has been sent, so has what is in the
library's buffer, and on the wire an acknowledgement is behind the output it is
about. It is inductive whatever crashes, whatever connection is lost and wherever
the lock goes, but not with a publish that fails: `AtLeastOnce` assumes
`~PublishMayFail`.

The second half of the module is about order. What comes out depends on copies of one input in five
places: in the inbox, in the loop, among the acknowledgements the library has
noted, on the connection, downstream. `Items` puts all of them on one line for each
replica, `Before` orders the line, and every step either moves items along it
(`ItemsMove`) or puts a new copy at its end (`Deliver`). The invariant `OrderInv` is
about items, not about outputs, because an output inherits what it is from the copy
it was made of:

- `ItemsWereDelivered` and `SecondCopiesAreMarked`: a copy is on a line only when
  the queue knows it as sent, redelivered or removed, so a second copy is
  delivered as a redelivery. This needs no lock and holds through crashes and
  demotions; `SecondOutputsAreMarked` is what it says of the end of the line.
- `LinesAreInOrder`, `NewcomersHoldNothing`, `ActiveHasAllBefore`,
  `UnpublishedAreQueued` (together `LockInv`, without a demotion): a copy comes behind
  the copies and the acknowledgements of earlier inputs, because what the Active
  replica is given next is later than all it has. From it `QueueOrderIsKept`, and
  `DoneIsDone`: what the Active replica has yet to publish is still in the queue, so
  the step that puts an output downstream is about no removed input.
- `PublishedAreAcknowledged` and `StoppedHasNothingNoted` (runs without a kill or a
  lost connection): what has been published is removed, or its acknowledgement is
  under way in front of the unbind. Otherwise a drop of the flow could return an
  input that is out already; with it, `HandoffIsClean`.

*`EgressGateProofs`.* The same argument as for turns with `relayQ` in place of the inbox
(`OnlyTheActiveRelays`, `RowsFollowTheLock`): `TurnsAreTaken`. For the counts `CountInv`
compares every row that waits with every row that is out: a gate's rows are not
ahead of its replica (`CountsAreFed`), and replicas are within the lag of one another,
so a row fed to the new leader may follow all that the old one has relayed
(`WaitingFollowsRelayed`, which needs that nobody but the Active gate has rows
waiting). This holds for any `MaxLag`: `CountsGoBackByLess` is a bound on how far
counts go back at a handoff, which no run states, and `CountsGoUp`, with its hypothesis
`MaxLag = 1`, the property of the run.

*`ApplicationProofs`.* For any number of threads and any programs. `IInv`: the
session mutex is held by exactly the thread in a C call of the session
(`MutexIsHeld`), a thread's place says what it calls (`InACall`), the closure of
the `OnceLock` runs on one thread and before anything depends on it
(`InitialisedOnce`), a call that has ended has its result. From it `MutualExclusion`
and `ConfigurationIsDecidedOnce`. `BatchesGoTogether` needs `BatchInv` on top: what a call
has sent of its batch is the end of the wire (nobody else writes, by the mutex), a
call that has sent nothing has nothing on the wire, and one that returned Ok has
its last message there.
`ArrivalsComeThrough` is about every item by itself (`ArrivalInv`): what has been received
of a kind, followed by what is in its channel, begins what has arrived, and every later
item has a place of its own among those the library still holds, in the same order
(`RestWaits`). Handing over the oldest takes the first of these places, which is the next
item, and a receiver that changes hands changes who reads and not what is next.

*`BuildersProofs`.* For any numbers, any number of setter calls in any order, and any
required option left out. `IInv` says of every field that it is the last word on
its option, or what the field started with (`TextsInv`, `NumsInv`, `UserPropsInv`), of
every call that it has the type of its setter (`AskedInv`), and of the result that
it is what the checks and the list function make of the fields (`BuiltInv`).
`Invariance` goes through the setters once; the rest is about the functions.

- `SessionsAreRefusedJustly`: all of the 24 checks of a session are in the order the
  builder makes them in, so the first fault is "none" exactly if none of them fails
  (`NoFault`, `EverythingIsChecked`), and the bounds are those of the error messages
  (`RangesAreTheNamedOnes`).
- `ListsCanBeRead` and `TheLastWordArrives`: pushing the options of an order one after
  the other gives one pair for each option that is set, in that order and nothing
  else (`PushAllPairs`), and the library reads such a list back, up to the null
  pointer, as what was pushed (`ListsAreRead`), provided that no two options share a
  property and no value is the null pointer. The rest is one lemma per kind of
  list: its order has every option once, the names are different, and
  an option that is not pushed has the library's default, which is what is promised.
  For a cache session `max_message` is left out: `CacheLimitArrives`.
- `MessagesReadBack` and `NothingIsInvented`: what `build` writes, field by field, and what
  each getter makes of it.

`PushAll` flattens a sequence of pairs, which the community modules define with a
recursive function; `SetInduction` (a set of numbers with 0 and every successor has them
all, from the library's theorem on smallest elements of well-founded sets) stands
in for the induction theorem of the library, which takes an operator and is out of
reach.

*`BuildScriptProofs`.* `BInv`: what has been unpacked so far is in the tree and
comes from the tarball of this URL, waivers are noted before they count, nothing
is linked without the marker. `MarkerIsProof` and `PinHolds` follow for any
platforms, archives and environments.

Each proof has one lemma per action or group of alike actions and one step per
conjunct the action can disturb.

**Only model-checked.** The liveness properties (`EveryPublishReturns`,
`EveryAnswerArrives`, `NothingIsLeaked`, `EveryInputIsRecorded`, `SomebodyLeads`,
`LeaderRelaysTheLatest`, `EveryMessageIsSeen`, `EveryCallReturns`, `BuildsHeal`):
liveness under fairness is out of the prover's reach. The three properties that the
code violates are not invariants to prove; every other property of a run is a
theorem.

## 5. Where code and words differ

Three disagreements have a run that shows them; `PROJECT.json` quotes the
sentences they contradict.

1. `publish_lost_tag`: `set_correlation_tag` ignores its return code
   (`message/outbound.rs:57-73`).
2. `lifecycle_failed_connect`: a failed `connect` leaks a C session that keeps
   freed closures (`session/builder.rs:264-278`).
3. `cache_limit`: the limit of a cache session is passed under the default's text
   instead of the property's name (`cache_session.rs:89`).

These were met while modelling and have no run:

- The failover publisher acknowledges an input whose publish failed
  (`failover_publisher.rs:197-204`); `AtLeastOnce` needs the assumption that none does.
- The failover publisher's drain loop publishes from a stale inbox after an
  INACTIVE event, where `failover_publisher.rs:162-163` says "the single exclusive
  queue makes simultaneous double-publish impossible". The egress gate relays
  queued rows after one (`egress_gate.rs:123-143`).
- `settle` with `Failed` or `Rejected` is refused on every flow, because no flow asks
  for these outcomes (`async_support.rs:484-506`, `flow/builder.rs:213-268`).
- The flags of a cache request are combined with `&` (`cache_session.rs:134-136`),
  which gives none.
- All pinned checksums of the build script still are placeholders, so no
  download is verified (`solace-rs-sys/build.rs`); and with the marker in place a
  change of `SOLCLIENT_TARBALL_URL` keeps the old library.
- On an unsupported platform the script tells the user to set `SOLCLIENT_TARBALL_URL`
  (`solace-rs-sys/build.rs:64-65`, `282-288`), but `SOLCLIENT_ARCHIVE_PATH` is empty there
  (`17-42`): the tarball's path is the output directory itself (`293`), so
  `File::create` (`154`) always fails. `Fetch` has it (`HasArchiveName`): only
  `SOLCLIENT_LIB_PATH` helps such a platform.
- The example responder panics on a request without a correlation id
  (`request_reply.rs:101`) and answers one message, which need not be a request.
- A context that joins a failed initialisation reports the error information of its
  own thread, which is about something else (`context.rs`, `util.rs:184-196`).
- `publish_multiple` does not read `n_written` (`session.rs:78-92`): how much of a
  failed batch is out stays unknown.
- With `KEYED=1` the inputs of `load_gen.rs` do not parse in the failover publisher, which ignores
  them without an acknowledgement.
- `window_size` is documented as a bound on unacknowledged messages
  (`async_support.rs:427-428`), but it bounds messages in transit to the library, and
  the closure moves those to an unbounded channel at once.
- `browser` and `replay_start_location` are "mutually exclusive"
  (`flow/builder.rs:75-84`), but `build` passes both on.

## 6. Not modelled

- Payloads, topics and formatting; rolling counts and `output_seq`, which are
  functions of what was published.
- The publisher window while a batch is sent: `AsyncPublish` has the window and
  single messages, `SessionCalls` batches and no window.
- The growth of the unbounded channels, and `clear_receiver`.
- `AckMode::Auto` after delivery to the channel: the library has acknowledged
  by then, so nothing is promised.
- `blocking_cache_request`: one C call.
- The error information of the C library and `get_last_error_info`
  (`util.rs:184-196`): results are codes. The C library keeps it per thread; between the
  failure and the reading `create_flow` unlocks the session (`async_support.rs:540-555`).
- How the C library finds the request a reply is for (the correlation id): a reply is
  the request it answers.
- Which libraries are linked on which platform.
- Getters on failures of the C library: `get_destination` and `get_reply_to` read
  every code but two as a destination (`message.rs:305-353`), also
  when the pointer is null.
- Who owns a C message and frees it, replication group ids, the JMS string
  payload, failing allocations of the C library.
- `bindgen`, `wrapper.h`, and of the generated bindings all but names and defaults.
- The leader probe, the offline analysis of recordings, scripts, tests.

## 7. Plan

Done: `AsyncPublish`, `SessionLifecycle`, `FlowDelivery`, `FailoverPublisher`,
`EgressGate`, `Application` with its parts, `BuildScript` and `Builders`, each with
proofs; `FailoverRig`.

Left, in this order:

1. An abstract at-least-once queue that `FlowDelivery` and `FailoverPublisher`
   both implement, with the two refinements proved.
2. `AsyncPublish` and `SessionCalls` in one module: a batch that fills the window.
