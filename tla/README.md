# ofxZeroMQ in TLA+

ofxZeroMQ is an openFrameworks addon that wraps libzmq 4.3 and cppzmq in socket
classes (`Publisher`, `Subscriber`, `Request`, ...).  Its own code is one header,
`src/src/ofxZeroMQ.h`, with the converters in `src/src/detail/`; the libraries are
vendored under `src/libs/`.  The wrapper is thin, so what a call of it does is decided
by the library code it reaches: the models follow a call from the wrapper through the
socket, the pipe and the session down to the connection, as far as a state of theirs is
changed.  Most of the vendored lines are socket types, transports and security
mechanisms that the addon does not use; they are not modelled.

Contents: [The system](#the-system), [The modules](#the-modules),
[State and code](#state-and-code), [Runs](#runs), [Findings](#findings),
[Proofs](#proofs), [What the models leave out](#what-the-models-leave-out),
[Observations](#observations), [Plan](#plan).

## The system

Each socket belongs to one application thread, which calls it from a frame loop
(`update()` of an ofApp).  libzmq runs I/O threads (`get_context` asks for four) and a
reaper's thread.  Each connection has a *session* and an *engine* in an I/O thread, and a
*pipe* joins the session to the socket.  Threads share the lock-free queues of a pipe and
otherwise send each other commands (a pipe was replaced, a reader got this far, a peer
went away), which a socket processes in its next call.

| Component | State | Operations | Talks to |
|---|---|---|---|
| Subscriber (`ofxZeroMQ.h:883`, `sub.cpp`, `xsub.cpp`) | set `filters`; counted trie of subscriptions; fair queue of pipes; a prefetched message | `connect`, `disconnect`, `addFilter`, `removeFilter`, `removeAllFilters`, `hasWaitingMessage`, `getNextMessage(s)`, `receive`, `receiveMultipart` | subscription commands to publishers, through its pipes |
| Publisher (`ofxZeroMQ.h:866`, `xpub.cpp`, `dist.cpp`) | table of filters per pipe; array of pipes with the marks *matching*, *active*, *eligible*; `_more` | `bind`, `connect`, `send`, `sendMultipart`, `setSendHighWaterMark` | frames to the pipes that match |
| Receive API (`ofxZeroMQ.h:784-856`, `fq.cpp`) | poll item with `revents`, current pipe, `_more`, prefetched message | `hasWaitingMessage`, `getNextMessage(s)`, `receive`, `receiveMultipart` | the pipes of all connections |
| Push, Request, Dealer (`lb.cpp`) | array of pipes with the one in turn, `_more`, `_dropping` | `send`, `sendMultipart` | the same |
| Calls that wait (`socket_base.cpp`, `zmq.cpp`) | `_ticks`, `_last_tsc`, the mailbox, `_ctx_terminated` | `send`, `recv`, `zmq_poll` | commands of the I/O threads |
| Request, Reply, Router, Dealer, Broker (`ofxZeroMQ.h:1091`) | the alternation of asking and answering, connection numbers, `is_running`, `is_finish`, a detached thread | `send`, `receive`, `setup`, destructor | each other |
| XPubSubProxy (`ofxZeroMQ.h:1131`) | as Broker | `setup`, destructor, the loop | publishers and subscribers |
| Message, MultipartMessage, converters (`ofxZeroMQ.h:155-665`) | frames of bytes, the argument to convert next | constructors, `addArguments`, `convertTo` | none |
| Pipe (`pipe.cpp`) | two ends with their states, counts and marks; two ypipes | `write`, `read`, `hiccup`, `terminate` | its other end, by commands |
| ypipe, yqueue (`ypipe.hpp`, `yqueue.hpp`) | pointers into a list of chunks, one of them shared | `write`, `flush`, `read`, `check_read` | reader and writer, by compare-and-swap |
| Mailbox, signaler (`mailbox.cpp`) | a ypipe, a mutex, an eventfd, `_active` | `send`, `recv` | any thread to one |
| Session, engine (`session_base.cpp`, `stream_engine.cpp`) | pipe, engine, state of the handshake, stopped input and output | attach, read, write, lose the connection, reconnect | the pipe's end, the poller, the network |
| Encoder, decoder (`v2_encoder.cpp`, `v2_decoder.cpp`) | position in a message, shared receive buffer | `encode`, `decode` | the engine |
| Poller, timers, connecter (`epoll.cpp`, `poller_base.cpp`, `tcp_connecter.cpp`) | descriptors, timers, events not handled | the loop of the I/O thread | session, connecter, engine |
| Owned objects (`own.cpp`) | the tree of a socket's listeners, sessions, connecters; counters of commands and acknowledgements | `launch_child`, `term_child`, `terminate`, `process_*` | each other, by commands |
| Context, reaper (`ctx.cpp`, `reaper.cpp`) | slots, sockets, `_terminating` | `create_socket`, `terminate`, `reap` | every socket |
| Inproc (`ctx.cpp`, `socket_base.cpp`) | registry of names, pending connections | `bind`, `connect`, `unbind`, `disconnect` | two sockets, directly |
| Tables (`trie.cpp`, `generic_mtrie_impl.hpp`), contents of messages (`msg.cpp`) | nodes; reference counts | `add`, `rm`, `match`; `copy`, `close` | none |

What is hard: three tables of subscriptions in two processes that have to agree while an
I/O thread replaces the pipe between them; messages of several frames that meet a full
pipe, a lost connection or a changed option in the middle; arrays of pipes whose elements
move between two frames of a message; a receiver that keeps a message between two calls;
a wake-up that is not sent when it is thought not to be needed; objects that end each
other from different threads, with commands still under way; memory that several threads
release; detached threads with flags that nobody initialises.

What makes each component correct:

- *Subscriber*: a listed filter is installed; a publisher's table plus the commands under
  way equal the socket's subscriptions; after a reconnect the table becomes complete again.
- *Publisher, pipe, session, engine*: a link delivers messages whole, once, in order; a
  message is lost only to a full pipe or a lost connection; one subscriber never disturbs
  another; each message goes where the subscriptions say.
- *Receive API, load balancing*: no message is split over two calls, mixed with that of
  another peer, or lost after it was announced.
- *Calls*: an answer "nothing there" was true at some time during the call; no call sleeps
  over a message or a command that has come.
- *ypipe, mailbox*: a queue in order, and no reader sleeps for ever over what was flushed.
- *Pipe, owned objects, context, inproc, poller*: whatever is closed goes, once, after all
  that could still reach it; no assertion fails.
- *Broker, Request, Reply*: a reply belongs to the last request; the destructor returns.
- *Converters*: what is asked for as the type it was sent as is what was sent.

## The modules

| Module | What it is |
|---|---|
| `Subscription` | the subscription plane: filters, the socket's counts, the commands in the pipes, the publishers' tables |
| `Channel` | abstract: what a publish-subscribe link promises about messages |
| `PubSub` | `Subscription` plus messages, frame by frame; implements `Subscription` and `Channel` |
| `Tries` | the nodes of the two kinds of tables that `Subscription` takes for counts and sets |
| `Dist` | the array of pipes that `PubSub` takes for three sets |
| `Receiver` | the receive API of one Subscriber with several connections, frame by frame |
| `Balancer` | the sending side of Push, Request and Dealer, frame by frame |
| `Waiting` | a socket's calls, what they wait for and the commands that wake them |
| `Pipe` | the two ends of a pipe: marks, hiccup, termination |
| `Fifo` | abstract: a queue between two threads |
| `Ypipe` | the lock-free queue, one access to shared memory at a time; implements `Fifo` |
| `Yqueue` | the chunks of memory below it |
| `Mailbox` | mutex, signaler and ypipe of a mailbox; implements `Ypipe` |
| `Engine` | the engines at the two ends of a connection |
| `Framing` | the bytes between them: encoder, decoder, shared buffers |
| `Content` | the reference counts of a message that several pipes have |
| `Poller` | the loop of an I/O thread with timers and descriptors |
| `Ownership` | the tree of objects of a socket that is being closed |
| `Context` | context, sockets and reaper when the program ends |
| `Inproc` | connections between sockets that find each other by name |
| `Service` | the life of a Broker or an XPubSubProxy |
| `Exchange` | `Service` plus requesters, workers and the requests between them |
| `Codec` | the converters |
| `MCPubSub`, `MCReceiver`, `MCPipe` | the constants for TLC |
| `MCParts`, `MCCalls` | small instances of the other modules, of which a behaviour runs one |
| `*_proofs` | the theorems and their proofs |

`PubSub` EXTENDS `Subscription` and takes each of its actions up: `AddFilter`,
`RemoveFilter`, `RemoveAllFilters`, `Connect`, `ProcessHiccup` and `ProcessCommand` go
on beside unchanged messages, `Establish` becomes `Attach`, `LinkDown` becomes `Break` and
`Disconnect` becomes `Leave`, each with what it does to the data pipe as well.
`Receiver` looks at the reader's side alone and with a finer grain: there `PubSub`'s one
step `Receive` is a poll, a frame held, and several reads.  `Exchange` EXTENDS `Service`:
the thread of the Broker whose life `Service` tells is the one that forwards.  `Mailbox`
uses the actions of `Ypipe` by INSTANCE, with its own state for what `Ypipe` calls the writer's and the
reader's.

The other modules meet through what they assume of each other, and each assumption is
another module's result:

- the counts and sets of `Subscription` and `PubSub` are justified by `Tries` (`Agree`)
  and `Dist` (`Marked`, `AllOrNothing`, in `DistributedRight`);
- the queues of `PubSub`, `Receiver`, `Balancer` and `Pipe`, of which a reader sees whole messages at
  once, by `Ypipe` (`ImplementsFifo`), and its positions by `Yqueue` (`ContentsKept`, in `ChunksAccounted`);
- "a pipe is full" and "a pipe has room again" in `PubSub`, `Balancer` and `Waiting`, by
  `Pipe` (`Bounded`, `Refills`);
- the single step in which a frame crosses a connection, by `Engine` (`Carried`) and `Framing`
  (`Intact`);
- commands that arrive in order and are not overlooked, by `Mailbox` and `Waiting`.

Operators named as mutants in their comments are not part of any specification: each
is an operation with one plausible mistake in it, next to the operation, and breaks the
property that is there for it.

Constants have assumptions where a proof or an operator needs them (`FiltersAssumption`,
`EntriesAssumption`, ...).  A module that is only ever instantiated for TLC states its
bounds in comments instead: TLC evaluates assumptions of extended modules only, and one that nothing
evaluates would be worth nothing.  Theorems about such a module have them as hypotheses.

## State and code

Variables keep the names of the members they stand for, and actions those of the functions, where they can; what
follows are the correspondences that a reader would not guess.

### Subscription

| State | Code |
|---|---|
| `filters[s]` | `Subscriber::filters`, a `std::set` |
| `refs[s][f]` | `trie_t`'s count at the node of `f`, in the SUB socket |
| `link[l]` | "none": no endpoint; "down": the session is connecting; "up": the engine is attached on both sides |
| `hiccuped` | links whose session put a fresh pipe in place (`pipe_t::hiccup`) and whose command the socket did not process |
| `cmds[l]` | commands written by the socket and not yet applied by the publisher, over pipe, network and pipe |
| `trie[l]` | the entries of this pipe in the publisher's `generic_mtrie_t` |

Each call of the wrapper is one action with everything it reaches: `removeAllFilters`
releases the count of every listed filter, sends a cancel for those that reached zero, in
any order the set or the trie may give, and clears the set.  `Connect` first adds the empty filter if
there is none, which also goes to the connections that exist.  Writing between the I/O
thread's replacement of the pipe and the socket's notice goes to the dead pipe
(`Writable`).  `ProcessHiccup` is `xsub_t::xhiccuped`: all live subscriptions again.

### PubSub

| State | Code |
|---|---|
| `sent[p]`, `more[p]` | history of what `p` published; `xpub_t::_more` |
| `hwm[p]` | the send high water mark (`pipe_t::_hwm`) |
| `eligible`, `matching` | the sets of `dist_t`, by position in its array there |
| `inflight[l]` | `_msgs_written - _peers_msgs_read` |
| `stream[l]` | frames between the publisher's end and the application: pipe, network, pipe |
| `got[l]` | history: the last message handed out |

A frame is a record with the number of its message, its part and the more flag; bytes
play no role.  `SendFirst` and `SendNext` are `xpub_t::xsend` for the first and for a
later frame, with the whole of `dist_t`: a refusing pipe leaves *eligible* and *matching*.
`Break` is an engine's error: the publisher's end is terminated; what reached the
subscriber's end as whole messages stays, the rest is rolled back.

### Tries and Dist

`Tries` has the nodes: a node is its count (or its set of pipes), its `min` and the table of its
children, which covers the bytes from `min` on that are in use; `Inserted` extends the table at
either end, `Removed` prunes redundant children and cuts it again, recursively, as `add_helper` and
`rm_helper` do.  `count` is the history the answers are compared with.  `Dist` has `dist_t::_pipes` with the
index that each pipe remembers (`array_item_t`) and the marks `_matching`, `_active`,
`_eligible`; `Swap` is `array_t::swap`.  One matching pipe is done with in each `TryNext` of `Distributed`, written to or left out, so that the loop of
`dist_t::distribute`, which stays at its place when a pipe refuses, takes just as many turns as pipes matched when it began.  `role` says whether it is a publisher's array, whose messages are
matched, or a subscriber's, whose commands go to all pipes.

### Receiver

| State | Code |
|---|---|
| `pipe[p]`, `queue[p]` | the pipe's state and its readable frames |
| `active`, `current`, `fqMore` | the active part of `fq_t::_pipes` in its order, `_current` (from 1), `_more` |
| `held`, `more` | `xsub_t::_has_message` with `_message`, `xsub_t::_more` |
| `skipping` | the inner loop of `xrecv` and `xhas_in` over an unmatched message |
| `revents` | `item.revents & ZMQ_POLLIN` |
| `call`, `blocked`, `answer` | where the application's call is, and what the last one returned |
| `seen[p]` | history: the last frame that left the pipe for good |

A call is not atomic: messages arrive between any two of its frames.  Commands (`Activated`,
`PipeTerminated`) are processed between calls and while one waits, as in
`socket_base_t::process_commands`.  `Careful` says that the application disconnects only
between messages.

### Balancer

`active` and `current` are as in `Receiver`, now of `lb_t`; `more` and `dropping` are `_more`
and `_dropping`.  `queue[p]` holds what a pipe has flushed, `draft[p]` the frames that `rollback` would take
back.  `SendPipe` is one call of `lb_t::sendpipe` with its loop over refusing pipes (`PassOver`); between two calls commands are
processed, which may put a pipe back (`Activated`), end it (`PeerGone`) or take it out of the array (`PipeTerminated`).

### Waiting

| State | Code |
|---|---|
| `inbound`, `asleep`, `inActive` | one inbound pipe: its messages, the reader's NULL in `c`, `_in_active` |
| `outbound`, `unread`, `owed`, `outActive` | one outbound pipe: `_msgs_written - _peers_msgs_read`, what the peer has not acknowledged yet, `_out_active` |
| `mailbox`, `active` | commands sent to the socket, `mailbox_t::_active` |
| `ticks`, `recent` | `_ticks`; whether `max_command_delay` has not passed since `_last_tsc` |
| `op`, `wait`, `at`, `block` | the call and where it is in `send`, `recv` or `zmq_poll` |

`Look` is `process_commands` with its shortcut, `TakeCommand` one turn of its loop, `Sleep` the mailbox's `recv`
with a time-out; `FoundNothing` and `TryInVain` are the first and the later failures of `xrecv` or
`xsend`.  `Poll` first looks without waiting (`FirstPass`), then waits for the descriptor of the mailbox, and reads `ZMQ_EVENTS`
each time.  `Tell` and `Arrive` are the I/O thread.  `there` is the history behind `CallsTold`: what the call
asked for was there when it began.

### Pipe

A method of `pipe_t` is an operator on the record `p` of the pair, so that `terminate`, `rollback`, `flush` and the
`process_...` functions call each other as in the code.

| State | Code |
|---|---|
| `p.ends[e]` | a `pipe_t`: `_state`, `_delay`, `_in_active`, `_out_active`, `_hwm`, `_lwm`, `_msgs_read`, `_msgs_written`, `_peers_msgs_read`; `in`, `out` number the ypipes, 0 for NULL |
| `p.pipes[i]` | a ypipe: `draft` (written, not flushed), `queue`, whether its reader sleeps, `freed` |
| `p.cmds[e]` | the mailbox of the thread of `e`, as far as this pipe is concerned |
| `p.failed` | an assertion failed, or a command met an end that is deallocated |
| `engine`, `halfRead`, `pending` | the session's `_engine`, `_incomplete_in`, `_pending` |

The kinds differ in who reads and writes and in `_delay`: a "sub" reads messages and writes subscriptions of one
frame, a "push" only writes and does not wait for a delimiter, the "other" do both.  `Lose` and
`LoseAccepted` are `session_base_t::engine_error` for a session that reconnects and for one that does not.

### Ypipe, Fifo, Yqueue, Mailbox

`Ypipe` numbers the frames ever written; `w`, `f`, `c`, `r` and `front` are the pointers of `ypipe_t` and of its queue as such
numbers, and 0 is NULL.  A compare-and-swap that fails has a step of its own between it and
the store that follows (`FinishFlush`), and so has the wake-up that the writer then owes (`Wake`).  Its abstraction is `Fifo`:
`draft` is what `unwrite` could take back or a flush publish, `queue` what is flushed and not read.

`Yqueue` has the chunks with `next`, `prev` and their elements, the six positions (`begin_chunk`, `begin_pos`, ...) and `_spare_chunk`;
the exchange of the spare and what follows it are steps of their own on both sides (`FetchSpare`, `LinkChunk`; `OfferSpare`, `FreeSpare`).  `written`, `flushed` and `popped`
stand for what `Ypipe` lets the threads do.

`Mailbox` has `_cpipe` with `Ypipe`'s variables, the mutex `lock`, the eventfd's counter `efd`, and `inSend[s]` and
`recv` for where each sender and the receiver are; it implements `Ypipe` with the sender in the mutex as the writer, the senders
that still have to signal as the wake-ups owed, and `efd` as those under way.

### Engine, Framing, Content

`Engine` has two ends of one connection.  A record `side[e]` holds the engine (its state of greeting and READY, what is decoded and not pushed, what is encoded and
not written, whether input and output are stopped), the pipe's two queues, and the commands waiting for the session.  `InEvent`,
`OutEvent`, `RestartInput` and `RestartOutput` are operators on such a record, as the handlers call each other.
`Attach` plugs a new engine in, `Lose` ends the connection, `HandshakeTimeout` is the timer, `Gone` the end of an engine and its session.

`Framing` counts bytes: a byte is its message and its position there, header included.  `OutEvent` encodes a batch, which large messages leave by
themselves without a copy; `Read` takes any number of bytes into the current buffer, `Advance` is one step of the decoder's
state machine, `Begun` the choice between a message of its own memory, one within the buffer and an allocation.  `refs[b]` is the buffer's
counter, dropped by `GetBuffer`, `Close` and `Lose`.

`Content` is `dist_t::distribute` pipe by pipe (`Write`), after the references are added for all (`AddRefs`) and before those of failed writes are taken
back (`RmRefs`), while the I/O threads take copies and close them (`Release`, `Free`: finding the count at zero and freeing are two steps).

### Poller

| State | Code |
|---|---|
| `session`, `connecter[k]`, `engine[k]` | the objects of the thread: a session with its end of the pipe, the connecters it makes one after the other, the engines these make |
| `timers`, `due`, `ran` | `poller_base_t::_timers`; those that `execute_timers` may still come to; those it has run, which it erases later |
| `entries`, `batch` | poll entries with their events, the retired ones among them; what is left of the array `epoll_wait` filled |
| `place` | where the loop is: timers, waiting, events, commands |

`Handle` gives one event to its object and checks in between whether the entry was retired (`Retired`), as `epoll_t::loop` does.

### Ownership, Context, Inproc

`Ownership`: `obj[o]` is what `own_t` keeps (`_sent_seqnum`, `_processed_seqnum`, `_owned`, `_term_acks`, `_terminating`) and what the
classes add; `queue[t]` is the mailbox of a thread; `pipe[s]` the two ends of a session's pipe with the states of
`Pipe`.  A command is processed with the whole cascade it starts (`Process`).  `Context`: `terminating` and `sockets` are the
context's; `stops` and `stopped` the command and its effect on a socket; `reaping` and `finishing` where the reaper is.  `Inproc`: `registry` and
`pending` are `ctx_t::_endpoints` and `_pending_connections`; `conn[c]` the two ends of a call of
connect, with their marks and boosts; `at[s]` is the call under way, which lets go of the context's mutex between two steps.

### Service, Exchange, Codec

`Service`: `running`, `finish` are `is_running`, `is_finish`, of any value in an XPubSubProxy that was made; `at` is the line of the
detached thread.  `Exchange` adds the sockets: `req[c]` is what `req_t` keeps (`_receiving_reply`, `_reply_pipe`), `ids` the ROUTER's next routing id, `held` the
Broker's message between `receive` and `send`, `given` and `answers` the pipes to and from the workers.  A message carries its client and the line
it came over, which is what the envelope is for.  `lost` is history: those whose request or answer was dropped where the code drops messages.

`Codec`: a value is its kind and its cells; `Encodings` is `to_zmq_message`, `Decode` is `from_zmq_message` of the kind the receiver asks for, with `Undefined` for
what is copied from beyond the frame.  `converting` is the argument `convertTo` comes to next.

## Runs

All bounds are constants of the modules.  A run that expects a violation states what a
comment or an assertion of the repository says, and shows how the code does otherwise.

| Run | Instance | Shows |
|---|---|---|
| `pubsub` | 2 subscribers, 1 publisher, filters `All` and `fA`, topics of which `fA` covers one, marks 0 (none) and 1, 2 messages of at most 2 frames, 3 calls, 1 lost connection | types and `DistOK`; `FiltersInstalled`, `Agreement`; `WholeMessages`, `InOrder`, `RoutesBySubscription`; `ImplementsChannel` |
| `receiver` | 2 publishers, 2 topics, 2 messages of at most 2 frames in a pipe, numbered modulo 3 | `OneMessage`, `NothingLost`, `PollKeepsWord`, `NoAbort` |
| `pipe` | the three kinds of sockets, marks 1 and 3, 1 lost connection; 2 and 1 messages at mark 1, 4 at mark 3 | `NoFailure`, `NoDangling`, `Bounded`, `Lingers`, `Refills`, `Terminates` |
| `parts` | thirteen small instances, see below | what is in the middle column there |
| `calls` | eight small instances, see below | the same |
| `torn_message` | 1 link, marks 1 and 2, `MidMessage = TRUE` | violated: finding 1 |
| `mixed_message` | `Receiver` with 3 publishers | violated: finding 2 |
| `mark_after_end` | `Pipe`, not careful | violated: finding 3 |
| `unbind_in_message` | `Pipe`, `unbind` of a PUSH | violated: finding 4 |
| `torn_push` | `Balancer` with 3 connections, mark 1, messages of at most 2 frames | violated: finding 5 |
| `proxy_lifecycle` | `Service` of an XPubSubProxy | violated: finding 6 |
| `lost_while_full` | `Poller` with infinite linger | violated: finding 7 |

`parts` and `calls` put modules together that do not interact in their models.  A behaviour
chooses one part in its first state and runs that one; the others stay where they began, so that the states of the parts
add up.  The parts with proofs that state a property of the run are extended, so that the theorem and the run are about one definition; the invariants
of the others have the form `part = "..." => ...`.  Each part's type invariant is a conjunct of its first one.

| Part of `parts` | States | Properties | Instance |
|---|---|---|---|
| `ypipe` | 609 | `NoLostWakeUp`, `ImplementsFifo` | 4 frames |
| `queue` | 8,536 | `ChunksAccounted` | 4 addresses, chunks of 2, 5 elements |
| `pubsub` | 11,123 | `EventuallyCurrent` | 1 link, 2 messages of 1 frame, 3 calls, 1 loss |
| `exchange` | 55,217 | `RequestsAccounted`, `Served` | 2 clients, 1 worker, 1 fault |
| `codec` | 20,601 | `ReadsBack` | 5 kinds, 2 arguments of length 0 or 1 |
| `balancer` | 21,022 | `WholePerPeer` | 2 pipes, messages of up to 3 frames; with 3 pipes it is false, see `torn_push` |
| `content` | 6,394 | `FreedOnceByTheLast` | 3 pipes, 2 addresses |
| `framing` | 35,839 | `Carried` | 2 messages of sizes below, within and above the buffer's, pieces of any length |
| `ownership` | 74,370 | `LastToGo`, `Closes` | 1 endpoint, a listener with one session or a session with two connecters, in one or two I/O threads |
| `context` | 1,410 | the same | 2 slots, 3 sockets, 1 interrupt |
| `engine` | 23,337 | `Carried`, `AllArrive` | mark 1, window of 2 items, 3 messages, 1 loss |
| `tries` | 7,642 | `TablesAgree` | 2 subscribers, 5 filters with gaps and prefixes among them, each counted up to 3 |
| `dist` | 34,260 | `DistributedRight` | 3 pipes, mark 1, messages of 2 frames |

| Part of `calls` | Properties | Instance |
|---|---|---|
| `waiting` | `CallsTold`, `CallsEnd` | capacity 1, mark 3, poll rate 2 |
| `mail` | `OneSignal`, `ImplementsYpipe`, `TurnComes` | 3 senders, 4 commands |
| `receiver` | `TurnComes` | 2 publishers, 1 topic, 1 message in a pipe |
| `local`, `orphan`, `marked`, `tuned` | `NothingTooLate`, `AllGo` | `Inproc`: two connections of a PAIR to a ROUTER; one that is never bound, with `zmq_ctx_term`; marks of all sorts for a PUSH; a mark set while connected |
| `poller` | the same | 2 connecters, a connect timeout, linger none or for a time |

Some properties are conjunctions of those of several parts, because they answer the same question:
`LastToGo` is `Ownership`'s `NoFailure` and `SocketGoesLast` and `Context`'s `DoneOnceAndLast`; `Closes` is `Goes` of the
first and `Ends` of the second; `Served` is `Answered` and `Destructs` of `Exchange`; `EventuallyCurrent` is `EventuallyDrained` and
`EventuallyInstalled` of `PubSub`; `Carried` is `Engine`'s and `Framing`'s `Intact` and `Counted`; `TurnComes` is `Receiver`'s and the mailbox's `CommandsArrive`; `AllGo` is `Inproc`'s and `Poller`'s `Ends`.
`NothingTooLate` is commented in `MCCalls`.  Each conjunct has been seen to fail for a mistake
in the code of its part.

Why the bounds are enough.  Two filters, one of which covers the other's topic, give every
relation of a filter to a message (both, one, none).  Three calls are enough to add
a filter, remove it and reconnect; the loss comes before, between or after them.  Two messages of two frames overrun a mark of 1,
in the middle of a message and between messages, before and after the loss; mark 0 is the one special case.  Two
subscribers are the least for one pipe to disturb another.  In `Receiver` messages are numbered
modulo 3, so that one lost, repeated or swapped message shows; nothing else bounds
the length of a behaviour there.  In `Pipe` mark 1 fills at once and mark 3 has an acknowledgement for every second
message; the hiccup of one loss crosses every step of the handshake.  A ypipe's pointers pass each other
within four frames.  Three senders are one in the mutex, one waiting for it and one still signalling.  Three pipes in `Dist` are the least
for an exchange to move a third one, three in `Content` for a reference taken back while others are being closed.

Symmetry is used in `pubsub` (the two subscribers), in `receiver` and in `mixed_message`: no
definition there tells publishers, subscribers or topics apart; the one temporal property that is not an invariant of steps is
checked elsewhere.

Deadlock is not checked: a bounded system stops when its calls, messages and losses are
used up, a socket that is closed has nothing more to do, and an aborted program neither.

### Fairness

`Subscription` and `PubSub`: the sessions keep reconnecting (`session_base_t::reconnect`),
so a connection that is down comes up again; the applications keep calling their
sockets from the frame loop, and every call processes the commands that have come in, so
hiccups and subscription commands are processed, and what is in the queue is read.  No fairness is assumed of
API calls, losses, acknowledgements or publishing.  Weak fairness is enough, as nothing disables these actions
but calls and losses, which are bounded.

`Receiver`: a call that has begun runs on (weak fairness of its steps); the application's loop polls again and again, and reads when
the poll says so (strong fairness of `Loop`, as other calls come in between); a command that has come in is processed by one of the
calls (strong, for the same reason).  The wait of a
blocking `receive` need not end.  `TurnComes` also assumes that every call ends: a connection that
sends unmatched messages without end keeps `xhas_in` in its loop for ever, and the others
starve; the code has a TODO that says so.  Without the assumption TLC finds this behaviour.  As
publishers filter, it needs one that never sees the cancel.

`Pipe`, `Ownership`, `Context`, `Inproc`, `Mailbox`, `Waiting`: a thread that has something to do goes on, be it a command in its mailbox, a call that
is not waiting, or an engine with bytes to read.  What an application may do and need not (connect, send, close) is not fair, except that
a program that ends closes its sockets.  In `Engine`, `Inproc` and `Poller` the weak fairness of some actions is written out, as
`[]<>~enabled \/ []<><<action>>_vars` with the action's guard for "enabled": TLC would otherwise evaluate whole handlers to find out whether one is
enabled.

In `parts` and `calls` every fairness condition is that of the module, for the part that runs.  Without the guard "this part runs" a condition on another part's action, which is enabled in
its own variables but never taken, would be false of every behaviour, and the liveness properties true of nothing.

Liveness properties have the form `[]<>P` or `<>[]P` where the leads-to they stand for would cost one tableau per value; each states
in its comment which one it is.

## Findings

Each is the counterexample of the run of this name; `PROJECT.json` quotes the lines.

1. `torn_message`: `setSendHighWaterMark` between the frames of a message can cut it: the pipe refuses the rest, and
   the receiver takes the frames of a later message for it (`dist.cpp:211`, against `zmq_addon.hpp:148`).
2. `mixed_message`: `fq_t::pipe_terminated` forgets that `_current` points into an unfinished message when it moves
   that pipe (`fq.cpp:58-62`).  Three connections, `disconnect` of one *between* messages and the end of the
   pipe processed *within* the next: the rest of the message is read from the wrong
   publisher.  Two connections cannot do it, as `ReadsOneMessage` proves.
3. `mark_after_end`: `setSendHighWaterMark` while a pipe is ending sends `pipe_hwm` to a peer that may be deallocated
   (`pipe.cpp:552`; `flush` has the guard, `pipe.cpp:264`).
4. `unbind_in_message`: `unbind` while half of a message is sent, then the connection is lost: the assertion at
   `session_base.cpp:241` fails, as the other half was rolled back or lies behind the delimiter's reach.
5. `torn_push`: `lb_t::pipe_terminated` does on the sending side what `fq_t`'s does in finding 2 (`lb.cpp:65`, against `lb.cpp:114-117` and
   `zmq_addon.hpp:148`).  Of three connections the third is in turn, with half of a message in it; the second ends, the third takes its place in the array, and
   the rest of the message goes to the first.  Its peer reads an end without a beginning.  `WholePerPeer` is therefore checked, and proved, for
   at most two connections.
6. `proxy_lifecycle`: the flags of an XPubSubProxy have no initial value; its destructor may close the sockets that the thread uses
   (`ofxZeroMQ.h:1148`).
7. `lost_while_full`: a connection lost while the engine's input is stopped is noticed when input is restarted.  If the socket was closed, that never
   happens, nobody reads the delimiter, and the context's termination waits for ever (`session_base.cpp:500`).

## Proofs

The theorems are proved with TLAPS for all values of the constants under the hypotheses named; the runs show the same properties on small
instances.  Each invariant that the proofs add was checked by TLC before it was proved.

*Subscriptions and messages* (`PubSub_proofs`), for all sets of subscribers, publishers, topics and finite sets of
filters, and all bounds:

- `SubTypeCorrect`, `FiltersStayInstalled`, `SubscriptionsAgree`: `SubSpec` keeps `SubTypeOK`,
  `FiltersInstalled` and `Agreement`.  `Agreement` is not inductive: a command in the pipe of a dead link,
  or a table that survived it, would break it at the next hiccup.  `NoStaleTable` excludes them.  The core is
  what appending a batch does to `WillHold`: `SubBatchHolds` and `CancelBatchHolds` prove it for
  any order of the batch, `ApplyHolds` for a command leaving the queue at the other end.
- `ImplementsSubscription`: every step of `PubSub` is a step of `Subscription` or leaves its
  variables alone; hence `PubSubAgrees`.
- `TypeCorrect`, `DistCorrect`: the types need `DistOK` (a message in progress exists), so they are
  one induction.
- `MessagesStayWhole`, `MessagesStayInOrder` and `LinksAreChannels` (safety refinement; `ChanSpec` states no
  fairness) rest on `QueueInv == TypeOK /\ DistOK /\ RoomKept /\ QueuesOK`.
  `WholeMessages` alone says too little of the inside of a queue to survive the removal of a
  prefix: `QueuesOK` adds `Runs`, that frames with no end between them are numbered
  without a gap, wherever one begins to count, and the bounds and order of `InOrder`.  `RoomKept` says that a pipe in
  the middle of a message is not full, the reason why no frame but a first one is ever refused.
- `RoutesCorrectly`: an action property, `RoutesBySubscription`.  A link all of whose commands have arrived gets a message just if the
  subscriber's filters match and the pipe has room.  It follows step by step from `Agreement`, with an empty queue of commands, and `DistOK`.

Hypotheses: `FiltersAssumption` and `BoundsAssumption` of the modules, and for the theorems about
queues `~MidMessage`: the mark of a pipe does not change within a message.  Run `torn_message` shows
that they are false without it.

*The receive API* (`Receiver_proofs`), for any topics, capacity, size of messages and numbering: `ReadsOneMessage`, `ReadsEverything`,
`PollIsTrusted` and `ReadsOn`, from `ReceiverInvariant`.  The invariant `RInv` says where each message is.  `Behind(p)` is the last frame of `p` that left the pipe, the held one included;
`RowsOK`: what is in the pipe of `p` continues behind it and ends with a message; `HeldFollows`: the held frame continues what the application has;
`TurnOK`: if some `Behind(p)` is unfinished then `p` is the one in turn and `fqMore` holds; `CallOK` ties `more`, `skipping`, `held` and `blocked` to the place of the
call.  Hypotheses: `Careful` and `AtMostTwo`, that there are at most two publishers.  `AtMostTwo` is used in one place only, when a terminated pipe is taken out of the array:
with two the pipe in turn is either the one that moves to the free place, where `current` is set to it, or it stays.  With three this is false (finding 2).  An
invariant with a hypothesis on the number of publishers is the strongest that is true of this code.

*Load balancing* (`Parts_proofs`), for any mark and size of messages: `PeersReadWholeMessages`, that the flushed queue of every
connection is made of whole messages, from `BalancerInvariant`.  `BInv` says that frames not flushed are in the pipe in turn only and are just those of the
message being sent (`DraftsOK`), and that a message that has begun and is not being dropped has a pipe (`TurnOK`).  Hypotheses: `LbBounds`, that messages have a frame and numbers
exist, and `AtMostTwo` again: with three connections the theorem is false (finding 5).

*The lock-free queue* (`Ypipe_proofs`), for any frames: `NoWakeUpIsLost`, `NoDataRace` (`AloneWithC`: neither thread uses the elements of
the other) and `YpipeIsFifo`, the step simulation of `Fifo` under the mapping of the runs.  `YInv` adds to `Ordered` (the order of the pointers) and `FlushPoint` what the
shared pointer says about the reader: `c` is NULL only while it sleeps with everything flushed read, and if it sleeps with `c` set there is something
to read and a wake-up under way (`Sleeping`).  `Fifo`'s fairness is TLC's: `ImplementsFifo` includes it.

*The memory of the queue* (`Parts_proofs`), for any size of a chunk, any addresses and any number of elements: `ChunksInOrder`, that every element is found where it was put, that no chunk is lost, freed
twice or used in two places by the two threads, and that at most four chunks are there beyond what the elements fill; from `YqueueInvariant`.  The list is not followed by recursion: the invariant says that there
are a length and a function from positions to chunks (`Linked`), and each step names the new one.  `ChunksAccounted` asks `next` only of the list; `YqueueInv` adds what `unpush` needs, that `prev` leads back through the same chunks, that the end
is one place behind `back` (`ListInv`), that the last chunk is full whenever the writer looks for another (`ThreadsOK`), and that `unpush` stops at what was flushed, so never before the reader's
chunk (`InTurn`).  `FewChunks` counts: a chunk that is fetched is one more, but then the last of the list is full.  Hypothesis: `YqueueSizes`, that a chunk has an element and NULL is no address.

*The mailbox* (`Calls_proofs`), for any finite set of senders: `MailboxIsYpipe`, that mutex and signaler make of many senders the one writer `Ypipe` has;
`SignalsAreRight`, that the eventfd holds one signal or none, one only if a command is there, and none is missing for a receiver that sleeps;
`MailboxIsFifo`.  The proof takes `Ypipe_proofs` as an instance, with its `YInv` under the substitution as a conjunct of `MInv`: a step of the mailbox is a step
of the ypipe (or none), which keeps `YInv` by the lemmas there, and what remains to be proved is that at most one sender holds the mutex (`MutexOK`) and what the receiver
knows (`ReceiverOK`).  Hypothesis: `Population`, that the senders are finitely many and `Entries` and `MaxItems` are as in `Ypipe`.

*Calls that wait* (`Calls_proofs`), for any capacity, any high water mark but 0 (no limit) and any poll rate: `WaitingTypes` and `CallsAreTold`, from `WaitingInvariant`.
`WInv` counts: for an end that is asleep or was refused there is exactly one message or one command on its way that will tell it, in `telling`, in the mailbox or already taken
(`ReaderOK`, `WriterOK`); the unacknowledged messages stay below `Lwm`, from which it follows that a full pipe gets an acknowledgement (`Acknowledges`, a lemma on multiples of `Lwm`);
`PlaceOK` and `ThereOK` say for each place in a call what it has already looked at.  Hypothesis: `Sizes`.

*The pipe* (`Pipe_proofs`), for any marks, messages and number of lost connections: `NothingFails` and `NothingDangles`, from `PipeInvariant`.  `PInv` is `Good` and `Fits`.
`Good` is about the two ends: the handshake is in one of ten states up to a swap of the ends (`Shape`: the states of both and which of `pipe_term` and `pipe_term_ack` is under way to whom);
rows of commands are in order, an acknowledgement being the last thing an end says of the pipe (`RowsOK`, `GoneOK`); an end has an outbound ypipe just until it acknowledges
(`OutOK`); the ypipes of hiccups under way are a chain that ends at the one the session reads (`ChainOK`); `FreedOK` says which ypipes are deallocated; what can be read is made of
whole messages (`FramesOK`), and a delimiter is there only behind an end that is no longer active.  `Fits` is about the session: the rest of a message that its engine read half
of is there (the assertion in `clean_pipes`), since the session waits for its delimiter and hears of the pipe's end before its own (`ToldFirst`).  Each operator of `Pipe` has a lemma that it keeps `Good`; `Kin` and
`Lax`, what a step leaves of what the session can notice, carry `Fits` through the compositions.  `Hypotheses`: the marks are numbers, `MaxLosses` is one, the program is `Careful`, and `unbind` is called of subscribers only; findings 3 and 4 are
the theorems' failure without the last two.

*The pipe's counts* (`PipeCounts_proofs`, on top of `Pipe_proofs`), under its hypotheses: `QueuesBounded`, that the high water mark bounds what is between the ends (`Bounded`), and
`EverythingIsRead`, that an end which lingers has read every whole message that was written when it goes (`Lingers`); from `CountsInvariant`.  `CInv` adds to `PInv`: `Tally`, that the messages an
end has written are those its peer has read and those still unread in the ypipe, whichever ypipe a hiccup has put in its place, that it has heard of no more reading than there was, in
`_peers_msgs_read` and in every `activate_write` on its way, that no more is unread than its mark, and that only delimiters follow a delimiter; `Patient`, that
an end which lingers does not end the pipe before it has found the delimiter, with nothing left in front of it; and `BegunOK`, that an end that began no message has written none.
`Even` and `Quiet`, what a step leaves of all that, carry it through the compositions of operators, as `Kin` does in `Pipe_proofs`.  The messages in a ypipe are counted by `Ended`, a cardinality,
about which lemmas can be proved, where `SelectSeq`, defined by recursion, cannot be used.

*The context and the reaper* (`Parts_proofs`), for any numbers of slots, sockets and interruptions: `DoneOnce`, that the reaper says once that it is done, when no socket is left and nothing is
on its way to it, so that `zmq_ctx_term` may delete the context, however often its wait is interrupted and begun anew; from `ContextInvariant`.  `CtxInv` says that a socket
is asked to be reaped once, and only if it was closed (`Asked`), that the reaper's count is of the sockets it is reaping and those whose `reaped` is on its way (`Taken`), that it is told to stop once, when the
context terminates and has no socket (`Told`), and when there is a `done` (`Done`).
Hypothesis: `Bounds`, that the two bounds are numbers.

*Requests and answers* (`Exchange_proofs`), for any requesters, lines, workers, faults and lengths of queues: `RequestsCounted`, that a requester that waits has its request or the answer in one of the
queues between it and the worker, once, unless it was dropped where the code drops messages, that one that does not wait has none, and that answers are for who asked; from
`ExchangeInvariant`.  `Located` alone (each requester's message in one queue) is not inductive: the ROUTER sends an answer to the connection whose number stands before it, which is
the right one because numbers are not given twice (`Numbered`), what is on a line or carries its number is of the requester of the line (`Tagged`), and a REP, or the thread of the Broker, forgets
an envelope before it takes the next (`RepOK`, `HeldOK`).  `Moved`, `Added` and their like say of any assignment of queues to places what one step does to `Located`, so that the proof of an action only says which queue
lost and which got a message.  Hypotheses: `Sizes`, that lines are finitely many, that 0 is none and that there is a requester.  `Numbered` bounds the numbers by lines and faults, so that
the numbers the model has are enough.

*Contents of messages* (`Parts_proofs`), for any finite set of pipes, any length of a pipe and any addresses: `ReferencesAreRight`, that the memory of a message is there just as long as
somebody has a copy of it or is about to free it, and that nobody frees it twice; from `ContentInvariant`.  `ContentInv` says that the count of a shared content is the number of pipes that have a copy plus
what the publisher still owes, the pipes it has not come to and those that were full (`CountOK`); that all copies of a content agree whether it is shared, as the count is not written for a content that is not
(`Flagged`); that a pipe has a content at most once, in its queue or in the hands of its I/O thread (`OncePerPipe`), and a message on its way is not where it still has to go (`OnItsWay`).  The copies are counted by a
cardinality, of pipes that have the content in the proof and of places that hold it in the property.  Hypothesis: `ContentSizes`, that the pipes are finitely many.

*Values and frames* (`Parts_proofs`), for any number of arguments of the kinds `Codec` has, and any bytes: `ValuesReadBack`, that what is asked for as the type it was sent as is what was sent, that the arguments
beyond the frames are left alone, and that the answer says whether there were enough; from `CodecInvariant`.  `RoundTrip` is the lemma on the converters.  Hypothesis: `CodecBounds`, that the kinds are those that exist and
the bounds are numbers.

*The array of outbound pipes* (`Parts_proofs`), for any finite set of pipes, any high water mark but 0 and any length of a message: `MessagesGoToAll`, that a message goes whole to the pipes that match and could take it when it
began and to no other, whichever of them fill up, are read, come, lose their connection or end between its parts, and that a pipe which is left out is full, so that its peer's reading brings it back; from
`DistInvariant`.  `DistInv` says that entries and remembered positions agree (`Indexed`), that the three marks are in order (`Marks`), that the array has the pipes there are (`Listed`), that within a message
the pipes before *matching* are those that began it and have room for the rest (`Going`), and who is behind *eligible* (`LeftOut`).  Each exchange of `dist_t` is `SwapFacts`, and what an operation leaves of the side of the marks a pipe is
on is `StaysMatching` and `StaysEligible`, so that the steps do not look at positions again.  The loop of `dist_t::distribute` changes the array it goes through: `Underway` says of its n-th turn which pipes are
written to, left out or still to come.  `Distributed` and `AllMatched` are functions on the turns that call themselves; that such a function exists, with the values its equation says, and what holds after each turn are proved by induction over a *set* of
numbers (`SetInduction`, from the well-founded order of the naturals), which needs no operator as a parameter.  Hypothesis: `DistSizes`.

What stays with TLC, and why:

- all liveness properties, `Fifo`'s and the mailbox's included: liveness under fairness is out of the prover's reach;
- `Tries` (`TablesAgree`): its nodes are trees, and its operators recursive throughout;
- `Framing` and `Engine` (`Carried`), which cut and join frames by recursion;
- `NothingTooLate` (`Inproc`, `Poller`), and `LastToGo` as far as it is about `Ownership`, whose handlers fold over children and pipes: not proved;
  they hold for the given instances.

## What the models leave out

- *Command pipe.*  The subscriber's pipe for commands never fills: its mark is 1000.  If it did, a
  command would be dropped (`xsub.cpp:259`).
- *Acknowledgements* come at any time in `PubSub`, with any number read since; `compute_lwm` decides this in the code, and in `Pipe`.
- *Endpoints* are tcp or ipc in `Subscription`; `connect` to a connected endpoint is ignored there.  `Inproc` has the others.
- *Losing a connection* is one step on both sides in `PubSub`; the publisher may in fact notice it later than
  the subscriber, and meanwhile writes into a pipe that leads nowhere.  `Engine` and `Pipe` have each side by itself.
- *A poll's held frame*: `PubSub` receives in one step; `Receiver` has the detail.
- *Connect* in `Receiver` waits until the previous pipe of the endpoint is gone.
- *`dist_t::reverse_match` and `check_hwm`* serve options that no code here sets (`ZMQ_XPUB_NODROP`, `ZMQ_INVERT_MATCHING`).
- *`Pipe`*: the application raises a mark only before it uses the pipe (`Careful`), and `unbind` is
  called of subscribers only, whose messages have one frame (`Unbinds`); findings 3 and 4 are what happens otherwise.
  So `Bounded` and `Refills` say nothing of a mark that is lowered on a pipe in use.
- *Intervals of timers* have no length: a timer that is set may be due at any time after.
- *Heartbeats*, older versions of the protocol, security mechanisms and ZAP, monitors, and the transports below the descriptors.
- *Routing ids* set by the user, mandatory routing and hand-over of the ROUTER.
- `getNextMessage` decides by `item.revents`, which only `hasWaitingMessage` writes (`ofxZeroMQ.h:834`): `Receiver` has the flag and what the calls
  do with it; that a second call after one poll answers by the old flag is what the API is, so no property is stated about it.

## Observations

What the modelling brought up beside the findings.  These are readings of the code, with no run that expects them.

*In the addon.*

- `removeFilter` may return false although the socket was subscribed: the set holds a filter once, the socket counts (`ofxZeroMQ.h:905-912`).
- `disconnect` after the first frame of a message was taken or held makes the next `receive` abort at `fq.cpp:112`.
- `getNextMessage(MultipartMessage &)` returns true with nothing left (`ofxZeroMQ.h:831`); `receive(data)` passes flags nobody set (`:852`).
- `sendMultipart` returns an optional that holds 0 on failure; `receiveMultipart` with a `ReceiveFlag` does not compile; `getIdentity` fails with EINVAL (`:674`).
- `rangedConvertTo` ignores its end (`:641-645`); the ArgumentConverter may read past the last argument; `addArgument(size_t)` makes a frame of that size instead of one that holds the number.
- A Broker on which `setup` is called twice has two threads on the same sockets; one whose `setup` was never called, or threw in `bind`, waits in its destructor for ever.
  A reply or request that the DEALER cannot send is dropped.
- A string literal is sent with its final NUL (`ofxZeroMQ.h:397`) and is never equal to what a `std::string` receives, although two examples compare them
  (`if(type == "space")`, `multipartmessage-example/src/ofApp.cpp:26`).
- An XPubSubProxy never subscribes, so nothing is forwarded.  Reply and Dealer have no `connect`.
- A Request whose request or answer was lost may never send again.
- The static `context_t` (`:859-862`) waits at exit for every socket still open.

*In the library.*

- `process_hiccup` sets `_out_active` without telling `dist_t`, which leaves the pipe out until the next `activate_write` (`pipe.cpp:309`; `forgotten` in `Dist`).
  `DistributedRight` allows it: the pipe is left out although it has room, and filters set meanwhile do not reach that publisher.
- `rep_t` keeps `_more_out` over a rollback.
- A session whose accepted connection is lost while its socket closes may wait for a delimiter behind messages nobody reads (`Stranded` in `Pipe`).
- A nonblocking `send` may be refused although the command that would make room is in the mailbox, as commands are looked at once in a while (`config.hpp:66-69`; `recent` in `Waiting`).
- Raising a mark, or lowering it, on a pipe in use can leave a writer waiting for an acknowledgement that comes too late; on an inproc pipe one end may acknowledge every
  `lwm` messages with an `lwm` above what the other may write, against the comment at `pipe.cpp:470` that it has to be less.  Marks set between an early `connect` and the `bind` are undone by it.
- A ROUTER or REP that disconnects a pending inproc connection meets the assertion in `send_routing_id`; an inproc connection that is left to the context after `zmq_ctx_term` copied them hangs it;
  `ctx_t::terminate` itself asserts that a socket can be made, which fails at the limit of sockets.
- `_endpoints` of a socket keeps pointers to sessions that have ended.
- A message to an XPUB that begins neither with 0 nor 1 is taken for a cancel of the empty filter (`xpub.cpp:107-113`).
- `in_event` is called twice for an error that comes with input, stops the input the first time and takes the second for an I/O error.
- The handshake timer covers the greeting only; the connect timer is off by default; `tcp_connecter_t::out_event` leaves its descriptor open if `tune_socket` fails;
  `get_new_reconnect_ivl` divides by `reconnect_ivl`; `remote_heartbeat_ttl *= 100` may overflow (`stream_engine.cpp:1207`).
- A poller without descriptors but with timers loops without waiting.

## Plan

Done, in this order: `Subscription`, `PubSub` and the proof that one implements the other; `Receiver`, `Pipe`, `Ypipe`, with the first findings;
the service classes and converters; what the first modules rest on (`Tries`, `Dist`, `Yqueue`, `Mailbox`, `Engine`, `Framing`, `Content`); how things end (`Ownership`, `Context`, `Inproc`,
`Poller`); load balancing and the calls that wait; then the proofs of messages and routing, of `Ypipe`, `Receiver`, `Balancer`, `Mailbox`, `Waiting` and `Pipe`; and last of the counts of
`Pipe`, of `Context`, `Exchange`, `Content`, `Codec`, `Yqueue` and `Dist`.

What is left, the most important first:

1. `Ownership`: that a socket goes last (`SocketGoesLast`, `NoFailure`).  The tree has two levels only, so no induction over it is needed, but the commands under way to
   each object have to be counted against `due` and `acks`.
2. `Engine`: `Carried`, with `Channel` as what it implements.
3. `Service`: `SocketsOutliveThread` under a hypothesis on the first values of the flags, without which finding 6 refutes it.

Not planned: other transports, security mechanisms, heartbeats, and socket types that the addon does not wrap.
