# A verification project for HFile

HFile (`hf`) is a LAN file transfer tool written in C: a server that speaks a native
protocol and HTTP on one port, a command line client, a daemon mode with `hf status` and
`hf stop`, and a message board that browsers follow through server-sent events. This
directory holds TLA+ models of it, TLC configurations that check them on small instances,
and TLAPS proofs for all instances. Paths such as `server.c` are under `src/src/`.

## 1. Inventory

| component | state | operations | interacts with |
|---|---|---|---|
| message store (`message_store.c`) | message, version, `shutting_down`, mutex and condition variable | init, set, get_snapshot, wait_for_update, shutdown, cleanup | every connection thread; the shutdown sequence |
| SSE streams (`http_handle_messages_stream`) | local version and message of a thread | headers, snapshot, wait, event, keep-alive | the store, the peer, the shutdown flag |
| connection tracker (`server_conn_tracker.c`) | list of entries, `active_count`, `shutting_down` | begin, end, shutdown_all, wait_idle, cleanup | the listener, every connection thread, the descriptor table |
| server process (`server.c`, `shutdown.c`) | the flag set by signals, listener socket, detached threads | start-up, accept loop, thread start and end, shutdown sequence | all of the above |
| receive directory (`transfer_io.c`, `app_service.c`, `fs.c`) | final names, temporary names `name.tmp.pid.attempt`, open descriptors | receive (native and HTTP), publish by rename, clean up, open and send | connection threads at the same time; earlier lives of the server |
| native session (`client.c`, `server.c`, `protocol.c`) | position of both sides in two byte streams, announced size, temporary file | send file, get file, send text; READY and FINAL frames | client and connection thread over TCP; several `hf -g` in one directory |
| daemon control (`server.c`, `control.c`, `daemon_state.c`) | state file, ready pipe, pids, the watcher's `last_web_url` | `hf -d`, `hf status`, `hf stop`, address refresh | processes that share one file in the temporary directory |
| HTTP requests (`http.c`) | per connection: bytes read, answer, temporary file | detect, read header, route, refuse, discard, PUT, GET, listing, messages | store and directory; the client, which may be slow or gone |
| web page (script in `webui.c`) | `currentDir`, rows, the message panel, the text box, requests under way, the EventSource | load and open folders, upload, post, follow messages | HTTP requests and the stream, answered in any order |
| command line (`cli.c`) | option record and locals of `parse_args` | one step per argument | every command |
| conversions (`http.c`, `fs.c`, `protocol.c`, `net.c`, `daemon_state.c`) | none | Content-Length, percent-decoding, path checks, JSON, event texts, frames, state file | between every two of the above |
| QR codes, vendored parser, build | none | | |

What is hard here, and what makes each part correct:

* *Store and streams.* A post may come between any two steps of a stream. No wake-up may be
  lost, a text must go out under its own version, and the shutdown must reach threads that
  sleep or block in `send`.
* *Process and tracker.* Threads are detached and use static mutexes that the main thread
  destroys. A thread closes its socket *before* it leaves the list, so the list holds
  descriptor numbers that the kernel may have given to another connection.
* *Receive directory.* Same-name uploads, downloads and crashes share one directory without
  any lock; correctness rests on `O_EXCL`, `rename` and open descriptors.
* *Session.* Frames and raw bytes share a stream. A source can shrink after its size was
  announced; acknowledgements can be lost.
* *Daemon.* Checks of the state file and of a process are not atomic with what follows, and
  a pid outlives its process.
* *HTTP.* A connection that is closed with bytes unread is reset, and the reset can destroy
  an answer; a client can fall silent at every byte. A listing reads entry by entry.
* *Web page.* Every `await` lets other callbacks run; answers overtake each other and stream
  events.
* *Conversions.* What one side writes the other must read: names with reserved characters,
  texts with line breaks and surrogate pairs, sizes near 2^64, buffers that are just full.

`PROJECT.json` lists these as hazards at their lines.

## 2. Modules

| module | models | extends / composes |
|---|---|---|
| `MessageBoard` | abstract: a board of numbered texts, looked at in one step | |
| `MessageStore` | store, streams and their part of the shutdown | `INSTANCE MessageBoard` |
| `ServerProcess` | listener, tracker, threads, descriptors, shutdown | the streams reduced to "wait, send" |
| `AtomicFiles` | abstract: a name is an atomic register of whole versions | |
| `ReceiveDir` | the directory at the level of system calls | `INSTANCE AtomicFiles` |
| `DirListing` | `GET /api/files` next to the uploads, and the size a PUT reports | `EXTENDS ReceiveDir` |
| `FileTransfer` | one native session, both sides and the wire | the directory reduced to one destination |
| `DaemonControl` | daemons, state file, watcher, control commands, reused pids | the server reduced to its phases |
| `HttpConnection` | one HTTP connection from detection to close, and its client | the store and the directory reduced to `effect` |
| `ClientDownloads` | several `hf -g` with one output path | the session reduced to its outcomes |
| `WebMessages`, `WebFiles` | the message panel and the file panel of the page | the server reduced to a version and to changes per folder |
| `ContentLength` | `http_parse_u64`, digit by digit | |
| `PathNames` | links of the page, decoding, validation and joining of paths | |
| `MessageText` | a text on its way through JSON, store, JSON and event stream | |
| `NativeFrames` | bytes of native requests and response frames | |
| `CommandLine` | `parse_args` | |
| `StateText` | the text of the state file, written and read | |
| `MCInputs`, `MCClients` | instances for TLC: the six conversions, and the three client programs, one of them in each behaviour | the modules they instantiate |
| other `MC*` | constants for TLC, and which part of the instance is explored | the module named after `MC` (`MCReceiveDir`: `DirListing`) |
| `InputsProofs`, `TextProofs` | theorems: numbers, frames, command line and state file; paths and messages | `MCInputs`, `TLAPS` |
| `ClientsProofs`, `TransferProofs` | theorems | `MCClients`; `FileTransfer` and `DirListing`; and `TLAPS` |
| other `*Proofs` | theorems | the module they are named after, `TLAPS` |

How code becomes actions: a critical section is one step; a system call on shared files is
one step; a blocking call is a step that is enabled when the call can return. Program
counters (`pc`, `main`, `up`, `cpc`, `dpc` ...) name places in the functions of the source,
and action names keep the names of the functions. Failing calls are alternatives of the
actions, or actions of their own (`AllocFails`, `BeginFails`, `SpawnFails`, `BodyFails`).
Definitions whose comment begins with *Mutant* are plausible bugs; substituted for the
definition that follows them, they must break a property.

* `MessageStore`. `pc[s] = "wait"` is `pthread_cond_timedwait`; `Broadcast` moves the
  waiting threads back to the loop test. `conn` tells a peer that reads, one that does not
  (`send` blocks, there is no send timeout) and a dead connection. `hist`, `sent` and `late`
  are history variables used by the properties. Trimming of trailing whitespace is modelled
  on sequences of characters (`Trimmed`); UTF-8 decoding is not.
* `ServerProcess`. `fdOf` is what a thread holds in `conn`, `owner` is the kernel's table.
  `ShutdownAll` shuts down what is behind the numbers *now*. Every request is one of four
  roles that differ in the blocking calls they make.
* `ReceiveDir`. Inodes are named after the upload that made them; `temp` is indexed by
  name, pid and attempt. `Crash` leaves the directory, `Restart` takes any pid, also the old
  one. Assumed: clients do not use names that look like temporary ones, and no other program
  changes the directory.
* `FileTransfer`. Streams are counted, not stored: `csent`, `sgot`, `ssent`, `cgot`, and
  whether READY and FINAL were sent. `good` counts bytes of the destination that are content,
  so a client that swallows bytes of a FINAL frame is seen. `valid` stands for name and
  header checks, `fault` records that a system call failed.
* `DaemonControl`. `state` is the file; reading it together with `kill(pid, 0)` is one step,
  removing it another. A pid whose daemon is gone can go to another program (`PidReused`,
  switched by `Reuse`), which `kill(pid, 0)` then finds; `struck` records strangers that got
  a SIGTERM. `Overlap` says whether commands may run at the same time: if not, one starts
  only when no control command is at work and no `hf -d` is on its way up. The parent of a
  daemon that waits in `waitpid` only does not count. SIGINT and SIGTERM can reach the parent
  (`Interrupt`): the handlers are installed without `SA_RESTART`, so `read` of the ready pipe
  fails with EINTR, the pipe is closed (`CloseReady`) and `waitpid` follows (`Reap`). A daemon
  that writes to the closed pipe dies of SIGPIPE.
* `DirListing`. `readdir` is as unspecific as POSIX: entries that are there all the time are
  returned once, entries that come or go may be returned or not. `lstat` of an entry is a step
  of its own. `told` and `pubs` are history variables for the size in the answer to a PUT.
* `HttpConnection`. The stream is counted in units of header and body. `Refusal` gives the
  status for each route and method in the order in which the code tests them; `Discard` reads
  the body of a refused upload. `reset` is the kernel's answer to unread bytes, `late` a
  receive timeout. Answers of any length (page, listing, latest message, file) are sent in two
  steps: the header, and a body (`SendBody`) that waits for its reader without a timeout. Whether the header parses is an attribute of the request
  (`phr_parse_request` is vendored).
* `WebMessages`, `WebFiles`. A callback of the page is a step, a request is sent, answered
  (or failed) and processed in three steps. A message is its version, a listing the number of
  changes its folder had seen. A restart of the server, which starts versions again, is not
  modelled. `hasty`, `overlap` and `failed` name the cases the properties leave out.
* `ClientDownloads`. The pid is chosen at the start among those no running command has; a
  kill leaves the temporary file, and a later command can have the same pid.
* `ContentLength`. The greatest value is a constant, and the sum is reduced modulo its
  successor, so that a missing overflow test would be seen.
* `PathNames`, `MessageText`. Texts grow character by character out of those that some
  conversion treats specially; the reference is a walk through the path and the text that was
  typed. `encodeURIComponent`, `JSON.stringify`, `Response.json` and `EventSource` are external
  and follow their standards.
* `NativeFrames`. Bytes have `Base` values and words two bytes, so that sums wrap around
  within reach; every byte sequence is tried, delivered in pieces of any length. A response
  is encoded, sent and judged by the client.
* `CommandLine`, `StateText`. One step per argument, and one per `fgets`. Whether a word is a
  port is a constant (`strtoul` also takes a negative number that wraps around into range).

## 3. Runs

| run | expected | instance | states |
|---|---|---|---|
| `message_store` | pass | 2 streams, 2 posts (text with trailing blank, blank only) | 170 thousand |
| `server_process` | pass | 2 connections, 2 descriptors | 730 thousand |
| `server_sigpipe` | violation | same | |
| `receive_dir` | pass | 3 uploads of 1, 2 and 0 bytes to one name with a download and 2 pids, or 2 uploads to 2 names with a listing of 2 rows; 2 attempts, 1 crash | 2.4 million |
| `file_transfer` | pass | sizes 0 to 6, limit 5, frames of 4, buffer of 3 | 8 thousand |
| `daemon_control` | pass | 2 daemons with ports of their own and 2 commands, or 1 command with a network change or reused pids; no overlap | 600 thousand |
| `daemon_overlap` | violation | 2 daemons that start at the same time | |
| `daemon_url` | violation | 1 daemon, 3 addresses, 3 network changes | |
| `daemon_pid_reuse` | violation | 1 daemon, 1 command | |
| `http_connection` | pass | 2 units of header, bodies up to 3, limits 1 (text) and 2 (upload) | 350 thousand |
| `inputs` | pass | 8-bit numbers of 4 digits; paths of 5 pieces; texts of 3 characters out of 16; 6 arguments; bytes of 4 values; directory names of 5 characters | 1.4 million |
| `clients` | pass | 4 `hf -g` with 2 pids and 2 attempts; 2 loads, 1 post, 2 messages, 1 broken stream; 2 listings, 1 upload, 2 folders with 2 changes | 980 thousand |

Why the bounds suffice: two streams and two posts allow a post before, during and after
every step of a stream, and one stream to be behind the other. Two connections and two
descriptors allow a number to be reused while its old entry is still on the list. Two
attempts (three in the code) with three uploads and a crash reach the last attempt and its
failure; a listing of two rows next to two uploads meets entries that appear, are renamed and
vanish between `readdir` and `lstat`. Sizes up to 6 with a frame of 4 let a truncated source
lack fewer bytes than a frame, exactly a frame, and more, and let a file be over the limit; a
buffer of 3 blocks both senders. Two launchers and two commands let each find what any other
left. Bodies up to 3 are below, at and above both limits, and shorter or longer than
announced. An 8-bit type reaches 255, 256 and what follows an overflow; five pieces make `..`
segments, escapes of escapes and targets longer than the buffer; three characters out
of sixteen put every pair of special characters behind or before any other; six arguments are three options with values;
words that wrap around at 16 are reached by names of two characters and contents near the
limit; a directory of five characters fills the buffers of the state file. Four commands with
two pids leave two orphans under one pid and still have two commands to run side by side.

`MCInputs` and `MCClients` put modules that share no state next to each other and run one of
them per behaviour; `MCReceiveDir` and `MCDaemonControl` explore parts of their instance that
do not need each other (`Chosen`). The steps that are left out there are of users, of the
network and of other programs, and have no fairness. In `MCDaemonControl` launchers, commands
and addresses are interchangeable; `InOrder` lets one of each come first, which, unlike
`SYMMETRY`, is sound for liveness too.

`CHECK_DEADLOCK FALSE` is given where the system ends: a process that has exited, a command
that is done. `FileTransfer` says so with an action (`Ended`) and is checked for deadlock.

### What the passing runs show

* `NoLostWakeup`, `EveryPostIsDelivered`: no post waits for the 15 s timeout.
  `ImplementsMessageBoard`: seen from its streams the store is the abstract board, where a
  text is looked at together with its number and never told twice or out of order.
  `NoKeepaliveStorm`: the flag is set before the store is shut down, so at most one late
  keep-alive. `ShutdownCompletes`: a signal ends all streams although peers stall.
* `NoUseAfterCleanup`, `SocketStaysOwn`, `EverySocketAborted`, `CleanExit`: the order
  "close, then leave the list" is harmless, because `shutdown_all` runs in the thread that
  accepts: no connection it finds behind a stale number is one that should stay open, and all
  others are on the list. `ShutdownCompletes` needs no timeout and no peer.
* `TempIsOwn`, `TempHasOwner`, `ImplementsAtomicFiles`: uploads and downloads are atomic,
  across crashes. A temporary file without an upload means that there was a crash.
  `ListsEverythingSteady`: a listing loses nothing to the uploads around it.
  `PutReportsWholeFile`: the size in the answer to a PUT may be that of a later upload to the
  same name, never that of an older file or of a part.
* `PublishedIsWhole`, `SuccessMeansDelivered`, `FailureHasCause`, `SessionEnds`: neither side
  publishes anything but content, no session fails without a cause, and none depends on a
  timeout to end.
* `OneDaemon`, `Findable`, `NoStateAfterExit`, `StoppedIsTrue`: as long as commands are run one
  after the other, the state file tells the truth. They say nothing about what needs two
  commands at a time: a daemon that fails to start and removes the file of another
  (`server.c:1073`), or a daemon that starts between the check and the removal of
  `hf status` and `hf stop` (`control.c:216`). The code has no lock there.
  `CommandsEnd`: every command ends, also when its daemon dies without a word, with one
  exception. A signal that interrupts the parent in `read`, just before the daemon writes,
  leaves it in `waitpid` for a daemon that serves (`server.c:987`), until that daemon ends or a
  second signal comes; it then reports a failure although the daemon runs. If the pipe is
  closed before the daemon writes, the daemon dies of SIGPIPE and leaves a stale state file.
* `OneAnswer`, `RefusedHasNoEffect`, `UploadAnswersArrive`, `ThreadEnds`: every request that
  arrives is answered once, and what is refused or cut short stores nothing. Answers to
  a whole PUT survive the close unless they are refusals that the code sends without reading
  the body: of the route or method (404, 405), of a name that does not percent-decode (400,
  `http.c:1510`) and of the length (411, 413, 501). A client that is silent in the header or
  in the body costs a thread for one timeout. One that stays and does not read a long answer,
  or follows the messages, keeps its thread until it leaves: sends have no timeout.
* `ParsedIsExact`: no number wraps around in `http_parse_u64`. `TargetStaysInside`,
  `LinkReachesEntry`: no target leaves the receive directory, and a link of the page leads to
  its entry, for names without a backslash. `MessageIsKept`: a text arrives as it was typed,
  up to its first U+0000 and without trailing white space, or is refused as a whole (a cut
  body, half of a surrogate pair); through the stream, if it has no carriage return.
  `UsageIsParsed`: `parse_args` accepts what `usage()` describes. `AcceptedIsCanonical`,
  `HonestIsAccepted`: the native server accepts what a client writes under a name that
  `fs_validate_file_name` takes and, up to names with a NUL and sizes no client can offer,
  nothing else. `hf -c` checks only the length of a name (`client.c:419`), so it also sends names
  with `..` or a backslash, which the server refuses
  (`test_server_rejects_invalid_file_name_from_client`). `StateReadsBack`: the state file says what
  was written unless the directory's name has a line break, and even then the fields after
  it do.
* `OnlyOrphansRemoved`: the temporary name that a failed `hf -g` still holds is never that of
  a running command. `MessageArrives`: reconnecting loses no message for good. `TextIsKept`,
  `UploadIsListed`: what the user typed or was told is saved is there, up to the cases they
  name: a text typed while an earlier one is posted is wiped out by that answer, and listings
  that overlap or fail can leave older rows.

Things the models show that no run states, because nothing in the repository promises them: an
answer of `/api/messages/latest` that was made before a post can be rendered after that
post's event and stay (`webui.c:522`); a file with a backslash in its name is listed with a
link that is answered with 400 (`fs.c:102`); a carriage return in a message ends a line of the
event stream (`http.c:251`); a message with U+0000 is cut there and answered with 201
(`message_store.c:188`); HTTP accepts names with `..` inside, which the native protocol
refuses; a line break in the directory's name can change the pid that is read from the state
file (`daemon_state.c:160`), which comes before it.

### What the violations show

* `server_sigpipe`: `sendfile` (`net.c:281`) raises SIGPIPE, which the program never ignores,
  when its connection has been closed or shut down. A client that leaves during a download
  ends the server. During a graceful shutdown, `server_conn_tracker_shutdown_all` itself can
  cause it, and the temporary file of an upload stays behind, which
  `test_server_graceful_shutdown_on_signal` excludes.
* `daemon_overlap`: the check "HFile is already running" is made by the parent, the file is
  written by the child after it has bound its port. Two `hf -d` with different ports can both
  pass; the state file then names only one of them.
* `daemon_url`: the watcher remembers the address it compared, `server_persist_daemon_state`
  writes the one it builds anew. When the network changes between the two and then goes back
  to the remembered address, the file keeps the address in between for ever.

* `daemon_pid_reuse`: `hf stop` trusts a state file whose pid some process has. After a daemon
  was killed and its pid given to another program, it signals that program and reports
  "Server stopped", where `test_stop_cleans_stale_daemon_state` expects "already stopped" for a
  stale file (the test picks a pid that is free).

### Fairness

`WF` on the steps of a thread or process that depend on nobody else: the scheduler runs
runnable threads, and a mutex is held for a few instructions. Nothing is assumed of peers
(reading, sending, closing), of timeouts, spurious wake-ups, signals, new posts or faults.
`FairSpec` of `DaemonControl` adds `SF` on a successful write by the watcher, so that the
violation of `UrlBecomesCurrent` is not one of a disk that is full for ever.
In `HttpConnection` the steps of the connection thread are fair, with `recv` returning on its
timeout (15 s for the first bytes, 30 s for a message, 120 s for an upload) when the client is
silent. A body that is being sent (`SendBody`) moves on for sure only once the client is gone;
nothing is assumed of the client. Signals that interrupt a parent (`Interrupt`) are not fair. In `MCClients` the stream thread sends what it has (`SendEvent`), the
browser reconnects (`Connect`, which `EventSource` does by itself) and delivers (`OnMessage`);
no request has to be answered, and the stream breaks a bounded number of times.

## 4. Proofs

The theorems hold for every value of the constants allowed by the named assumptions, which TLC
evaluates on the runs. Beyond the types of the constants they say: a receive limit is positive
(`HttpConnection`); there are names and pids (`ClientDownloads`); a byte has room for the three
request types, a name has a length, and what a client may offer does not reach the wrap-around
(`FrameAssumption`; in the code a name has at most 255 bytes and a size 64 bits); and the line
buffer of `daemon_state_read` holds the line of the longest directory (`StateAssumption`; 4608
against 4096 bytes; the limit of a target, `PathAssumption`, is only a number). The instances in `MCInputs` fix the alphabets (words of a command line,
characters of a directory, the pieces a request is put together from), not the lengths. Each module follows the same plan: an inductive
invariant, checked by TLC before it was proved, one lemma per part or per action, and the
properties as consequences.

* `MessageStoreProofs`. `SafetyInv` = `StoreInv` (the store holds the newest message of the
  history, whose length is the version), `StreamInv` (a held message is the one of the local
  version, which has not been sent), `ShutdownInv` (the order of the flags) and
  `NoLostWakeup`. `EventsMatchHistory` alone is not inductive: that an event is right needs
  what the store held when it was fetched. `ImplementsBoard` uses the same invariant: the
  history maps to the posts, the version a stream took from the store to what it looked at,
  and its last event to what it was told; a snapshot and the end of a wait are `Look`, an
  event that went out is `Tell`, and everything else stutters.
* `ServerProcessProofs`. `SafetyInv`: the list is the set of live threads plus the one being
  started, the count is its cardinality (`TrackerInv`), the descriptor table and the threads
  agree (`OwnerInv`, `SocketStaysOwn`), phases of the main thread (`MainInv`), temporary
  files only during uploads (`TempInv`). The cardinality facts come from
  `FiniteSetTheorems`.
* `TransferProofs`, the receive directory. `FilesInv`: every temporary name holds an inode of an upload that is
  writing or was cut off by a crash, final names hold closed inodes of full size, and a
  download's descriptor refers to a closed inode. `Refinement` proves that every step of the
  directory is a step of `AtomicFiles` or a stutter: publishing is `Apply`, a crash is `Lose`.
  For `DirListing`, which adds steps to the same state, `ListInv` adds what the listing has
  seen of the entries that were there all the time (`SteadyInv`), that `pubs` records every
  final name's current inode (`PubsInv`) and that a size in an answer is the full size of one of
  them (`ToldInv`). The order of the rows is any order sorted by name (`Sorted`), as `qsort`
  gives.
* `TransferProofs`, the session. `SessionInv` bounds how far each side can be ahead of the other
  (`WireInv`, `CountInv`, `ClientInv`), what is in the destination (`OutInv`) and that every
  failure has a cause on record (`CauseInv`). It holds for every frame size and buffer size.
* `DaemonControlProofs`. `LifeInv` needs no assumption on overlap: a watcher lives only
  between the write of the file and the join, and the file never names a daemon that exited
  by itself. `SerialInv`, for commands that do not overlap: at most one daemon process, which
  the file names once it is ready, whether or not its parent learnt of it, and a command about
  to fork or to remove the file knows that there is none. `OneDaemon`,
  `Findable` and `StoppedIsTrue` follow.
* `HttpConnectionProofs`. `HttpInv`: where the thread is says how much of the request it has
  (`PlaceInv`), which answer is on its way (`AnswerInv`), what has been stored (`EffectInv`),
  that a thread that gave up after a timeout wrote nothing more (`SilenceInv`), and that nothing
  is unread when the answer to a whole PUT is followed by the close, unless it is one of the
  refusals `UploadAnswersArrive` names (`DrainInv`). `UploadAnswersArrive` needs the last: the reset is decided by what the thread
  did many steps earlier. It holds for all header and body lengths and both limits.
* `ClientsProofs`, one invariant for each client program. `hf -g`: a command that still holds a
  temporary name has its own file there, from which the action property `OnlyOrphansRemoved`
  follows for every number of commands, pids and attempts. The page: the text that is cleared
  is the one that was posted, and the listing that is shown is the newest that was asked for
  unless requests overlapped.
* `InputsProofs`, one invariant for each conversion.
  *Content-Length*: the value is the number written as long as the parser reads, and at most the
  greatest value; the test before the multiplication is exact.
  *Frames* (`FrameInv`): the stage says how many bytes were consumed, and header, name length,
  name and size are the decoded bytes at their places in the stream; the answer is a function
  of them. That an accepted frame is canonical then is the fact that decoding and encoding a
  word are inverse, for every base.
  *Command line* (`LineInv`): options and values take turns (`TurnInv`), the locals count the
  pairs given (`SeenInv`), the fields hold the last value where one command was selected
  (`FieldInv`); after `status` or `stop` only `-i` is let through, until the end refuses it
  (`ControlInv`); and where `parse_args` returns from inside the loop the arguments are
  `Hopeless`, which more arguments preserve and no command line of the usage text is. Only with
  that part is "nothing acceptable is refused" inductive. `ConsistentIsUsage` shows that the
  checks after the loop are the forms of `usage()`.
  *State file* (`StateInv`): the reader is between two lines, or among the lines that a
  directory with line breaks was split into (`LaterInv`); without line breaks everything before
  its place is in the record (`PlainInv`). Every line fits the buffer of `fgets`, which is where
  the assumption is used.

* `TextProofs`, what the recursive functions and folds over texts compute for texts of every
  length. `Induction`, and `Ascent` and `Descent` along a text, come from the least number
  outside a set; `Recursion` gives the existence of a function that is defined from its values
  at smaller arguments, `FoldExists` that of the folds behind `FoldLeft`, `FlatGrows` and
  `Flattened` say where `FlattenSeq` puts each sequence. Every loop of the code then has two
  lemmas, one that its function exists (`SplitIs`, `OkIs`, `BytesIs`, `ValueIs`, `ParseIs`,
  `LinesAre`, `EventsAre`) and one for what a step of it does.
  *Paths* (`PathInv`: a request is any text in the characters of the model). What
  `fs_validate_relative_path` accepts are plain segments, up to a slash at the end
  (`OkayIsPlain`); a walk along plain segments only goes down (`PlainWalk`), so that what is
  opened is below the base (`WalkBelow`). The argument does not look into the decoder: whatever
  `http_decode_name` and `http_query_get_value` make of a target, the validator is applied to
  the text that is opened. For the links the decoder is what counts: encoding writes no
  character that ends a path or a query field (`SafeLacks`), and decoding an encoded text
  position by position gives it back.
  *Messages* (`MessageInv`: a body is read as the text up to its first U+0000 if it is whole and
  has no half of a surrogate pair (`Sound`), and refused otherwise). `ParseSpelled`: from the
  position of a code in the body, the parser of strings returns the rest of the text and the
  position behind the closing quote, or fails if the quote was cut off or half of a pair is
  still to come; by `Descent` over the codes. `BodyParsed` adds the constant parts: every proper
  beginning of a body is refused at the test that first reaches its end. Both encoders write
  codes of the same table, and so does `http_json_escape` (`EscapedIs`), hence what the page
  reads is what is stored. For the stream, `Holds` says which lines a browser has after each
  character of the event, `EventLines` what they are at its end, and joining the data gives the
  text back. A carriage return ends a line for the browser, which is why the property excludes
  it.

The type invariants of these modules and some safety properties that follow from the same
invariants (`EventsMatchHistory`, `EventsGoForward`, `PublishedIsComplete`,
`DownloadIsStable`, `RefusedHasNoEffect` and `NoTempLeft` of `FileTransfer`,
`OverflowIsReal`) are theorems and not part of a run.

The induction theorems of the library take an operator as a parameter, which the provers cannot
instantiate. The proofs use sets of numbers in its place: `LeastNumber` gets the least element
from the well-foundedness of `<`, and positions of characters, `strchr`, `fgets`, loops and
folds are reasoned about through it.

Only model-checked: the liveness properties (`EveryPostIsDelivered`, both `ShutdownCompletes`,
`SessionEnds`, `CommandsEnd`, `ThreadEnds`, `MessageArrives`), which are out of the prover's
reach. Every invariant and every action property that a passing run checks is a theorem. The
violations are of TLC alone.

## 5. Not modelled

* The vendored HTTP parser and QR encoder; `phr_parse_request` is "well-formed or not".
* In the page: the copy button, the formatting of sizes and times, HTML and CSS. In `fs.c` and
  `net.c`: `fs_remove_tree`, which has no caller, creation of directories, the choice of the
  primary address, socket set-up. The wording of output and logs; build and installation.
* The Windows and macOS branches; the models follow the Linux build.
* Names of files that collide with temporary names, other programs that change the receive
  directory, and a restart of the server under an open web page.
* Invalid UTF-8 in messages, and the limits of the HTTP parser's buffers other than the length
  of a target.
* Durability: the code does not call `fsync`, and `Crash` is a crash of the process.

## 6. Plan

Done: sections 2 to 4. Every safety property that a passing run checks is proved. Left:

1. Under `Overlap = TRUE`, which part of `SerialInv` survives.
2. The alphabets of `MCInputs` as constants with assumptions, so that the theorems about texts
   also hold for other characters than those the conversions treat specially.
