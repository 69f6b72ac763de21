# TLA+ models of smalltable

smalltable is a key-value server that speaks the binary memcache protocol, a
proxy that spreads the keys over several servers, and a Python client. A server
can run plugins: sandboxed programs that register as the handler of an opcode.
This directory holds TLA+ models of the parts whose correctness depends on the
order of events, TLC configurations for small instances of them, and TLAPS
proofs for all instances. `PROJECT.json` maps every definition to the lines it
models.

## The system

Server and proxy share one event loop. `src/src/event_loop.c` waits with libevent;
each client is a `struct connection` whose callback is `conn_recv` or `conn_send`
(`connection.c`). `conn_recv` cuts the stream into requests and collects *quiet*
requests (those whose client does not wait for the answer) into a **bulk**, which it
hands to `process_multi`:

* in the server (`command.c`) `process_multi` splits the bulk into groups that have
  the same handler: built-in commands (`sys_commands.c`, `code_commands.c`) or a
  plugin (`process.c`), and calls the handler once per group;
* in the proxy (`proxy_command.c`) it copies each request to the back-end that is
  responsible for its key, closes each back-end's part with a NOOP, runs a second
  event loop (`uevent.c`, `select`) until all answers are there or have failed
  (`proxy_client.c`), and puts the answers in the order of the requests.

The administrator changes the routing with STOP, SET_CONFIG and START
(`proxy_sys_command.c`): STOP leaves only the connection that sent it in the event loop, SET_CONFIG
replaces the servers and saves the new configuration to a file. `client/smalltable/manager.py` uses
the three to move keys to a new server while clients go on. A server keeps its items in a
storage engine; the one that belongs to the project (`sto_fs.c`) has one file per key.

## Inventory

| Part | Source (`src/src/` unless given) | State | Module |
|---|---|---|---|
| client connections | `connection.c`, `event_loop.c` | modelled | Connection |
| framing | `framing.c` | partly: not the building of responses | Framing, Connection |
| buffers and their pool | `buffer.c` | modelled | Buffers |
| proxy bulk forwarding | `proxy_command.c`, `proxy_client.c`, `uevent.c` | modelled | ProxyBulk |
| back-off of a broken back-end | `proxy_client.c` | modelled | Backoff |
| STOP and START | `proxy_sys_command.c` | modelled | Connection, ProxyConfig |
| routing, SET_CONFIG, its file | `proxy_config.c`, `st_server.c`, `st_proxy.c` | modelled | ProxyConfig, ProxyServers |
| command table, plugins | `command.c`, `process.c`, `code_commands.c` | partly | Commands |
| plugin library | `libst/smalltable.c` | partly | Commands |
| key-value commands | `sys_commands.c`, `storage.c` | modelled | Store, FsStorage |
| file storage | `sto_fs.c` | modelled | FsStorage |
| moving keys | `client/smalltable/manager.py` | modelled | Reshard |
| Python client | `client/smalltable/` | partly: what the manager uses | FsStorage, Reshard |
| containers | `rbtree.c`, `list.h` | partly: trees of any shape | ProxyConfig |
| start-up, sockets | `main.c`, `proxy.c`, `network.c` | partly: start of the proxy | ProxyServers |
| other storage engines | `sto_bdb.c`, `sto_tc.c`, `sto_ydb.c`, `sto_dumb.c` | left out: wrappers of libraries | |
| strings, logging | `common.c` | left out: pure | |
| vx32 | `vx32/` | left out: third party | |

## Modules

### Connection

The life of the connections of one server or proxy. Per connection: what the client
wrote and is still writing (`sent`, `unsent`, `sock`), whether it is still there
(`peer`), what it has not read (`unread`), and the C state: `registered`,
`write_only`, the bytes in `recv_buf` (`recv_used`), the open bulk (`requests`,
`quiet_recv_off`) and the responses in `send_buf`. `done` and `got` count requests
consumed and responses handed to the kernel.

A callback runs to its end before the next one starts (there is one thread), but the
clients and the network move at any time, so a callback is a chain of actions marked
by `running` and `pc`: `client_callback`, then `Recv`, `Swallow`,
`ProcessRequest`, `EndMulti`, `Send` in the order of the code, with `RecvClosed`,
`FormatBroken` and `SendFailed` for the exits through `conn_close`. The content of a
request is its kind (an ordinary command, STOP, START or malformed), its size and
whether it is quiet. The number of responses the kernel takes stands for the bytes
it takes: a response split between two sends is not told apart from one that is sent
later, since `buf_consume` treats all bytes alike.

### Framing

How `conn_recv` finds the end of a request, as operators: the lengths are fields of 8, 16 and
32 bits, their sum is put into an `int`, and the order of the comparisons is that of
`reqbuf_get_sane_request_sz`. `Connection` takes from it that a request which is not malformed has
the size that its lengths say and is at most MAX_REQUEST_SIZE; `MCConnectionBulk` puts the two
together and checks that for every header that can stand where `conn_recv` looks.

### Buffers

`buffer.c`: each buffer is a window into a chunk of memory; chunks that run empty go to a pool
which all buffers share, and chunks that are too small are reallocated, in place or elsewhere.
`held` is the pointer that the caller works with between `buf_get_reader` or
`buf_get_writer` and the call that ends the use; `queue` is what the caller believes the
buffer holds. The other modules take a buffer for a plain queue; here it is shown to be one.

### ProxyBulk

One call of the proxy's `process_multi` after another. Requests are dispatched to the
servers (`DispatchInProxy`, `DispatchToServer`, `DispatchEnd`), each server's
descriptor goes through `do_start`, `Writable`, `Readable` and `Swallow`, errors go through
`do_error` and `do_connection_error`, and `Collect` puts the answers together. The
back-ends execute what they receive (`Execute`), send in parts (`Flush`), may be cut
off (`Disconnect`, `Lose`) and may execute what they had received before
(`ExecuteLate`). Responses are sequences of *cells*, each cell a piece of a response
that may arrive alone, so that a response cut in two can be distinguished from a
whole one.

### Store and FsStorage

`Store` is what the key-value commands promise: a map from keys to items in which each command
takes effect at one point in time and as a whole. `FsStorage` is how it is done: the
commands (`cmd_get`, `cmd_set`, `cmd_delete`), `storage_set`, which borrows the bytes behind the
value for the metadata, and `fs_set` with one action per system call (`fs_set_open`,
`fs_set_mkdir`, `fs_set_write`, which may write a part, `fs_set_rename`). The server may die between any
two of them (`Crash`), and each may fail (`fs_set_error`); a lookup or an unlink that fails counts as "not
found" (`Finds`, `cmd_delete`), and a request that finds the send buffer full is not executed
(`SendBufferFull`). `failed` notes that a call has failed in the request: `Store` lets such a request be
refused. `ImplementsStore` maps the files under their final names to the items of `Store`.

Beside that a client lists all keys (`ListStart`, `ListPage`, `ListEnd`): each page is what the
walk over the hashed directories yields after the last key of the page before. `present` are the keys
that have been there all the time, `skipped` the directories in which the cursor was
gone when the walk came back to it, `phantoms` whether it met a file left behind by a SET.

### ProxyConfig, Backoff and ProxyServers

`ProxyConfig` has the tree of servers in every shape that a binary tree of its keys can have,
`find_st_server` on it, and SET_CONFIG: the trial load, the real load, and `save_config` as
`fopen_new`, `fputs_new` and `rename_new`. A configuration is a sequence of lines. Nobody looks at the results
of `fputs` and `fclose`, so `fputs_new` may write only the beginning of the text (`CutTexts`) and `rename_new`
put that in place; `cut` says of which file this is true. `Backoff` has one server's
`next_retry` (as the distance `wait` to the present), `delay`, and the stream that uses it.
`ProxyServers` composes them: a configuration or a restart replaces the server, and bulks are
forwarded between the commands, while the proxy is stopped those of the connection that stopped it.

### Reshard

The ADD action of the manager, from `check_health` to the removal of the moved keys, one
action per key or per command to a proxy, with clients that set and delete keys through the
proxies beside it. An item has the number of the SET that wrote it and the stamp (`i_cas`) that the
listing shows. At any point

* the manager may die, or a command of it raise (`Die`);
* a proxy may die and come back with the configuration it had saved (`Crash`), which is not the one it had
  if `save_config` failed: `SetConfig` answers OK in either case. What becomes of a file that was cut is
  `ProxyConfig`'s matter;
* a SET may fail on the old server and leave its second file behind (`SetFails`). Such a stray file is listed:
  where a page ends at it the walk goes on somewhere else, so that `ListKey` may miss keys or begin again, and
  its name may become the boundary;
* a GET or DELETE of the manager may be answered with "not found" (`CallFails`).

`lost` are the keys that the manager has missed for one of the last two reasons, and `reverted` says that a proxy
came back with the configuration before the one it had.

### Commands

The command table with the plugin processes. `process_multi` scans a bulk (`Scan`),
forms groups (`RunGroup`, `EndGroup`) and runs built-in commands
(`cmd_code_load`, `cmd_code_unload`, `UnknownOrCheck`) or a plugin (`Serve`, then any
sequence of system calls until it waits for requests again or dies: `ServeFails`,
`LoadFails`). The constant `Liberties` says what a plugin or client may do beyond what
`libst` and the Python client do; each liberty is explained in the module's header. `libst` registers every
command with flags of its own, and a group is a run of requests with the same process and the same
flags, so one process may have several groups in a bulk. `died` is the process that was freed for the group
before.

### MC modules

`MCConnection`, `MCConnectionBulk`, `MCBuffers`, `MCProxyBulk`, `MCCommands`, `MCFsStorage`, `MCProxyServers`
and `MCReshard` give names to the sets and the symmetries that the configurations use.

## Runs

| Run | What it shows |
|---|---|
| `Connection_bulk` | one connection, quiet and ordinary requests of smallest and largest size in any pieces: bulks are bounded, answers in order, the right event is awaited, and no lengths in a header mislead `conn_recv` |
| `Connection_stop` | two connections that come and go, one of which stops and starts the proxy: one owner, silence of the other, the proxy resumes when the owner leaves, requests are answered in the end |
| `Buffers` | two buffers, three chunks: each buffer is a queue, no chunk has two owners, the pointers of callers stay good |
| `ProxyBulk` | two back-ends that fail anywhere: answers match requests, buffers are never overrun, nothing remains for the next bulk, no request is executed twice, an OK means it was executed, `process_multi` returns |
| `ProxyServers` | SET_CONFIGs, crashes, failures to save and saves cut short beside a back-end that comes and goes: the right owner for every key, a complete configuration after a restart, only a duplicate is fatal, the back-off ends |
| `Commands` | plugins as `libst` makes them: no freed process is used but one that has just died, by its own next group; loaded plugins are reachable, one answer per request |
| `Commands_any` | all liberties but registering twice: reference counts are exact, the table names only live processes |
| `FsStorage` | the file storage implements `Store` whatever fails, the next request in the buffer survives a SET, and a listing is complete and ends |
| `Reshard` | serving proxies find the latest item of every key whoever dies and whatever fails when, but for what the failures make the code miss; stopped proxies resume |

Three further configurations end in a violation and show a disagreement between the
code and its own words:

* `ProxyBulk_eight`: `process_multi` stops at its limit of back-ends after it has sent
  a request and before it has counted it (`proxy_command.c:54`);
* `Commands_flags`: a table entry is read before the callback that may free the
  process in it (`command.c:139`). A plugin whose commands have different flags, and which dies while it
  serves the first of two groups, is used by the second one;
* `Reshard_again`: after an ADD that died on the way, the keys that the new server already holds are
  "assumed to be up-to-date" (`manager.py:78`) and are not.

Four more have no configuration of their own; other constants show them:

* `NothingLeftBehind` is violated with `Servers = {s1}`, `MAX_ORDER = 3` and `SEND_LIMIT = 6` in
  `ProxyBulk.cfg`: a back-end with a full send buffer answers the closing NOOP with a text
  (`sys_commands.c:61`), not with the 24 bytes that `proxy_command.c:83` takes off;
* `NoOtherFreedProcessUsed` is violated with `Liberties = {"pipeline_code"}` in `Commands.cfg`: a CODE_UNLOAD
  and a command of the plugin in one bulk reach `command.c:139` without any death;
* `RegisterCountExact` is violated with `Liberties = {"register_twice"}` in `Commands_any.cfg`: registering
  a command that one owns already counts it again (`process.c:248`);
* `OneAnswerEach`, as the only invariant, is violated with `MaxBulk = 3`, two processes and
  `Liberties = {"small_buffer"}` in `Commands.cfg`: the error exit for a buffer that is too small
  takes back `send_sz` bytes of an earlier call (`process.c:128`).

The passing runs exclude these causes, through a constant of the instance: the number of
back-ends is below the limit, back-ends answer the NOOP properly, the liberties leave out the one
in question, and `Rerun` is FALSE. The one exception is `Commands_flags`: what it shows is open to every
plugin, and the passing run says that nothing else happens.

Some properties name an exception, which is a place where the code does not do more:

* `PointersStay`: `process_multi` of the server makes room in the buffer it was given a pointer to
  (`command.c:121`). When no more than the metadata is left behind the requests, `realloc` may move
  the chunk and the pointer goes stale.
* `NoOtherFreedProcessUsed`: the process that died in the previous group (`Commands_flags`).
* `RestartKeepsConfig`: a text that `fputs` or `fclose` could not write to its end is renamed over the good
  file all the same (`proxy_config.c:250`), and stays until the next SET_CONFIG. And SET_CONFIG takes a text of MAX_CONFIG_LINES lines, but the file it saves has
  two comments more, and `split_line` does not cut off the last line it has room for
  (`proxy_config.c:41`): such a file cannot be loaded.
* `ListingComplete`, `ListingEnds`: a file that a crashed or failed SET left behind is listed as
  a key, whose name hashes to another directory, so the walk may skip or repeat. And if the cursor
  was deleted between two pages, the rest of its directory is left out (`sto_fs.c:297`).
* `ImplementsStore`: "not found" is the answer to every error of the system (`sto_fs.c:75`), so a GET, REPLACE or
  DELETE of a key that is there may get it, and an ADD may overwrite an item that its lookup could not read
  (`Blind` in `Store`).
* `ReadsLatest`: a key that was set again within the resolution of `i_cas` (`sto_fs.c:196`) is
  taken for unchanged (`blurred`). Keys that the second listing misses because of a stray file are deleted
  from the new server (`manager.py:115`), and a GET or DELETE that fails on a server is passed over (`lost`). When
  the manager dies between two SET_CONFIGs, or a proxy is restarted then, proxies with both configurations serve
  clients (`Split`). And a proxy whose `save_config` failed comes back with the old configuration
  (`reverted`, `proxy_sys_command.c:116`), whose server has lost the moved keys.
* `ProxiesResume`: with a stray file at the end of a page the second listing may come round to the same page
  again for ever, while the proxies are stopped.

### Bounds

The sizes keep the proportions that the code's limits depend on.

* `Connection_bulk`: a header has 3 bytes and the largest request 7, so a bulk may have 3
  requests and reaches its limit by count with small requests and by bytes with large ones;
  4 requests are enough for a full bulk and a request behind it, and a window of 2 responses makes sends
  partial. A 32-bit word is 64, so that lengths wrap around within reach of a full buffer.
* `Connection_stop`: requests of one byte, since what is asked does not depend on sizes; two
  requests stop and start, or stop twice, while the other connection has one to be suspended.
* `Buffers`: chunks start at 2 bytes and grow once. METADATA is 0, because `_buf_alloc` always leaves
  one byte more than asked for: with 0 both cases, room enough and not, occur.
* `ProxyBulk`: two back-ends, bulks of at most 2 and a history of 3 requests: an error on one back-end
  can fall before and after the other's answers, and a second bulk finds what the first left behind.
* `ProxyServers`: texts with one to three servers, with duplicates, without a server for the smallest
  keys, and one whose saved file is exactly too long; two SET_CONFIGs and two faults, so that a failed
  one is followed by another, and a save that is cut short by a good one. Delays of 1, 2 and 3, with a
  `next_retry` as much as 2 in the past.
* `Commands`: three processes and two commands: two plugins that take over each other's
  commands while a third is loaded. Bulks of three requests have room for two groups of a process
  and one of another kind before, between or behind them.
* `FsStorage`: three keys, two of them in one directory, names left behind that hash before and
  behind it, pages of one name, one fault at any place. Requests with both outcomes of every condition.
* `Reshard`: two proxies and two keys, two SETs, two tries of ADD and three faults: a key is set before the first
  listing, between the listings or after the switch, and faults of different kinds meet, such as a stray file, a
  configuration that is not saved and a restart. `Reshard_again` has three SETs and two faults.

`Connection`, `ProxyBulk` and `Commands` stop when their clients have used up their
requests, so deadlock is not checked there; that nothing stops too early is what the liveness
properties say. The other runs check for deadlock.

### Fairness

* `Connection`: a ready, registered descriptor gets its callback (the loop visits every ready
  descriptor in each iteration), callbacks go on (single thread, no blocking call in them), and a
  client finishes writing what it began and reads what it gets.
* `ProxyBulk`: `select` reports what is ready, and every back-end answers or its connection breaks;
  without that the code really waits for ever (`uevent.c:25` has no timeout), so the assumption is the
  condition under which `process_multi` returns and not a convenience.
* `FsStorage`: a command that has begun goes on, and the event loop gets round to the client that
  lists however busy the others are (strong fairness, because each of their requests disables it for a while).
* `ProxyServers`: requests keep coming while the proxy is not stopped, a bulk that has begun is finished, time
  passes, and `save_config` goes on. Nothing is
  assumed about back-ends: that one stays reachable is a premise of `UsedAgain`.
* `Reshard`: the manager goes on, and a proxy notices that a connection was closed. Nothing makes the
  clients or the faults stop but their bounds.

## Proofs

Each theorem holds for all values of the constants under the named assumptions of its module. None of the
properties is inductive by itself; each proof module states its inductive invariant, has
one lemma per action that it is kept, and combines them.

**Connection** (`ConnectionInvariant`, `ConnectionProofs`): `TypeOK`, `StopHasOneOwner`,
`BulkBound`, `BulkFitsPlugin`, `AnsweredInOrder` and the action property `SuspendedIsSilent`, for any
set of connections, header and request sizes, window and length of the history. The assumptions are that a header
has at least one byte, the largest request is at least a header, requests that are not malformed are at most the largest
request, responses have sizes in Nat and the window is not empty. `IInv` adds:

* **the stream** (`StreamOK`): each request ends where the one before it ends plus its
  size. `conn_recv` knows only byte offsets, so counting requests needs the link
  between offsets and requests;
* **the bulk** (`BulkInv`): `quiet_recv_off` is the distance between the ends of
  the last request consumed and the last one collected; it is at most what is in
  `recv_buf`; and all but the last request of the bulk were added while fewer than
  MAX_REQUEST_SIZE bytes had been received. This is why both bounds hold: outside
  `process_multi` an open bulk is smaller than MAX_REQUEST_SIZE, and one further
  request is at most MAX_REQUEST_SIZE. `QuietBound` turns the bytes into a count by dividing by
  the smallest request, a header;
* **the callback** (`CallbackInv`): the running callback belongs to a registered
  connection. Hence the connection that closes while the server is stopped is the owner
  of the stop, which is what `conn_close` relies on;
* **the answers** (`AnswerInv`): `send_buf` continues exactly where `got` ends.

**Buffers** (`BuffersInvariant`, `BuffersProofs`): `OneOwnerPerChunk`, `HoldsItsQueue` and `PointersStay`, for any
buffers, chunks, bytes and sizes. They need each other: a buffer keeps its bytes because no
other owns its chunk, and that holds because the pool passes on chunks with their true sizes
(`SizesAreTrue`). `IInv` also says that a buffer without a chunk is empty, that a pointer to write
with points into a chunk, and that the room a reader saw is still there (`RoomIsTrue`), which is why
`process_multi` does not move a chunk with room enough. `Exclusive` is what holds between taking a chunk and
using it.

**FsStorage** (`FsStorageProofs`): `TypeOK`, `NextRequestIntact`, and that `FsStorage` implements
`Store` (`Refinement`), for any keys, requests, blocks and hashes and any number of faults. `IInv` says
that a file under its final name always has its metadata (`Complete`), that the file under the
second name has exactly what has been written so far (`Written`), and that the conditions that
`cmd_set` checked still hold when the file is renamed, unless it is an ADD whose lookup failed (`Control`). Only
`fs_set_rename` and `cmd_delete` then change the map; every other step of the server is a stutter, an answer or a
failure. `ListingComplete` is proved on top: every key that has been there all the time was seen,
is in a skipped directory, or lies ahead of the cursor in the order of the walk (`Covered`). It rests on that
order being total and on a page ending before all that it leaves out.

**Reshard** (`ReshardInvariant`, `ReshardProofs`): `ReadsLatest` and `TypeOK`, for any keys and proxies and any
number of writes, tries and faults, from `~Rerun`: ADD begins on an empty server. The argument: while
proxies run, a key that still has the stamp it was listed with has been copied or will be
(`Tracked`); once all are stopped, what the second listing finds is what is there, and without stray files it
finds all of it (`Exact`), so what differs from the first is copied or removed (`CatchesUp`), and when the
first proxy is switched both servers agree on what moves. If a proxy's connection broke it may be running
again, but then the manager cannot get past it: `Locks` says that a proxy which is still connected is stopped.
`Configs` relates the configurations to the saved ones and to the manager: a proxy falls back only to an
older one, and that sets `reverted`. `AtHome` is the property as the induction needs it: a key that was lost may
be wrong on the new server, but its latest item is still where it was as long as no proxy has been switched.

**Backoff** (`BackoffProofs`): `ShunnedBriefly`, for all delays. The delays add up from one
`next_retry` to the next, but a socket exists only if `next_retry` had passed when it was made, so
each delay is added to a time that is past.

Only model-checked: every liveness property and the fairness it rests on (temporal proofs with
ENABLED are out of the prover's reach); `Framing`, `ProxyConfig` and `ProxyServers`, which is built on recursive
definitions of trees; `WaitsForTheRightEvent`; and everything about `ProxyBulk` and `Commands`.

## Not modelled

* **Other storage engines**, **vx32** and the compiler that `CODE_LOAD` calls: code of others, or wrappers of
  it. The server sees them through the calls that `FsStorage` and `Commands` have.
* **Strings**: escaping of keys and hexadecimal coding. `FsStorage` gives every key a file of its own;
  a name of more than 251 characters is cut by the code (`sto_fs.c:53`), which is outside of the model.
* **Power failures**: `fs_set` does not call `fsync`, so what is said about crashes is said about the
  process, on a file system that keeps what it was told.
* **A link with bounded socket buffers** between proxy and back-end. The proxy writes all of a bulk before it
  reads, and a back-end stops reading while its answers are not taken; the code relies on
  the size of the socket buffers (`net_set_ridiculously_high_buffers`). `ProxyBulk` takes them as unbounded.
* **SET_CONFIG in a bulk with other requests**, which would free servers that `order[]` points to: the manager sends it alone.
* **The cas as a version**: `cmd_set` makes it a truth value (`sys_commands.c:135`). The model has it as it is; no
  property claims more of it than that it is compared.
* **Errors within a listing** and reads that return less than the file has: `FsStorage` lets every other system
  call of the storage fail. That the buffer is too small for an item (`sto_fs.c:80`) does not occur: the value came
  in a request, and the buffers have room for the largest one.
* **How large a buffer grows**: `start_off` goes back only when the buffer is empty.
* GET_CONFIG, VERSION, HEALTH and the prefetching of keys change no state.
