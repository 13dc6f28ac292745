# A TLA+ development for libmbim

libmbim talks the MBIM protocol to cellular modems.  An application creates an
`MbimDevice` for a port, opens it, exchanges requests, answers and indications
with the modem, and closes it; several applications share one modem through the
`mbim-proxy` daemon.  Everything runs in one GLib main context, so there are no
data races; what is hard is the order of dispatches: answers, timers,
cancellations, hang-ups, calls made from callbacks, and callbacks that were put
off to an idle source.

This directory models that, checks it with TLC and proves part of it with TLAPS.
Source paths below are relative to `src/libmbim-glib/` unless they say otherwise.

## Inventory

| Component | State it keeps | Operations | What is hard | What makes it correct |
|---|---|---|---|---|
| Transaction table (`mbim-device.c`, `mbim-message.c`) | `transactions[HOST/MODEM]`, `transaction_id`, per task: collected fragments, timer, cancellable; `pending_error_indication`, `consecutive_timeouts` | `mbim_device_command`, `process_message`, `transaction_timed_out`, `transaction_cancelled`, error reports | answer, timer and cancellation race; fragments lost or repeated; callbacks that close the device in the middle of a handler | each request is completed once and called back once, never lost; messages are returned whole |
| Open and close (`mbim-device.c`) | `open_status`, `open_transaction_id`, `in_session`, the I/O channel, the context of each operation | `mbim_device_open_full` (seven steps), `mbim_device_close`, `mbim_device_close_force`, hang-up | an open is a chain of requests with anything in between; the modem's state is not known; late answers | an operation always advances and ends; what it reports is true of the modem |
| Stream framing, validation, fragmentation (`mbim-device.c`, `mbim-message.c`) | `response` buffer | `data_available`, `parse_response`, `_mbim_message_validate_internal`, `_mbim_message_split_fragments` | partial reads, invalid messages, exact multiples of the maximum | what is split is what is collected; no message is cut or lost |
| Information buffers, TLVs, UUIDs, CIDs | none | readers, builders, tables | bounds arithmetic on lengths taken from messages | reads stay within the message |
| `MbimProxy` (`mbim-proxy.c`) | clients, devices, opening queue; per client: device, subscribe list, ongoing configuration; per device: merged list, agreed version | configure, open, close, subscribe, forward a command or an indication, device removed, device error | many clients with many requests in flight over one device that may close, vanish or be reopened under them | one open per port, each request of a client answered at most once and with its own id, clients see what they subscribed to |
| Proxy helpers (`mbim-proxy-helpers.c`) | none | merge, compare, parse, standard list | wildcards, repeated cids and services, lists that compare equal | the merged list is the union of what the clients want; not sending it again loses nothing |
| `mbim-proxy` daemon (`src/mbim-proxy/mbim-proxy.c`) | exit timer, "a client connected once" | notifications of the counters, timer | order of notifications against the timer | it exits when unused, and only then |
| Net port manager (`mbim-net-port-manager*.c`, `mbim-helpers-netlink.c`) and the link calls of `MbimDevice` | netlink transactions by sequence id, the socket | add, delete, delete all, list links | acknowledgement against timeout, two callers, other processes, the first failure of several | each call is completed once, with the verdict on its own request; deleting all claims no more than it did |
| `mbimcli` (`src/mbimcli/*.c`) | the global cancellable, device and status; a context per service | one option of one of 21 services: open, one request (or two), close, exit status; reading the option's argument | some 150 paths through callbacks that must each finish once; signals; arguments with repeated and missing parts | the tool ends, its exit status is true, the session is left as asked, an argument is used as given or not at all |
| Helpers, compat, codegen, `mbim-network` | little or none | I/O, generated parsers | - | - |

The components call each other as follows.  An application (or `MbimProxy`, which
is an application of `MbimDevice` in this respect) calls open, close and command;
open and close are themselves chains of commands; a command stores a transaction
and writes to the channel; the channel, the timers and the cancellables release
transactions and complete tasks; a completed task runs the caller's callback,
at once or from an idle source, and the callback may call any of these again.
Through the proxy, the channel of a client is a socket whose other end is a
`Client` of `MbimProxy`, which owns an `MbimDevice` on the real port.

## Modules

| Module | Models |
|---|---|
| `MbimTransactions` | the transaction table: tasks, fragments, timers, callbacks, errors |
| `RequestReply` | the abstract service: a request that was accepted is answered once |
| `MbimTransactionsRefinement` | the table implements `RequestReply` (what a caller sees is its callback) |
| `MbimTransactionsProofs` | theorems about the table, and that it implements `RequestReply` |
| `MbimDevice` | open and close operations; its actions on the table are those of `MbimTransactions`, which it EXTENDS |
| `MCDevice` | flag sets for the runs |
| `MbimDeviceProofs` | theorems about the device: it uses the table as described; its operations |
| `MbimProxy` | `MbimProxy`: clients, devices, requests, and the modem behind each port |
| `MbimProxyMain` | the `mbim-proxy` daemon over `MbimProxy`: its exit timer |
| `MCProxy` | the symmetry of `MbimProxy` |
| `MbimProxyProofs` | theorems about the proxy and the daemon |
| `MbimForwarding` | the fragments of clients' commands forwarded by the proxy, their transaction ids and their answers |
| `MbimSubscriptions` | the lists of events of the clients, merged and compared as the code does it |
| `MbimProxyTraffic`, `MCTraffic` | the two over one device, whose ids and table they share; workloads and lists |
| `MbimProxyTrafficProofs` | theorems about lists and about forwarded commands |
| `MbimStream` | messages cut into fragments, found in a stream or on a port, validated, put together |
| `MbimStreamProofs` | theorems about messages and fragments |
| `MbimLinks`, `MCLinks` | network links: the net port managers, netlink transactions, the kernel and other processes |
| `MbimLinksProofs` | theorems about the links |
| `MbimCliOperation` | what a callback of `mbimcli` can make of an answer |
| `MbimCliBasicConnect`, `MbimCliExtensions`, `MbimCliUicc`, `MbimCliServices` | the callbacks and run branches of each service |
| `MbimCli`, `MCCli` | the tool around them: opening, signals, closing, exit status |
| `MbimCliProofs` | theorems about the tool |
| `MbimCliArguments` | how the arguments of options are read |
| `MbimCliArgumentsProofs` | the theorem about arguments |

### MbimTransactions

A task is a number; `ctx`, `fragments`, `total` and `timeout_source` are its
`TransactionContext`, `transactions[kind][id]` the hash tables.  One action is one
dispatch of the main loop or one call of the application, except that
`g_task_return_*()` runs the caller's callback at once when the task was created
in an earlier dispatch and its cancellable is not cancelled: the action then sets
`running`, the application may act inside the callback (`AppRuns`), and
`RunCallback` is its return.  Otherwise the task goes to `idle`.
`pending_error_indication` stays set across the callback of a `FUNCTION_ERROR`,
because `process_message` emits the signal after it; that dispatch is not over
until `EmitError`.

`Command` has the four outcomes of `mbim_device_command`: no channel, cancellable
already cancelled, write failed, sent.  `ReceiveDone`, `ReceiveFragment`,
`ReceiveNewIndication`, `ReceiveFunctionError` and `FinalizePendingOpen` are the
branches of `process_message` that find or make a task; the modem is arbitrary.
`TransactionTimedOut` releases whatever is stored under the kind and id of the
timer, as the code does, and not "its" task.  As long as no id is given again
(`FreshTid`) that is its own task or nothing; ids that are given again, as the
proxy does, are in `MbimForwarding`.

Abstractions: bytes are left out, a fragment is its number and the total it
announces; time is left out, a timer may fire at any moment; ids wrap at `MaxTid`
and `FreshTid` assumes that they do not wrap around onto a live transaction
(there are 2^32 of them); every request has a cancellable of its own; idle
sources run in the order they were added.

### MbimDevice

`ops[o]` is an operation with its `DeviceOpenContext`.  `ContextStep` is
`device_open_context_step`: it falls through the steps that do nothing (`StopAt`),
then returns, or sends the request of its step; the `...Ready` operators are the
callbacks.  `OperationReplied` runs them inside the callback of the request they
wait for.  `create_iochannel` returns its task in the dispatch that made it, so its
callback comes from an idle source (`CreateIochannelReady`), except after a retry
of the proxy's socket (`WaitForProxy`), when it follows at once (`connected`).
The first failed connection leaves `MaxSpawnRetries` further attempts.  Where an
operation closes the channel it may end in success or with the error of
`destroy_iochannel`, which comes when the channel is already gone
(`DestroyResults`).

The modem (`Transmit`, `rx`) handles a request when it is written and puts the
answer in a pipe, or loses the request, or loses the answer; a request may also
fail, with an error status or a `FUNCTION_ERROR`.  Answers are read in order, at
any later time, also after the device was closed and opened again.  At the
start it may be open already, with a `CLOSE_DONE` for nobody in the pipe.

`Patient` says that the application waits for one operation to end before it
starts another.  `mbim_device_close` takes a `timeout` that the code stores and
does not use (the CLOSE has 10 seconds).  Not modelled: a second socket that
`create_iochannel_with_socket` would make while a channel exists; error reports
(they stay in `MbimTransactions`); setting `device-in-session` while an operation
is under way.

### MbimProxy

A handler of `mbim-proxy.c` may complete requests, untrack clients, untrack the
device, and all this in one dispatch.  So the functions of the code are operators
from a state of the proxy, the record `World`, to the next one
(`UntrackClients`, `CompleteOpening`, `UntrackDevice`, `ResetLists`, ...), a handler
is their composition in the order of the calls, and `Become` makes the result
the next state.  `Become` also frees what nobody refers to: a client untracked
whose last request ended, a device untracked whose last client went.

| Variable | In the code |
|---|---|
| `clients[c]` | a `Client`; `conn` is "up" or "lost" while it is in `priv->clients`, "gone" while only requests refer to it |
| `devices[d]` | an `MbimDevice` with its `OpeningDevice` (`opening`), `DeviceContext` (`events`) and stored version; `tracked` means in `priv->devices` |
| `requests[r]` | a `Request`; `stage` is the callback it waits for |
| `modem[p]` | whether the modem at a port is open, and the list it was given last |

`MbimDevice` is reduced to what its callers see: a status, a channel, the number of
calls of `mbim_device_open` that have not returned, and for each command what the
modem does with it (`Fate`), which may be read later, or never, but only while
there is a channel.  An answer may be read after the device was closed and opened
again, as in the code.  A `FUNCTION_ERROR` NOT_OPENED runs the callback of the
request it answers and then `proxy_device_error_cb`, in one dispatch; one that
answers nothing (`ErrorReported`) may have been sent before the modem was opened
again, so it does not need a closed modem.

Requests that are answered at once and change nothing (OPEN, CLOSE, a refused
configuration, a second configuration by a client that has a device) are
stuttering steps.  The standard services, which every list contains, are left
out of the lists; the data of a command and its transaction id are left out; a
command that negotiates the version is one whose answer agrees on a version.
Clients send commands only once they have a device.  The slots of clients,
devices and requests are reused when freed, so a bound is on what exists at one
time and not on what ever existed.

### MbimProxyMain

`Notified` is what `proxy_n_clients_changed` and `proxy_n_devices_changed` do in a
step that changes the counters.  Where both change, the clients change first
(`untrack_device`, and `device_new_ready` on failure changes clients only).  After
`StopLoop` nothing is dispatched any more.

### MbimForwarding, MbimSubscriptions, MbimProxyTraffic

`MbimProxy` leaves out two things that go on over one device once it is open.

`MbimForwarding` is `process_command`, which forwards what it reads message by
message: the last fragment of a command takes the next transaction id of the
device, an earlier one peeks at it.  A client has written all its commands before
it starts, and `unread` is the first fragment that the proxy has not read, as
what is left in a socket is determined by where the reading stands.
`mbim_device_command` puts a task into the
table for every fragment, each in the place of the last; the timer of a replaced
task stays (`RequestTimedOut`) and releases whichever task has its id by then.  It
clears the `timeout_source` of the task it releases, so if that is another one,
the timer of that one stays as well, with a wait context that was freed
(`freed`); what such a timer reads there is undefined, and in the model it is any
id (`LookedUp`).
The modem collects fragments by id and answers with what it collected, so that a
wrong answer can be told from the right one.

`MbimSubscriptions` works on arrays of entries, as `mbim-proxy-helpers.c` does: `Merge`
looks for a service among the entries that were there before the merge, adds cids one by
one, and takes a list with no cids for all of them; `Cmp` counts and searches.
`clients` is the order in which the lists are merged, that of `priv->clients`: one that
comes is appended (`ClientReplaced`).  A list is sent unless `Cmp` finds it equal to the
stored one (`NotUpdated`).  That is not the same as being another list: one that names a
service twice, with different cids, does not equal itself, so it is sent again at every
request.  `Forwards` is the filter of `client_indication_cb`, which looks at the first
entry of a service only.

`MbimProxyTraffic` composes them: the request for the merged list takes an id
from the counter of the forwarded commands and may come between two fragments
of one, and a device that closes fails the commands and resets the lists.
Taking a list over is immediate, since the modem gets the lists in the order
they are sent.

### MbimStream

A header is one unit and so is a fragment header; payload units are told apart by
message and place, so that what is put together can be compared with what was sent.
`DeviceSend` cuts the message, `sending` holds the writes that are left, and each is a
`DeviceWrite` or the `WriteFails` that ends the message; the other end may read in
between.  A writer cuts at `max_fragment_size`, for `device_send` the constant
MAX_CONTROL_TRANSFER, for a modem what the OPEN told it; a read takes at most
`max_control_transfer`.  On a port the first is at most the second; in a stream they
differ as they like.  A socket may return any part of what is there, a port one message
a read.  After an invalid message the buffer may begin in the middle of a message; what
the code makes of that is arbitrary (`MayBeIncomplete`, `MayBeInvalid` and `MayBeValid`
may hold together).  If it takes such a buffer for a valid message, it processes it like
any other: what the bytes show may be any header that is valid (`MisreadHeaders`), for a
transaction that waits or for none, and may start, extend, complete or fail its
collector (`ProcessMisread`).  `misread` is history: the messages whose transactions got
such bytes.  An invalid message has the length it says: a longer one would swallow what
follows, which nothing in the code can notice.

### MbimLinks

`Transact` makes a netlink transaction and sends the request.  `Fates` is what becomes
of it: it cannot be sent; the kernel refuses it (no permission, an interface that
just went away), an added link as well as a deleted one; or the kernel grants it, if
it can.  The acknowledgement, good or bad, waits in the socket.  A task returned in the
dispatch that made it, or with its cancellable cancelled, goes to `idle`, as in
`MbimTransactions`.  `verdicts`, `listed` and `removed` are history for the
properties.  The kernel always refuses a link on a channel in use; the wdm driver's
channel for session 0 is VLAN 4094.

`transaction_timed_out` declares a second parameter, the table, but is called
as a `GSourceFunc`, with one argument (`mbim-helpers-netlink.c:156`, `:245`).
What it finds there is undefined: `TimedOut` lets it be the table, NULL (the
transaction then stays, without a task), or something the process ends at.

### MbimCli and its services

A callback is a function from the kind of answer (none, an error status, one
that cannot be parsed, a good one) to how the callback ends the operation: it
calls `shutdown` with TRUE or FALSE, twice, never, or sends the request for the
IP configuration after a connection.  Most are `Checked`; the others are the
interesting ones, and they follow the source branch by branch.  What they print
is left out.  A branch of a run function is its callback and how it may end
before it sends anything (an argument that cannot be read).

`MbimCli` is `mbimcli.c` around them; the library calls are answered by an
arbitrary result, and a call whose cancellable was cancelled fails even when
its answer has come.  `session` follows the modem's session so that
`SessionAsAsked` can compare it with `--no-close`.

### MbimCliArguments

An argument is a sequence of pairs or fields; a value is one of six that the
readers tell apart.  Keys that only one option has are in the handler of that
option; a later value replaces an earlier one, except for `link-add`.  Lists of
packet filters and terminal capabilities collect parts until a key comes again
(`HandlePart`) and add the last item at the end (`FinishItems`); a packet filter's
session id may come anywhere between the parts (`HandleSession`).  Every option
that takes key-value pairs is there.

## What the runs check

| Run | Bounds | Shows |
|---|---|---|
| `transactions` | 2 tasks, 2 ids, 2 fragments | `ExactlyOnce`, `StoredHasTimer`, `WholeMessage`, `ErrorNeedsChannel`; the table implements `RequestReply`, with its liveness (`RequestsAnswered`) |
| `device` | 2 operations, 3 requests, patient | `OperationAdvances`, `OutcomesAreTrue`, `CloseBeforeReopen` |
| `device_overlapping` | 2 operations, 1 command, 2 requests, impatient, proxy | `OperationAdvances`; every step is a step of `MbimTransactions` (`UsesTransactions`) |
| `device_live` | 2 operations, 2 requests, all flags | `OperationsEnd` |
| `assertion` | 1 operation | what a comment says and the code does not do |
| `proxy` | 2 clients, 2 devices, 2 requests, 1 port, 1 event, 1 version | `OneDevicePerPort`, `OpenedOnce`, `ServedByTracked`, `BusyIsConfiguring`, `SubscribedInModem`, `VersionKnown` |
| `proxy_live` | 2 clients, 1 device, 2 requests, no events | `ConfigEndsOrExits`, `ArmedOnce`, `ExitsWithoutDevices` |
| `traffic` | 2 clients, 4 ids; commands of 1 and 2 fragments, or a command and a list, or 3 lists of 8 | `TrafficTypeOK`, `OwnAnswer`, `MergeIsUnion`, `WantedIsEnabled` |
| `messages` | 2 messages of up to 3 units, maximum transfers of 3 and 4 at either end, 1 invalid message, 1 read error, misread headers with 2 fragments | `StreamTypeOK` (no fragment is larger than the maximum), `NothingLost`, `WholeOrNothing` |
| `links` | 2 calls, 2 prefixes, sessions 0 and 1, any request refused, 1 act of another process on 1 link | `HeldOnce`, `OwnVerdict`, `AllDeleted`, `CallsAnswered` |
| `cli` | every option, 2 signals | `SuccessIsReal`, `FinishedOnce`, `InterruptedFails`, `SessionAsAsked`, `Ends` |
| `arguments` | 3 pairs or fields, 6 parts of items | `UsedAsGiven` (pairs, items and PINs) |

Two tasks are enough for an answer, a timer and a cancellation of one request to
meet another that takes its id (what holds of more is proved); two fragments are
the least with a first and a last; three requests are what the longest recovery
needs (OPEN given up, CLOSE, OPEN).  Ids wrap within these bounds, so the wrap is
reached.

Two clients are the least that share a device, race to create it, wait in one
queue, and hear of each other's version; two device slots let a new device be
made for a port while a request still holds the one that was dropped; two
requests let a configuration meet another, or a command that finds the device
closed.  One port is enough for these, since nothing of the proxy relates two
ports but the list of devices.  The slots are interchangeable, and `proxy` has
invariants only, so symmetry is sound there; `proxy_live` does without.

In `traffic` every first id is tried, so that the ids wrap between two fragments
and after a command; the workloads are separate because each of them alone
fills the model: a command in fragments against one in one piece, a list set
between two fragments, and three changes of lists that are empty, repeat a cid
or a service, differ in order, take all cids or name a standard service.  In
`messages` a fragment holds one or two units of payload, so payloads of one to
three units are below, at and above a multiple of that, and reach three
fragments; bytes taken for a header show two fragments, of which they may be
the first or the last.  In `links` a second session would only repeat the search for a
free one; deleting all links meets two links that were left over, either of
which the kernel may refuse to delete, and another process takes one away, or
adds one, in between.  `device_live` has two attempts after the first connection to
the proxy failed, the other runs one.  In `cli` the options are run one at a
time, as the tool demands, and the pairs it must refuse are tried.  In
`arguments` three pairs are the least with a key before and after a repeated
one, and six parts make two complete packet filters.

The passing runs switch deadlock off because every bounded behaviour ends: the
application stops calling and nothing is left to dispatch, the daemon or the
tool stops, the argument has been read.

### Fairness

`TxnFairness` and `DeviceFairness` ask for weak fairness of what the main loop
dispatches by itself: timers, idle sources, the return of a callback, and the
end of the dispatch.  GLib dispatches every source that stays ready, and a timer
is ready for good once it has expired.  Nothing is asked of the application, of
the modem or of the port.  A fired timer of an OPEN may be followed by another
OPEN, so `OperationsEnd` also rests on the bound on requests, which stands for the
total timeout of the operation (`ContextStep` may take it at any step).

`MainFairness` asks the same for the proxy: the callback of each request and of
each open operation comes, at the latest by its timer (5 seconds for the check of
an open device, 300 for commands; that opens end is `OperationsEnd`), a closed
connection is noticed, and the exit timer fires.  Nothing is asked of clients,
ports or modems.

`LinksFairSpec` asks for the timers of netlink transactions and the idle sources,
not for acknowledgements.  The fairness of `MbimCli` is that some callback comes as
long as one can: every library call it makes ends, by `OperationsEnd`, by the
timeouts given to `mbim_device_command`, and by those of the net port manager.
Nothing is asked of the user, whose signals are not needed to end.

### What the violated property shows

`AssertionHolds`: an OPEN that was cancelled, or could not be written, leaves the
table at once, while `open_transaction_id` is cleared by its callback, which
waits in an idle source.  A `CLOSE_DONE` for nobody, read in between, makes
`finalize_pending_open_request` look for it and fail `g_assert (task)`.

### Seen while modelling

Of these the models follow the code, and no run is about them.

Device.  `device_services_message_ready` and `ms_ext_version_message_ready`
return an error and leave the status OPENING, after which `mbim_device_close` is
refused and nothing is left to cancel (`mbim-device.c:1763`).  An open that times out
returns CLOSED and leaves its channel, and perhaps the modem, open (`:2010`).  A close
that ends late, when the application did not wait for it, closes the session that
was opened since (`:2241`).  In session, a force
close just before `create_iochannel_ready` is not noticed, and the device is open
without a channel (`:2073`).  `consecutive_timeouts` counts indications too,
although it is documented for requests (`:2918`).  A failed open keeps its
channel, and `mbim_device_close` then succeeds without destroying it (`:2275`).
The proxy configuration only fails without an answer, not with an error status
(`:1940`).  A force close while an open operation waits for the proxy does not end
the operation, which opens the device when it finishes (`:2205`).

Proxy.  `internal_device_open_caps_query_ready` takes every error but NOT_OPENED for
success: a query that times out because the device was closed by force tells its client
that the closed device is configured (`mbim-proxy.c:529`).  The merged list is stored
before the modem has it, so after a failed request later clients are told that nothing
needs to be done (`:1449`; `unsure` in `MbimProxy`, `confirmed` in `MbimSubscriptions`).
A device that was dropped and is kept by a request may open its port again beside the
new one (`:529`).  The version stays stored when the modem forgets it (`:1050`).  No
list is merged when a client leaves.  Fragments of two clients that come in turn share
the peeked id: the modem sees a mixture, and `OwnAnswer` excepts this case by `mixed`
(`:1122`).  Of the requests a fragmented command makes, only the last is ever completed;
the others stay with their clients until the device goes.  `client_indication_cb` looks
at the first entry of a service, so of a list that names a service twice the second is
merged but not forwarded; such a merged list does not compare equal to itself and is
sent again at every request (`mbim-proxy.c:1440`).  The services AUTH and DSS count as
standard but are not all in the standard list.

Daemon.  A first client that connects disarms the exit timer; if it leaves before
it ever has a device, no counter that the daemon still looks at changes, and the
daemon stays (`src/mbim-proxy/mbim-proxy.c:161`).

Messages.  `device_send` always cuts at MAX_CONTROL_TRANSFER, 4096, also when the
descriptor or the driver said that the modem takes less (`mbim-device.c:2444`, `:2450`).
A write that fails in the middle leaves the beginning of a message in the channel.  In
`data_available` a read error throws the buffer away, in a stream also the beginning of
a message whose rest then comes; an invalid message does the same
(`mbim-device.c:1164`).  Bytes from the middle of a message that then look like a valid
one are given to the transaction whose id they show: its collector may take them for the
next fragment, or the transaction be completed or failed by them.  So a message may be
declared complete that was never sent; `WholeOrNothing` says when (`misread`).

Timers.  A timer clears the `timeout_source` of the task that it finds under its id
(`mbim-device.c:317`).  Where ids are used again, as for the fragments that the proxy
forwards, that may be another task: its own timer is then not removed when the task
is freed, and later reads a wait context that was freed with it.

Links.  The timer of a netlink transaction (above) most likely ends the process.
`NLMSG_NEXT` is not assigned and `NLMSG_DATA` is taken of the buffer, so only the
first message of a datagram counts (`mbim-helpers-netlink.c:293`, `:309`).  The
error of an acknowledgement is negative where an errno is expected.  A call that
times out or is cancelled leaves the link it added.  An automatic session id is
the first that is free under one prefix, and may be in use under another, where
`mbim-device.h:545` says "first available session id"; the kernel then refuses it.

`mbimcli`.  Some callbacks return without `shutdown`, and the tool then waits for
ever (`MayForget` lists the options: a device-services or version answer that
cannot be parsed, a carrier-lock answer, trace configurations), where
`mbimcli-basic-connect.c:383` has "Cleanup context and finish async operation".
`terminal_capability_parse` and its caller both call it (`FinishesTwice`).
`set_rfim_state_ready` does not look at the status (`IgnoresStatus`).  The request
for the IP configuration after a connection has no cancellable, so the first
signal does nothing to it.  A `filter-id` that nothing follows is dropped
silently (`mbimcli-basic-connect.c:1336`).  The types NEV and ADM count as PUKs in
`set_pin_input_parse`.  The session id 4294967295 is also the sign for "automatic",
so `link-add` takes another one after it.

## What is proved

For every value of the constants.  Each component has one inductive invariant
(two for the operations of the device, and two for the traffic of the proxy); the
safety properties of the component follow from it.

**The transaction table**

* `TypeCorrect`, `ExactlyOnceHolds`, `StoredHasTimerHolds`: from the inductive
  invariant `TxnIInv`.  `ExactlyOnce` is not inductive alone: a task that was not
  created yet must have left no trace (`Uncreated`), or creating it could collide
  with one, and `StoredHasTimer` needs `TableHoldsPending`, because the timer of a
  task goes when its callback returns.
* `WholeMessageHolds`: from `CollectorIInv`, which adds that what a task has
  collected is the beginning of a message (`CollectedInOrder`) and that only
  messages with fragments collect (`OnlyFragmentsCollected`).
* `ErrorNeedsChannelHolds`: the same steps, from the type invariant.
* `ImplementsRequestReply` (`RequestsAnsweredOnce`, the part of `RequestsAnswered`
  without fairness): each step of the table is a step of `RequestReply` or a
  stutter under the mapping `PendingBar`, `ReplyBar`, using `TxnIInv`.

**Open and close**

* `DeviceUsesTransactions`: each step of the device is a step of the table or
  leaves it alone, from the invariant `PipeTypeOK` on what is in the pipe; and
  `DeviceExactlyOnce`, which follows from it and from the theorem on the table.
* `DeviceTypeOKHolds`, `OperationAdvancesHolds`: from `OpsIInv`, which joins the
  invariant of the table with three facts about each operation.  `OneWait` is what
  `OperationAdvances` counts.  It is not inductive alone, because a callback takes
  the operation's step as given: `RequestFits` says that the task it waits for is
  the request of that step, and of its kind.  `SureOrTold` says that an operation
  is only `unsure` inside the dispatch that told it so.
* `CloseBeforeReopenHolds`: from `OpsIInv`.  The callbacks of an open operation all
  come to the context step with a context that `Resumes` describes: an unsure one
  stands at the CLOSE step with `close_before_open` set, and the first step with
  something to do from there on (`StopAtFirst`) is that one.
* `OutcomesAreTrueHolds`: from `OutcomeIInv`, which adds what is known of the modem:
  ids are given in order, so that an answer belongs to the request of its id
  (`OwnIds`); the modem is as the last OPEN or CLOSE left it, if that was answered
  well (`AnswersTrue`); nobody requests another one while an operation waits
  (`NoneSince`); and an open that is past its OPEN has an open modem (`PastOpen`).
  It holds for a `Patient` application and as long as no id was given twice
  (`MaxTasks <= MaxTid`): with overlapping operations one may close what the other
  opened, and after 2^32 requests a late answer may meet another request.

**The proxy and its daemon**

* `ProxyTypeOKHolds`, `OneDevicePerPortHolds`, `OpenedOnceHolds`, `ServedByTrackedHolds`,
  `BusyIsConfiguringHolds`, `SubscribedInModemHolds`, `VersionKnownHolds`: from
  `ProxyIInv`.  It is stated of a `World`, so that it can be carried through the
  functions of the proxy one after the other: between two of them it may fail for
  the devices that the rest of the handler will settle (`WorldInv(S, X)`).  Besides
  the properties it says how requests, clients and devices refer to each other
  (`RequestOK`, `ClientOK`, `OneConfig`), and that a device with an open under way
  has its queue or was dropped (`Settled`).
* `ArmedOnceHolds`, `ExitsWithoutDevicesHolds`: from `MainIInv`, over it.

**Traffic of the proxy**

* `MergeIsUnionHolds`, `WantedIsEnabledHolds`: from `SubscriptionsIInv`, for lists of
  every length, with wildcards, repeated cids and repeated services, and for any
  number of clients in whatever order.  The merge is a fold of a fold of a fold.
  Two lemmas carry an induction over each of them: `FoldExists`, that a fold is
  given by its first value and its steps, and `PrefixInduction`, that a property of
  the first prefix which each step keeps holds of all.  With them the events of
  what is merged are those of its parts (`MergeEntryEvents`, `MergeEvents`,
  `AllMergedEvents`).  `WantedIsEnabled` needs one thing more of the code: when
  `Cmp` finds the new list equal to the stored one, which it may without their
  being the same list, every event of the new one is in the stored one
  (`CmpEvents`).
* `TrafficTypeOKHolds`: from `TypesInv` and `TableInv`: a task in the table has a timer
  and is stored under its own id.
* `OwnAnswerHolds`: from `ForwardingIInv`.  `ReadInv`: the fragments of a client are
  forwarded in order, each once.  `IdsInv`: an id stays the current one until a
  message ends.  `UnmixedInv`: until messages mix, a message has one id and nothing
  comes between its fragments.  On these rest `CollectingInv`, that what the modem
  has collected is the beginning of a message; `AnswersInv`, that an answer belongs
  to the request that ended its message, and that this one alone is found under
  its id; and `DeliveredInv`, that a command that was answered is read to its end
  and gone from the table, so that it is not answered again.
* The hypothesis of `OwnAnswerHolds`, `IdGivenOnce`, is that the counter did not come
  round: no id was given again after the message that took it.  The code has
  nothing else to tell a late answer from that of a later command, so without it
  the theorem is false of the code, after 2^32 messages to one device.
  `OwnAnswerBeforeWrap` replaces it by a count: every state in which the
  proxy has sent the device at most as many messages as there are ids satisfies
  it (`CountGivesOnce`).

**Links**

* `HeldOnceHolds`, `OwnVerdictHolds`, `AllDeletedHolds`: from `LinksIInv`: sequence ids
  are given in order, so that a late acknowledgement finds its own transaction or
  none (`Numbered`); the tasks in the table and in idle sources are different and
  are those of the calls that have not returned (`Apart`, `Waiting`); an
  acknowledgement under way is due to the call that it will find (`AcksDue`); and
  what a call that deletes all links has listed is what it removed and what it
  still has to (`Kept`).
* `LinksRefineCalls`: the links implement `RequestReply`, without its fairness.

**Messages and fragments**

* `StreamTypeOKHolds`, `WholeOrNothingHolds`, `NothingLostHolds`: from `StreamIInv`, on
  the buffer and the channel taken together (`Buffered`), so that a read changes
  nothing.  `FramingInv`: it is a run of messages, each as long as its header says, with
  its part of the payload and the next header behind it.  `CollectorInv`: a collector
  holds the first fragments of its message and no others, unless misread bytes were
  taken for a message of its transaction, which `WholeOrNothing` needs; and bytes are
  misread only in a stream, after a fault.  `OrderInv`: of each message the fragments
  written and not collected are in the buffer, once each and in order (`InOrder`), which
  `NothingLost` needs; it holds as long as nothing went wrong, and on a port always.
  `SendingInv` says that the writes left are the last fragments of one message,
  `PortInv` that a port is at the beginning of a message.  That the cutting fits the
  putting together is arithmetic (`TotalFacts`, `StartFacts`) and `WritesFramed`.

**mbimcli**

* `SuccessIsRealHolds`, `FinishedOnceHolds`, `InterruptedFailsHolds`,
  `SessionAsAskedHolds`: from `CliIInv`, for every set of options and flags and any
  number of signals.  They rest on what the branches of all services have in
  common (`Ordinary`, `Trusting`, `Repeating`), proved service by service.
* `UsedAsGivenHolds`: from `ArgumentsIInv`, for arguments of every length.  It says
  of the part that was read what `UsedAsGiven` says of an accepted argument.
  `PairsInv` names the last place of a key (`Last`) where the property chooses it: a
  pair that is read takes that place from an earlier one.  `ItemsInv` adds the parts
  that wait for the rest of their item to those of the items (`Gathered`), without
  which nothing is known of the item that the next key completes.  Parts are counted
  without the session ids between them (`Rank`), so a session id moves none of them.  `PinsInv` says
  that nothing was read before the fields of a PIN, which are read in one step.

Assumptions: `BoundsAssumption`, `DeviceAssumption`, `ProxyAssumption` and
`MaxPairsAssumption`, `MaxPartsAssumption` only give the constants their types;
`ForwardingAssumption`, `SubscriptionsAssumption` and `TrafficAssumption` do too, and say
that there are finitely many clients, that a service is standard or not, and that
the standard list has standard services only;
`ArgSetsAssumption` adds that a command line has finitely many options,
`LeftoversAssumption` that finitely many links are left over from before
(`ForeignAssumption` only that what other processes touch are links), and
`StreamAssumption` that a transfer holds more than the two headers, which
`read_max_control_transfer` takes for granted.

Only model-checked is liveness, which is out of the prover's reach:
`RequestsAnswered` and `CallsAnswered` as far as their fairness goes,
`OperationsEnd`, `ConfigEndsOrExits` and `Ends`.

## Plan

Built so far: the transaction table, open and close, framing and fragments, links,
the proxy with its traffic, the daemon, and `mbimcli`.

1. The bounds checks of the information-buffer readers, as operators over lengths
   and offsets.
2. The `mbim-network` script with its state file over `MbimCli`.

## Not modelled

Information-buffer readers and builders, TLVs, UUID and CID tables: pure functions of
bytes whose inputs are byte strings; the code generator and what it generates; sysfs and
passwd lookups; listing links and reading properties, which change nothing; what
`mbimcli` prints, arguments of a single value, the SAR configuration array, lists of
plain fields but for four, and the further groups of an LTE attach configuration, each
of which is read like the first; the forwarding of error indications to all clients of
the proxy, and the user id of a connection.
