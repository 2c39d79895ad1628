# Formal models of s2putty

s2putty is PuTTY for Symbian OS: an SSH, Telnet and raw TCP client made of the
PuTTY 0.6x core (`src/engine/putty`), a Symbian network and platform layer
(`src/engine/puttysymbian`), an engine class that wraps both
(`src/engine/puttyengineimp.cpp`) and several user interfaces (`src/ui`).

This directory holds TLA+ specifications of the parts of that program whose
difficulty is in the order of events, the TLC configurations that model-check
them on small instances, and proofs for TLAPS. `PROJECT.json` maps every
definition to the source lines it models, lists the runs, and names for every
property a mistake ("mutant") that the run detects.

## 1. Inventory

### The system

One process, one thread, one Symbian active scheduler. Nothing is preempted;
what makes the program hard is that *handlers call each other*: an event of a
socket calls the socket's *plug*, the plug calls the backend, the backend calls
other sockets, and unfreezing a socket runs its receive handler at once, inside
the call. The other difficulties are the usual ones of a network program: peers
that stop reading, connections that end at any moment, timers on objects that
are gone, counters that decide when something is over.

| component | source | state | operations | hard behaviour | what makes it correct |
|---|---|---|---|---|---|
| Symbian socket layer | `epocnet.cpp` | per socket: `output_data`, `writable`, `sending_oob`, `frozen`, `frozen_readable`, `killing`; active objects `CRecver`, `CSender` | write, urgent write, close, (un)freeze; completion of `Recv`, `Send` | re-entrancy, writes during a `Send`, close with data outstanding | streams are delivered intact, no socket goes deaf, a closed socket drains |
| Engine and socket registry | `puttyengineimp.cpp`, `epocnet.cpp` | `iState`, `iNumSockets`, the engine's own request, socket tree, ids | `Connect`, `Disconnect`, destructor, `RunL`, `sk_init`, `sk_cleanup`, accept | the end of a connection is deduced from a counter; closing happens inside teardown | the end is reported once and not too early; nothing outlives the network |
| Timers | `timing.c`, `puttyengineimp.cpp`, `oneshottimer.cpp` | `timers`, `timer_contexts`, `now`, one-shot timer | schedule, expire, run | tick counts wrap, callbacks schedule and expire, contexts are addresses | timers run in order, none is lost, none runs for a dead context |
| SSH-2 channels | `ssh.c`, `portfwd.c` | per channel: type, `closes`, `outbuffer`, two windows; per plug: `ready`, `throttled`, `throttle_override`, `buffer` | open, confirm, refuse, data, window adjust, EOF, close; throttle all | flow control from four sides, close racing with confirm, thawing inside a handler | windows agree, streams intact, CLOSE once and last, nothing stays frozen |
| SSH transport | `ssh.c` | packet coroutine, `queue`, `deferred`, key exchange state, rekey timer and volume | send, defer, queue, kex | packets of other layers during a key exchange, rekey by timer, volume and peer | order of packets, one key exchange at a time |
| SSH authentication | `ssh.c` | coroutine state of `do_ssh2_authconn`, `do_ssh1_login` | try methods in turn | dialogues that suspend the coroutine | no method tried after it is refused for good |
| SSH-1 channels | `ssh.c` | `v1_throttle_count`, channels with two-phase close | as SSH-2 | one counter for many reasons to throttle | counter is the number of reasons |
| Requests | `ssh.c` | list of queued handlers | queue, dispatch, free | replies carry no id | replies go to the request they answer |
| Incoming data | `ssh.c` | `frozen`, `queued_incoming_data` | `ssh_gotdata`, `ssh_set_frozen` | data arriving while frozen | order kept, nothing lost |
| Port forwarding | `portfwd.c`, `ssh.c` | forwardings with their status, remote requests, listeners, SOCKS automaton | accept, SOCKS 4/4A/5, set-up and reconfiguration | forwardings with a port or a destination in common, requests refused or unanswered when the next set-up comes | what is forwarded is what is configured, here and at the server |
| X11 and agent forwarding | `x11fwd.c`, `ssh.c` | authorisation automaton | init, send, close | as port forwarding | as port forwarding |
| Line discipline | `ldisc.c` | edit buffer, quoting | send | local editing | edited line is what is sent |
| Telnet, raw, rlogin | `telnet.c`, `raw.c`, `rlogin.c` | option states | receive, special | negotiation loops | negotiation ends, both ends agree |
| Proxy | `proxy.c` | pending operations | as a socket | operations before the proxy is ready | replayed in order |
| Pinger | `pinger.c` | `next`, `pending` | schedule, ping | one timer that schedules itself | pings go on |
| Logging | `logging.c` | file state, queue | log, open, answer | data while a question is open | nothing lost, in order |
| Data structures | `tree234.c`, `misc.c` (bufchain) | tree, chain | add, delete, find, index | balance | equals a sorted sequence |
| SFTP, SCP | `sftp.c`, `psftp.c`, `pscp.c` | pipelined requests | transfer | out-of-order replies, short reads | file intact |
| Terminal | `terminal.c` | two screens and the scrollback, cursors, margins and modes for each, the view | characters and control sequences, resize, reset, look back | sequences of legal controls, switching, resizing and resetting in any order | every row asked for exists, a resize keeps text, the two screens are apart |
| Bidi, fonts, settings, dialogues, crypto, zlib, key tools, other platforms, user interfaces, documentation | see `PROJECT.json` | | | sequential data processing | not modelled |

### How they interact

    user interface --Connect/Disconnect/delete--> engine --init/free--> backend (ssh.c)
         ^                                          ^  |                   |   ^
         +----------- ConnectionClosed() -----------+  | timers            |   | plug_receive,
                                                       v                   v   | plug_sent, plug_closing
                     SocketOpened/SocketClosed <--- socket layer <--- sk_write, sk_close, sk_set_frozen
                                                       ^                   |
                              local applications ------+--- portfwd.c <----+ sshfwd_*, pfd_*

The hazards of the code, each at its line and with the properties that watch
it, are in `PROJECT.json`.

## 2. Plan

Order of work; each step adds a module, its runs and, where TLAPS reaches, proofs.

1. `EpocNet`, implementing the abstract `ByteStream` - done, with proofs.
2. `PuttyEngine`: life cycle, registry of sockets, end of connection - done, with proofs.
3. `Timing` - done, with proofs. Then `Pinger` as a client of it.
4. `Ssh2Channels`: windows, throttling, opening and closing - done, with proofs.
   To state: an abstract channel (two byte streams and two ends) that it implements.
5. `Ssh2Transport`: packet queue and deferral, key exchange, rekeying by timer and volume,
   implementing the abstract `PacketTransport` - done, with proofs.
6. `Ssh1Channels`: the throttle count, freezing, the queue of incoming data and the close
   handshake of SSH-1 - done, with proofs.
7. `PortForwards`: set-up and reconfiguration of forwardings, and the queue of handlers that
   gives replies to requests - done, with proofs.
8. `Terminal`: screens, scrollback, cursors and margins - done, with proofs.
9. Beyond that: `pfd_receive()`'s SOCKS parser against a parser of whole requests, Telnet's
   option negotiation, the main session's channel, and `EpocNet` below `Ssh2Channels` in place of
   the latter's own sketch of sockets.

## 3. Modules

### EpocNet, ByteStream (`epocnet.cpp`)

One record `sk[s]` per `Socket_tag`; `writebuf` and `recver` are the active
objects. `stack` holds the plug callbacks in progress: an event (`RecvData`,
`RecvEnd`, `SendDone`, `SendFail`) happens only when it is empty, calls of plugs
(`Write`, `WriteOob`, `Close`, `Freeze`, `Unfreeze`, `Open`) at any time, and the
code *after* a callback is the action that pops its frame (`ReturnReceive`,
`ReturnSent`, `ReturnClosing`). So every interleaving of re-entrant calls, for
all sockets, is explored. Bytes are numbered in the order of writing, which makes
loss, repetition and reordering visible.

`ByteStream` is what a socket promises: numbered bytes that arrive in order, and a
close that completes only after the last one. `EpocNet` implements it under a
refinement mapping (`ImplementsByteStream`).

Abstractions: `bufchain_prefix()` yields any non-empty prefix of at most one
granule; other errors of `Send()` than the three named end the program
(`fatalbox`) and are left out; no plug closes its socket from its own `sent()`
with nothing queued (see the comment on `Close`). `fault` records what the code
must not do - touching a socket that has been freed, calling a plug that is gone -
and after it nothing more happens; the properties are about what comes before.

### PuttyEngine (`puttyengineimp.cpp`, registry of `epocnet.cpp`)

The engine's state, its count of sockets, its own request (`pending`), and the
tree of sockets. A socket is `open`, `killing` (closed, with data to send),
`stuck` (killing, its `Send` failed), `failed` or `closed`. `owned` says whether
the backend would close it when freed: the main socket, listeners and confirmed
connections, not the connection a listener has accepted and whose channel is
still `CHAN_SOCKDATA_DORMANT`. `Swept` is the loop of `sk_cleanup()`, position by
position; `Added`/`Removed` compare ids as `cmpfortree()` does; `Accept` gives the
id that was next when the acceptor was started. `Teardown` is `Disconnect()` (the
C++ method), which `Disconnect`, `Delete` and `RunL` share. `cut` remembers that the
client has called `Disconnect()` on the engine there is.

### Timing (`timing.c` and the engine's half)

`Half` is half of the range of a tick count, and all comparisons are of wrapped
differences, as in `compare_timers()`. `run_timers()` is the loop `DropFirst`,
`RunFirst`, `Return`, `Finish`; between `RunFirst` and `Return` the client may
schedule and expire, as from the active scheduler. Ties between timers are broken
by addresses in the code and arbitrarily here. `owed` is the history the
properties need: timers scheduled and neither run nor expired since.

### Ssh2Channels (`ssh.c`, `portfwd.c`)

Everything the program keeps of a channel is one record - `struct ssh_channel`,
its `PFwdPrivate`, and the part of its socket that decides when the plug is
called - and each C function is an operator on a pair of that record and the
messages on their way to the server, composed as the functions call each other.
Actions are the entry points: what the application does (`AppWrites`, `AppEnds`,
`AppTakes`), what the server's messages cause (`Confirmation`, `Failure`, `Data`,
`WindowAdjust`, `Eof`, `Close`, `OpenRequest`), the backlog of the SSH connection
(`BacklogGrows`, `BacklogShrinks`), and the server.

Abstractions: the packets one `ssh2_try_send()` cuts its data into are one
message; messages of different channels are not ordered with each other; a backlog
arises at the end of a handler or from inside the loop of `ssh_throttle_all()`;
requests to open a channel that fail keep no state and are left out; an id is used
again only when nothing of its last use is on its way (`IdIsFree` is what allows
that); the server keeps to the protocol. The main session's, X11 and agent
channels are not modelled.

### Ssh2Transport, PacketTransport (`ssh.c`)

`ssh` holds the fields of `struct ssh_tag` that take part, with the place where the
coroutine `do_ssh2_transport()` waits (`cr`: the packet or the dialogue it waits for)
and what it keeps in its own state (`kexcfg`, the preferences its KEXINIT was made of;
`offer`, what the negotiation came to). As in Ssh2Channels each function is an operator
on a state, here of `ssh`, the packets written and the number of packets the layers
above have sent; `Then` composes them. The mutual recursion of the code (sending
asks for an exchange, which sends) is one level deep, since nothing is asked for while
`kex_in_progress` is set: `BeginKeyExchange` writes, `SendNoqueue` writes and checks.
Actions: `Receive` (`ssh2_rdpkt`, `ssh2_protocol` and the handler), `Accept` and `Refuse`
(the front end's dialogues return), `AppSends`, `Ping`, `Timer`, `UserRekeys`,
`Reconfig`, and the server's `SrvReceive`, `SrvSends`, `SrvRekeys`. Which keys a packet
was made with, and its sequence number, travel with it, and its reader compares them
with its own: that is what decryption and the MAC amount to.

`PacketTransport` is what the layers above may rely on: numbered packets that arrive in order and
without gaps, of which giving up the connection loses only an end, and the keys of the two ends,
which go from one exchange to the next in the only order in which each can read the other (the
server sends with new ones, the client does, the client reads with them, the server does).
`Ssh2Transport` implements it under a refinement mapping (`Promised`, `ImplementsPacketTransport`):
all the packets of an exchange, the dialogues, the queue and the deferred block are not seen there.

Abstractions: sizes are in packets, and counted up to `SizeCap`, above every limit there
is; the algorithms are reduced to whether they are
agreed, whether the method asks for a group, whether the server's guess is to be
skipped, and how many of them are below the warning threshold; only the
client-to-server cipher is kept, since CBC changes what is sent. The time until the
timer is any. `askalg()` and `verify_ssh_host_key()` never return -1 in this program
(`puttyengineimp.cpp`), so the coroutine does not wait for `ssh_dialog_callback()`;
their dialogues are modelled as states in which nothing is received and everything
else goes on. Backlogs are in Ssh2Channels. The server answers as the protocol
asks, may refuse to agree, may fail to prove its key, and may disconnect. A
reconfiguration comes after the version exchange (no front end here makes one at all,
and `ssh_reconfig()` would start the coroutine before it).

### Ssh1Channels (`ssh.c`, `portfwd.c`, the freezing of `epocnet.cpp`)

SSH-1 has no windows: an application that does not take its data freezes the whole
connection. `ssh_gotdata()` is a loop; `busy` says that it is running on the segment
`data`, and each packet it takes (`Gets`) is a step with its handler: `OpenConfirmation`,
`OpenFailure`, `ChannelClose` for both messages, `ChannelData`, `PortOpen`. The loop ends in
`OutOfData`, or, when a packet has frozen the connection, in `QueueIncomingData`. `Receive` is
`CRecver::DoRunL()` of the connection's socket. `Throttle` and `Unthrottle` are
`ssh1_throttle()` with the order `ssh_set_frozen()` has: thawing the socket re-enters
`ssh_gotdata()` while `ssh->frozen` is still set, which is why what the socket held goes into the
queue (`Thaw`). A packet for a channel carries its number, so that `DataInOrder` is a statement
about all the places data can be in.

Abstractions: one unit of data per packet; `SSH1_BUFFER_LIMIT` counts units; the backlog of
the local stream is what its socket has not sent; the main session's data is not modelled, and does
not throttle: `term_data()` returns 0 (`terminal.c:6366`). What a closed channel's socket still
writes it writes without its plug (that is EpocNet's subject). An id is used again when nothing on
its way refers to it, which `CloseHandshake` is about.

### PortForwards (`ssh.c`)

`pf` holds the configuration, a record for each forwarding (`fwds`), the requests there have been
(`rpfs`, of which `tree` are in `ssh->rportfwds` and `freed` have been freed), and the queue of
handlers. `Tagged`, `Destroy`, `Create` and what they call are the loops of
`ssh_setup_portfwd()` as operators on that state, the packets sent and a fault.
`do_ssh1_connection()` waits in `cr` for the terminal and compression, whose replies are the same
packets. A reply carries in `to` whose it is, for the properties only: the code decides by the
queue.

`Reconfig` is `ssh_reconfig()` at any moment of an open connection, also while a reply is owed to
`do_ssh1_connection()`; `early` remembers that it has sent requests then, and is what
`RepliesMatch` excepts. A configuration may name a forwarding of `Repeatable` twice (two entries that
`ssh_portcmp()` takes for the same, such as a port by its number and by its service's name): the second
entry finds the record of the first and makes its CREATE a KEEP (`ssh.c:4221`).

Abstractions: a forwarding is its type, a port on the listening side and a destination; the
server listens once per port, or refuses. The `fault`s
are where the code reads what has been freed or takes another's reply (see below), and nothing
happens after them.

### Terminal (`terminal.c`)

`term` is the `Terminal` with what decides where rows and cursors are: both screens, the
scrollback, cursor, saved cursor, margins and modes, and their `alt_` twins, `tempsblines`,
`alt_sblines`, `disptop`. The functions `scroll`, `move`, `save_cursor`, `erase_lots`,
`swap_screen`, `power_on`, `term_size`, `toggle_mode` are operators on it, and each kind of control
that `term_out()` reads is an action made of them. `term_size()` is in its four parts: to the main
screen, `Shrunk`, `Grown`, `Fitted`, and back.

Margins and cursors are what the code assigns, also above the screen (`SetMargins`). Where the code
then asks for a row that is not there, `found` becomes FALSE and nothing happens any more: that is
`lineptr()`'s assertion (`terminal.c:1016`), `clear_cc()`'s (`terminal.c:257`), or `scroll()` taking
row -1 of a tree.

Abstractions: a row is a token, what is written on it as a whole; an erase of part of a row may
leave something of it or not; a tab stop may be anywhere. Of colours only one thing is kept: a row that
was erased in another colour than now is not blank to `find_last_nonempty_line()`; `tinted` is the
number of rows up to which that is so, and `Recolour` sets it to anything. Other attributes,
character sets, double-width rows, VT52 mode, selection and drawing are left out. The engine calls `term_init()`,
`term_size()` (with more than one row and column, which it asserts, and always the same
`savelines`) and never `term_pwron()` or `term_reconfig()`; `Look` (`term_scroll()`) is kept as a
part of the terminal's interface although no Symbian front end uses it.

## 4. Runs

Every passing run explores its whole state space; `CHECK_DEADLOCK FALSE` is set
where a system that has done all its bounds allow stops. Ssh2Channels never
stops, and deadlock is checked. A connection of Ssh2Transport that has used its
bounds, or is closed, stops; so do the others when their bounds are used.

| run | instance | shows |
|---|---|---|
| `epocnet` | 2 sockets, one with urgent data, 2 bytes out and 1 in for each, granule 2, fair | streams intact and in order, one request at a time, no deaf socket, refinement of `ByteStream`, drains complete |
| `engine` | 4 sockets, 2 connections, failures, listeners, delayed closes, all the client's calls, fair | the tree, the count, `RunL()`, the end is reported |
| `timing` | 2 contexts, 34 ticks, 2 timers at once, fair | timers sorted, known to the front end, none lost, none revived, all run |
| `ssh2_channels` | 1 channel, window 3, server windows 0 and 2, 3 bytes written, backlogs, fair | windows, stream, CLOSE, ids, freezing; thawing, deletion, feeding the server |
| `ssh2_transport` | 2 configurations (no limits; CBC, timer and limit of 2), servers that need every step or agree to nothing, 2 requests for an exchange, 2 packets from above, 1 of the server's, 1 ping, fair | both sides always understand each other, refinement of `PacketTransport` (order, also of what arrives after the connection is given up; keys), the rekey timer; packets held back arrive, a changed cipher comes into use |
| `ssh1` | 2 channels, opened twice, 2 packets of data each, segments of 2, limit 1, fair | nothing lost or overtaken, the count, the close handshake, thawing |
| `portfwd` | 4 forwardings (one local, two with a port in common, two with a destination in common), two of which may be named twice, SSH-1 and SSH-2, 3 configurations | replies, what is forwarded, what the server listens for |
| `terminal` | 2 rows of 3 columns, 3 and 4 rows of 2, 2 configurations, all controls with arguments 0 to 2, 7 modes, 5 operations | rows exist, erased text stays erased, resizing, the alternate screen |

Why the bounds are enough. Sockets interact only through re-entrancy and through
the tree: two give nesting in both directions, three or four give a tree where a
removal moves an entry to a position that has been passed. Two bytes with a
granule of two give a `Send` of both, one of either, and a write during a `Send`.
With three bytes of window an update may be either due or not, and data can be
with the server, in the outbuffer and in the frozen socket at the same time. SSH-2 channels
meet only in the loop of `ssh_throttle_all()`; the run has one channel. The
first key exchange and two more let a request come before, during and after another
side's, and a limit of two packets is reached by the traffic of any run. A tick count of 34 values
wraps within every run, starting from every value, and delays, lateness and idle times are well
below half of it, as they are on a phone (half the range is 24 days).
In SSH-1 a second channel is what makes the count go to 2, and a segment of two packets what leaves
one behind when the first freezes. Forwardings interact only when they have the port or the
destination in common; a third configuration can bring back what the second removed. The terminal's
smallest screen has two rows, which scrolling, margins, and shrinking by a row all change;
from four rows to two a resize may both delete rows and move some to the scrollback; one screen has
the more columns and the other the more rows, so that cursors are clipped both ways. Five operations are enough to
put text into the scrollback, switch or erase, and resize, or to set a region above the screen and
write on it.

The types of the variables are stated in each module (`TypeOK`; for the terminal they are part of
`LinesExist`). Most runs leave them out: they are proved where section 5 says so, and elsewhere they
are implied by nothing being evaluated outside its domain.

### Disagreements between the code and what is said about it

These runs end in a counterexample; `PROJECT.json` quotes the text.

| run | what happens |
|---|---|
| `engine_orphans` | connections accepted and not yet confirmed are closed by nobody when SSH ends, so the end is never reported |
| `timing_reuse` | an address used again as a context revives timers that had been annulled |
| `ssh2_overtakes` | data overtakes what came with the SOCKS request |
| `ssh1_delayed` | packets that came while the SSH-1 connection was frozen stay in the queue after the thaw until the server sends something else |

Others have no run of their own: the models show them, and the properties that the
passing runs check, or their bounds, say exactly where they begin.

- A socket that fails to connect or to listen is counted and never uncounted
  (`epocnet.cpp:660`); `CountIsExplained` and `EndIsReported` except it.
- Accepted sockets get an id that is used again (`epocnet.cpp:1272`), and one of the
  two is not in the tree; `sk_cleanup()` passes over every other socket
  (`epocnet.cpp:160`). Such sockets live on without a network (`Drained` with `netUp`
  false is the fault `"null"`). `NoDanglingEntries` is the half that does hold.
- `Disconnect()` on an open connection leads to a failed assertion in `RunL()`
  (`puttyengineimp.cpp:280`, a FIXME there); `RunLIsExpected` excepts it (`cut`).
- A timer identical to one of an expired context that is used again is lost
  (`timing.c:110`; `CanReuse = TRUE` with `NoTimerIsLost`).
- A wait of more than 35 minutes fails the front end's assertion
  (`puttyengineimp.cpp:889`; `Delays` beyond `MaxAfter` with `FrontEndKnows`).
- With a SOCKS reply queued before a full window, a window of nearly 2^32 is
  presented (`ssh.c:3992`); the runs have `Replies = {0}`, no reply queued.
- An application that writes and closes while its socket is frozen loses the end of
  its data (`epocnet.cpp:1080`); `StreamIntact` is about channels not closed.
- A channel confirmed while all are throttled is not throttled (`ssh.c:2822`).
- A change of the cipher or of compression during an exchange starts another one after
  it, also with a server of which `config.but:2958` says "PuTTY will never initiate a
  repeat key exchange" (`ssh.c:5897`); `CipherIsAsConfigured` is about other servers.
- With a front end that answers later, a warning about an algorithm would be followed
  by the use of a packet that is gone (`ssh.c:5578`); this one answers at once.
- Urgent data written during a `Send()` is taken for sent (`epocnet.cpp:871`), and a
  plug that closes its socket inside `receive()` and returns 1 has a freed socket
  started again (`epocnet.cpp:1122`, fault `"freed"`).
- A channel whose application closes it while it freezes the SSH-1 connection never leaves
  the count (`ssh.c:3914`), and the connection stays frozen: `StuckCount`, which
  `FreezeIsLifted` excepts.
- A remote forwarding that the server refuses is freed with its `ssh_portfwd` still pointing to it
  (`ssh.c:4077`); the next configuration without it frees it again. One that is cancelled before it
  is answered is freed under its handler. `ssh_free()` frees the wrong entries of the list of
  handlers (`ssh.c:8548`). All are PortForwards' fault `"freed"`. A reconfiguration is something no
  Symbian front end does.
- Two remote forwardings with the port (in SSH-1, the destination) in common: the second is not
  requested, and not when the first is removed either; `ServerAgrees` is about the first.
- In SSH-1 an application that connects to a listener before the session is started is given a
  channel of a tree that does not exist yet (`ssh.c:4923`, fault `"channels"`).
- In SSH-1 a reconfiguration that asks for a remote forwarding while a reply is owed to
  `do_ssh1_connection()` (`ssh.c:8628`) has its handler take that reply, for example the one to the request for
  a terminal, and the connection then takes the forwarding's (fault `"reply"`). `RepliesMatch` holds but for
  that, and says so by `early`; with `fault # "reply"` in its place TLC finds it.
- A forwarding that a configuration names twice is never set up: the second entry turns its CREATE
  into KEEP (`ssh.c:4221`). `ForwardsAsConfigured` says what comes of each status.
- DECSTBM with a first argument of 0, `CSI 0;n r`, puts the region on row -1, and in origin mode the
  cursor (`terminal.c:3480-3504`). The next character makes `lineptr()`'s assertion fail, in spite of "We assume that we
  don't screw up and retrieve something out of range" (`terminal.c:1038`). `LinesExist` and
  `ResizeKeepsText` are about everything before (`above`); `ErasedStaysErased` and
  `AlternateLeavesMain` are checked after it as well.
- RIS on the alternate screen takes it for the main one without swapping (`terminal.c:1224`): the
  main text is erased, the alternate's goes to the scrollback.
- Leaving `wrapnext` set: DECSTBM, tabs and mode 1047 move the cursor and keep it, and the next
  character goes to the next row.
- `term_size()` deletes rows below the cursor whether they are blank or not when it makes the screen
  smaller, while `terminal.c:1598` speaks of blank rows; `ResizeKeepsText` is about the text above the
  cursor. What is on the alternate screen is always lost.
- Front ends that change the configuration of a session with `term_reconfig()` while the alternate
  screen is looked back from leave `disptop` too small (`terminal.c:1393`).

### Fairness

Only what the active scheduler or the other side does anyway: callbacks return;
a `Send()` in progress completes or fails; a plug told of the end closes its
socket (each one in the code does); `RunL()` runs once its request has completed;
ticks pass and `run_timers()` and its callbacks finish; messages on their way
arrive and are handled; a local application takes what is written to it; the
backlog of the SSH connection clears; the server presents window when it has none
left and answers a CLOSE; packets arrive, the server answers those of a key exchange,
and the user answers dialogues; in Ssh1Channels, segments are received and their packets processed,
and the server answers a CLOSE with its own and with a confirmation. No fairness is assumed of what the user, an application
or the server may simply not do. It is weak fairness, except for the completions of
`Send()` in `EpocNet`, which the callbacks of other sockets disable for a moment: a
scheduler whose handlers are short gets round to each. Where a failed `Send()` is
the end of all progress, the property says so.

## 5. Proofs

Proved by TLAPS for all values of the constants that the modules' assumptions
allow: any sockets, channels, timers' contexts, screens and bounds, sets finite only where they
are counted. Each theorem states the property that a run checks, where there is one. What is
assumed beyond that is in the last column.

| theorem | statement | hypothesis |
|---|---|---|
| `EpocNetProofs!TypeCorrect` | `Spec => []TypeOK` |  |
| `EpocNetProofs!StreamCorrect` | `Spec => [](StreamIntact /\ SendIsPrefix)` |  |
| `EpocNetProofs!CloseCorrect` | `Spec => []ClosedIsDrained` |  |
| `EpocNetProofs!PanicCorrect` | `Spec => []NoPanic` |  |
| `EpocNetProofs!FreezingCorrect` | `Spec => []FreezingLosesNothing` |  |
| `EpocNetProofs!OrderCorrect` | `Spec => []PeerInOrder` |  |
| `EpocNetProofs!RefinementCorrect` | `Spec => ImplementsByteStream` |  |
| `PuttyEngineProofs!EngineTypeCorrect` | `Spec => []TypeOK` |  |
| `PuttyEngineProofs!TreeCorrect` | `Spec => [](NoDanglingEntries /\ TreeIsOrdered)` |  |
| `PuttyEngineProofs!RunLCorrect` | `Spec => []RunLIsExpected` |  |
| `PuttyEngineProofs!CountCorrect` | `Spec => []CountIsExplained` |  |
| `TimingProofs!TimingTypeCorrect` | `Spec => []TypeOK` |  |
| `TimingProofs!NoTimerIsLostCorrect` | `Spec => []NoTimerIsLost` | `~CanReuse` |
| `TimingProofs!AnnulledCorrect` | `Spec => []AnnulledNeverRuns` | `~CanReuse` |
| `TimingProofs!TimersAheadCorrect` | `Spec => []TimersAreAhead` | `RoomEnough` |
| `TimingProofs!FrontEndCorrect` | `Spec => []FrontEndKnows` | `RoomEnough` |
| `Ssh2ChannelsProofs!TypeCorrect` | `Spec => []TypeOK` |  |
| `Ssh2ChannelsProofs!FrozenCorrect` | `Spec => []FrozenForAReason` |  |
| `Ssh2ChannelsProofs!LastCorrect` | `Spec => []CloseIsLast` |  |
| `Ssh2ChannelsProofs!IdCorrect` | `Spec => []IdIsFree` |  |
| `Ssh2ChannelsProofs!WindowsCorrect` | `Spec => []WindowsAgree` | `Replies \subseteq {0}` |
| `Ssh2ChannelsProofs!StreamCorrect` | `Spec => []StreamIntact` | `Leftovers \subseteq {0}` |
| `Ssh1ChannelsProofs!Ssh1TypeCorrect` | `Spec => []TypeOK` |  |
| `Ssh1ChannelsProofs!CountCorrect` | `Spec => []CountIsReasons` |  |
| `Ssh1ChannelsProofs!DataCorrect` | `Spec => []DataInOrder` |  |
| `Ssh1ChannelsProofs!CloseCorrect` | `Spec => []CloseHandshake` |  |
| `PortForwardsProofs!PortForwardsTypeCorrect` | `Spec => []TypeOK` |  |
| `PortForwardsProofs!RepliesCorrect` | `Spec => []RepliesMatch` | the exception `early` is in the property |
| `PortForwardsProofs!ForwardsCorrect` | `Spec => []ForwardsAsConfigured` |  |
| `PortForwardsProofs!ServerCorrect` | `Spec => []ServerAgrees` |  |
| `Ssh2TransportProofs!Ssh2TransportTypeCorrect` | `Spec => []TypeOK` |  |
| `Ssh2TransportProofs!PeersCorrect` | `Spec => []PeersUnderstandEachOther` |  |
| `Ssh2TransportProofs!AppOrderCorrect` | `Spec => []AppInOrder` |  |
| `Ssh2TransportProofs!RekeyTimerCorrect` | `Spec => []RekeyTimerIsSet` |  |
| `Ssh2TransportProofs!TransportRefines` | `Spec => ImplementsPacketTransport` |  |
| `Ssh2TransportProofs!KeysCorrect` | `Spec => [](Promised!TypeOK /\ Promised!KeysInStep)` |  |
| `TerminalProofs!LinesExistCorrect` | `Spec => []LinesExist` | the exception `above` is in the property |
| `TerminalProofs!ErasedCorrect` | `Spec => [](above \/ ErasedStaysErased)` | no DECSTBM above the screen before |
| `TerminalProofs!AlternateCorrect` | `Spec /\ []~above => AlternateLeavesMain` | no DECSTBM above the screen |
| `TerminalProofs!ResizeCorrect` | `Spec => ResizeKeepsText` | the exception `above` is in the property |

What the hypotheses mean. `~CanReuse`: no address of a context that has been expired is used again;
the run `timing_reuse` shows what happens otherwise. `RoomEnough`: delays are shorter than the
longest wait of `COneShotTimer`, and half the range of the tick count has room for all that can be
late at once. With a tick count whose half is 24 days the second is no restriction; the first
excludes delays of more than 35 minutes, such as the default rekey time of an hour, for which the
code does fail (see above). The run `timing` sits exactly on the bound (`17 <= 17`). `Replies \subseteq {0}`: no
SOCKS reply is queued before the channel opens (`ssh.c:3992` underflows otherwise). `Leftovers
\subseteq {0}`: no data comes in the same segment as a SOCKS request (`ssh2_overtakes`).

The argument for the streams: what the peer has, followed by `output_data`, is all
that was written (`StreamIntact`). A completed `Send` moves `writebuf` from the
latter to the former, so one needs to know that `writebuf` *is* a prefix of
`output_data` - and stays one while writes append to it. Hence the inductive
invariant is the conjunction of `StreamIntact` and `SendIsPrefix` with the shape of
requests on sockets without urgent data. `ClosedIsDrained` then adds that a socket
is freed only with an empty `output_data`. The lemmas about sequences
(concatenation, splitting at a length) are stated once in `EpocNetProofs`.

The argument for the tree: deletion is by id, so an entry survives the deletion of
another only if ids differ; `TreeIsOrdered` therefore has to be carried along with
`NoDanglingEntries`. The two, with types, are inductive; `Teardown` empties the
tree whatever `Swept` is, which is why no reasoning about the loop is needed.

The argument for `RunL()`: until the client disconnects, `pending <=> iState =
"disconnected"` is preserved because `Countdown` sets both, `RunL` and `Delete` clear
both, and closing sockets in any other state changes neither. It needs no counting:
only that the request is completed in `EStateConnected`, where it cannot be pending.
What has to be added is that a deleted engine has no request (`RunLInv`): a request
left by a disconnected engine would otherwise meet its successor.

The argument for the throttle count: a step that processes a packet does so because the connection
is not frozen, so that the count is 0 and no channel throttles; deleting or confirming a channel,
which clears its record, therefore drops no reason. A packet of data adds its channel to the empty
set, taking data removes a channel that is in it. What has to be added is that a deleted channel does
not throttle (`DeletedAreQuiet`), since its record is used for the next one. Types and the count are
inductive only together: that the count stays a natural number is because a channel that throttles
is one of those counted.

The arguments added to those.

*Callbacks of sockets* (`PanicCorrect`, `FreezingCorrect`). `CallbacksOK` says what the frames on the
stack, the fields of a socket and its active objects know of each other: at most one frame other
than a thaw, and it is the outermost; a socket inside of `DoRunL()` is not receiving; a
`CSender` with nothing in it is one that is writable or in `sent()`, and so on. Freezing then
loses nothing because what the plug has got, followed by the buffer kept for a frozen socket, is
everything that has arrived (`ReceivedOK`), whatever the plug calls in between.

*Urgent data* (`OrderCorrect`). With it `output_data` may be cut and `writebuf` need not be a prefix
of it; what remains true is that bytes are in ascending order within each of the two and after all
that the peer has (`OrderOf`).

*The refinement* (`RefinementCorrect`). `Write` maps to ByteStream's `Write`, the plug's `Close` to its
`Close`, `SendDone` to its `Carry` and the freeing of a drained socket to its end; every other
action leaves written, delivered, closing and gone as they are (`Unseen`). The step of `SendDone`
needs `StreamInv`: what is carried is what had been written.

*The count of sockets* (`CountCorrect`). The count and the set `Counted` move together, one lemma for
each way they do; before the first connection both are empty.

*Timers.* `NoTimerIsLost` is bookkeeping on contexts: the timers owed are those in the tree whose context is
alive. `TimersAreAhead` and `FrontEndKnows` need a measure: with `k` timers in the tree that are not after a
timer `u`, `u` can be late by at most one turn of the one-shot timer for each delay still to come
(`Left`). `WhileIdle` and `WhileRunning` bound in this way how far behind the clock each timer, `now`
and the one-shot timer may be, in each phase of `run_timers()`; with `RoomEnough` no sum of these
bounds reaches half the range, so that wrapped differences are compared as numbers are.

*SSH-2 channels.* A channel, what is on its way in each direction and the server's end of it are
in one of eight phases (`Idle`, `Asked`, `Declined`, `Accepted`, `Joined`, `HalfClosed`, `Forgotten`,
`Deleted`), which is where `CloseIsLast` and `IdIsFree` come from. The functions that only send, keep
or freeze data satisfy `Moves`, in which the window and what has been sent keep their sum.
`WindowsAgree` is `Fits` and `Room`: sums over the queues, for which `Sums` and its lemmas take the
place of induction. `StreamIntact` is `Whole`. The two hypotheses stand inside the invariant, so
that all the other theorems do not depend on them.

*SSH-1 channels.* The four places in which what comes for a channel can wait - the queue, the
segment that is being processed, what the frozen socket holds, the network - are one line (`Line`),
of which freezing and thawing only move the borders. Seven phases (`Asked`, `Declined`, `Accepted`,
`Offered`, `Joined`, `Orphaned`, `Gone`) relate a channel, that line, what is on its way to the
server and the server's end. In `Joined`, `Closing` says what both ends know of each other's
CLOSE and CLOSE_CONFIRMATION. TLC has checked this invariant (`HInv`) on the run's instance before it
was proved.

*SSH-2 transport.* Of each stream of packets: every packet was made with the keys, and stands at the
sequence number, that its reader will have come to when it gets there (`Keyed`, `Placed`), the packets
of an exchange follow one another in the order of the protocol (`Ranked`), and those of the layers
above are not in the middle of one (`Apart`). That the client's next packet continues this is `AtEnd`;
that the server's does is `Answers`. What makes it inductive is `Phase`: for each place where the
coroutine can wait, which packets of an exchange are on their way to the server, which to the
client, and what the server expects - for every offer, with a group or without, with a wrong guess
or not, and with an exchange that begins before the server has seen the end of the last. Which
packet may come next, and that none is refused, is read off from it; so is that `queueing` is set
exactly while a packet from above would be out of place (`Mode`). `AppInOrder` is `InOrder` while the
connection is open; when it is given up, what was written is `Unbroken`, which is all that is left
of the invariant, with `Readable`, for the server to go on with. The functions are composed as the
code calls them, so that the invariant carries `a`, the number of packets sent from above, through
states in which only a part of a handler has run; each operator has a lemma of its own. A sequence
number may wrap round anywhere: `(a % m + b) % m = (a + b) % m` is proved from the uniqueness of
remainders (`ModAdd`). TLC has checked the whole invariant on the run's instance before it was proved.

*The refinement of PacketTransport* (`TransportRefines`). What a step of the client or of the server
does to what both share is summed up in `ClientMoves` and `ServerMoves`, which each action's lemma
proves together with the invariant. The keys of the four directions are determined by the server's
own and by whether NEWKEYS is on its way each way (`Seen`), and the server's two are one
exchange apart exactly while it waits for the client's NEWKEYS (`Turns`, which has to be added). So a
step in which NEWKEYS is sent or read is one of the four in which keys change, and which one is
read off from `Seen` before and after it; that both cannot happen in one step is `Arrives`. That
nothing is delivered while the server's keys differ is `Apart`. `AppInOrder`, which no run checks
beside the refinement, is the lemma that gives what is waiting. What the keys of both ends have to do with
each other (`KeysInStep`) then follows from the seven steps of `PacketTransport` alone (`PromisedKept`),
and so holds of the detailed transport through the refinement (`KeysCorrect`): neither end reads with keys
that the other does not send with yet, or is more than one exchange behind it.

*Port forwarding.* Requests are numbered in the order in which they are made, and everything is
about that order: the contexts in the queue of handlers, the replies and the requests on their way
each ascend, replies come before requests, and a context is queued exactly when something is on its way
for it (`Matched`). In SSH-2 the connection has no request of its own among them; in SSH-1 that request is
behind all of them, until `ssh_reconfig()` has asked for something after it (`InTurn`). Hence the reply that is
taken first is for the head of the queue, with the exception that `RepliesMatch` names. `Kept` relates the records of forwardings to `ssh->rportfwds`;
`Granted` and `Released` say what the server listens for, given the cancellations and requests
that are still on their way, which is where the order of a cancellation and a new request for the same port
counts. A request that is cancelled while its handler is queued leaves the client with a handler for freed memory,
after which `ServerAgrees` claims nothing before the fault (`Doomed`). `ssh_setup_portfwd()`'s two loops
are recursive functions; `LoopsExist` shows by well-foundedness that these exist, and `Turn` is
their loop invariant. TLC has checked the whole invariant on the run's instance before it was proved.

*The terminal.* Until a DECSTBM has set a region above the screen, and nothing is claimed after
that, the invariant is that the screens have as many rows as they should, that both cursors,
margins and the view fit them (`Sound`, `Seen`), and that the last `tempsblines` lines of the
scrollback, which a resize may bring back, have not been erased (`Restorable`). The operators of
`term_out()` are chained: each keeps to `Ok(t, u)`, which is transitive. The main screen inside of
`term_size()` is `Half`, where the view and the other screen need not fit. `ResizeKeepsText` follows
from equalities between the text above the cursor before and after `Shrunk`, `Grown` and `Fitted`, of
which only the last drops lines, from the top.

Only model-checked: what must eventually happen (`KilledSocketsGo`, `WrittenIsReceived`, `EndIsReported`,
`TimersRun`, `FrozenAreThawed`, `ClosedAreDeleted`, `ServerIsFed`, `AppIsReceived`, `CipherIsAsConfigured`,
`FreezeIsLifted`), since liveness under fairness and `ENABLED` are out of the prover's reach. Every
safety property that a passing run checks is stated by one of the theorems; `ErasedStaysErased` and
`AlternateLeavesMain` are proved only for what comes before a DECSTBM above the screen, and checked after it too. Induction over data is out of reach as a rule; where a proof needs
the sum over a queue or a selection from one, it is a recursive function, of which the
lemmas are proved by the well-foundedness of the natural numbers (`Sums`, `Selected`).

## 6. Not modelled

See `PROJECT.json`, "components", for each part and the reason. In short: character sets,
bidirectional text, fonts, dialogues, settings and the user interfaces are sequential
transformations of data, as are the cells and attributes of the terminal; cryptography and
compression are numerical; other platforms' front ends, the SFTP and SCP clients and the key tools,
which are most of the repository's lines, are not part of the program built here. Authentication,
Telnet, proxies, logging, the line discipline, X11 and agent channels, the main session's channel and
the SOCKS parser are parts of the program that a later extension could model; each is either one
coroutine without other actors or a parser, so that tests reach it better than what is modelled.
