# StyxWire: models and proofs

This directory holds TLA+ models of StyxWire, the TLC configurations that check
them on small instances, and proofs checked by TLAPS. The reference is the C
code in `src/src/`; every definition of a model names, in `PROJECT.json`, the
lines it stands for. Paths below are relative to `src/src/` unless they say
otherwise.

To reproduce: `tlc -config <run>.cfg <module>.tla` for a run of the table
below, `tlapm <module>_proofs.tla` for the proofs.

## 1. The system

One process, one thread, two asynchronous parties: the operating system, which
delivers signals and passes time, and the network, which answers probes or does
not. `main.c` parses the command line into `cfg`, `hping_init()` acquires
sockets, capture handle, signal handlers and memory, `hping_run()` runs one of
four loops (event loop, flood, scan, listen), `hping_destroy()` releases. Beside
these, an interpreter (`script.c`) gives scripts the packet engine, the packet
descriptions and big numbers.

| Part | State | Operations | Talks to |
|---|---|---|---|
| Delay table and statistics (`rtt.c`, `statistics.c`) | `ctx.delaytable` (ring of 400 entries), `ctx.delaytable_index`, `stats` | `delaytable_add`, `rtt`, `hping_stats_on_sent`, `_on_reply`, `_rtt_sample`, `_unique`, `_loss_percent` | called by the senders and the receivers |
| Probe senders (`send.c`, `sendtcp.c`, `sendudp.c`, `sendicmp.c`, `sendrawip.c`) | `ctx.sequence`, `ctx.src_port`, `cfg.dst_port`, `_icmp_seq` | `send_packet` and one sender per protocol | delay table, IP sending |
| Reply receivers (`waitpacket.c`) | counters, `cfg.dst_port` (`-p +`), `cfg.src_ttl` (traceroute) | `wait_packet`, `recv_tcp`, `recv_udp`, `recv_icmp`, `icmp_unreach_rtt` | capture handle, delay table, event loop (`hping_stop`) |
| Event loop (`lifecycle.c`, `binding.c`, `clock.c`) | `ctx.next_send_us`, `ctx.end_deadline_us`, `ctx.stop_reason`, signal flags, self-pipe | `main_loop`, `flood_loop`, `pcap_io_wait`, `on_signal`, `handle_pending_signals`, `inc_destparm` | senders, receivers, signals |
| Life cycle (`main.c`, `lifecycle.c`, `libpcap_stuff.c`, `opensockraw.c`, `getifname.c`) | `ctx.sockraw`, `ctx.pcapfp`, `ctx.wake_fd`, `ctx.signals_installed`, `ctx.remote`, `ctx.stop_reason` | `parse_options`, `hping_init` (in stages), `hping_run`, `hping_destroy`, `hping_ars_send`, `hping_exit_code` | operating system, the loops |
| Port scanner (`scan.c`) | per port `active`, `retry`, `sent_us`; averages of the RTT, interval | `scan_step`, `scan_round_done`, `process_packet` | senders, capture |
| Safe file transfer (`listen.c`, `datafiller.c`, `sendhcmp.c`, `handle_hcmp`) | `cfg.src_id`, `exp_id`, file position, `ctx.eof_reached` | fill, send, receive, RESTART | the same program on the other host |
| Traceroute (`waitpacket.c`) | `cfg.src_ttl`, last router shown | `log_traceroute`, JSON path of `recv_icmp`, `--tr-stop` | event loop |
| IP sending (`sendip_handler.c`, `sendip.c`, `ip_opt_build.c`) | `cfg.virtual_mtu`, fragment flags and offset, `ctx.ip_optlen` | `send_ip_handler`, `send_ip`, `ip_opt_build` | raw socket |
| ARS packet engine (`ars.c`, `split.c`) | a packet: up to 256 layers of raw bytes with a type and flags | `ars_add_*`, `ars_compile`, `ars_build_packet`, `ars_split_packet` | descriptions, interpreter, `--apd-send` |
| APD and RAPD (`apd.c`, `rapd.c`) | the state of the parser | `ars_d_build` (text to layers), `ars_d_from_ars` (layers to text) | packet engine |
| Tcl bindings (`script.c`, `sbignum.c`, `adbuf.c`) | open capture handles, big numbers, objects with a text and a number | `recv`, `send`, `build`, `describe`, `+ - * / % **`, comparisons, `rand` | packet engine, descriptions |
| Option parsing (`parseoptions.c`, `antigetopt.c`) | `cfg` | `parse_options` | everything |
| Output, name resolution, conversions | | | |

What is hard here:

- *Interleaving*: a signal may arrive between any two instructions, in
  particular between the look at the flags and the sleep in `poll(2)`, and
  while the handlers are being installed or removed.
- *Time*: the schedule of the probes, the late reply deadline, the timeout that
  is computed from one clock reading and used after another, the truncation to
  milliseconds, stalls of the whole process.
- *The network*: answers are lost, late, reordered and duplicated, and are
  recognised by a 16 bit port or sequence number in a table of 400 slots; a
  captured packet may be padded, cut or damaged.
- *Partial failure*: every stage of `hping_init()` can fail, and so can every
  fragment of a datagram, the file of a transfer and the write of a listener.
- *Numbers*: `int` sequence numbers against 16 bit fields, a slot index that
  only grows, zero used as "unknown", a count compared for equality, three
  length fields that may contradict each other, carries and borrows.
- *Shared state*: the destination port is moved by the senders (`-p ++`), by
  the receivers (`-p +`) and by ctrl+z, while answers to the old one are late;
  options that are sensible one by one meet in one session; a number keeps a
  text that an operation in place may leave stale.

What makes each part correct, in short. *Delay table and receivers*: an answer
is charged to the probe it answers and to no other, a first answer counts once,
the loss is never negative. *Event loop*: no signal sleeps through a wait, a
stop is prompt, probes leave on schedule and neither early nor in a burst,
`--count` is met exactly on the sending side and never skipped on the receiving
side, and a session that should end ends. *Scanner*: every port is probed until
answered or given up, no port more often than the others, a silent port is
reported only after its last probe had time to be answered, and the scan ends.
*Safe transfer*: the receiver writes the bytes of the file in order.
*Life cycle*: everything acquired is released exactly once, whatever stage
failed and whenever a signal came; an error is told in the exit status; nothing
leaves that the options forbid. *IP sending*: the fragments reassemble to the
datagram, whatever became of the others. *Packet engine*: what was built is
split into what it was built from, the dissector ends on every input and loses
no byte of it, a damaged byte is noticed. *Descriptions*: what was described
builds the same bytes. *Big numbers*: the commands are those of the integers,
and the two forms of an object agree. *Traceroute*: the lines name
the routers in the order of the path, each with its own hop.

## 2. The modules

| Module | Models | Extends |
|---|---|---|
| `DelayTable` | `rtt.c` and the counters of `statistics.c` | |
| `Probing` | the senders, the receivers and the network between them | `DelayTable` |
| `Traceroute` | `log_traceroute()`, `--tr-stop`, ctrl+z on the TTL, on a path of routers | `Probing` |
| `Ledger` | abstract: what the accounting promises | |
| `EventLoop` | the loop, the wait, the signals, the clock, driving `Probing` | `Probing` |
| `Scanner` | `scan.c`: rounds, timers, port table, replies, signals | |
| `Survey` | abstract: what a port scan promises | |
| `SafeTransfer` | `--safe`: sender, listener, and the network between them | |
| `Fragmentation` | `send_ip_handler()`, `send_ip()`, `ip_opt_build()` | |
| `Session` | `main()`: command line, stages, loops, signals, release, exit status | `Fragmentation` |
| `Layers` | `ars.c`: the stack of layers, the compilers, the checksums | |
| `Split` | `split.c`: the dissector | `Layers` |
| `Apd` | `apd.c`: the parser of descriptions | `Layers` |
| `Rapd` | `rapd.c`: from layers to a description | `Apd` |
| `Packets` | the life of a packet: description, bytes, network, dissection, description | `Rapd`, `Split` |
| `Bignum` | `sbignum.c`: the algorithms on atoms | |
| `BigMath` | `script.c`: the math commands and the objects with two forms | `Bignum` |
| `MCProbing`, `MCEventLoop`, `MCScanner`, `MCSafeTransfer`, `MCSession`, `MCPackets`, `MCBigMath` | the instances the runs use | |
| `Probing_proofs` | theorems about `Probing` and `Traceroute` | `Traceroute` |
| `EventLoop_proofs`, `Scanner_proofs`, `SafeTransfer_proofs` | theorems and proofs | the modules they are about |
| `Bignum_proofs` | theorems about the operations of `Bignum` | `BigMath` |
| `BigMath_proofs` | theorems about `BigMath`'s commands | `Bignum_proofs` |
| `Session_proofs` | theorems about `Fragmentation` and `Session` | `Session` |
| `Packets_proofs` | theorems about the packet engine: the dissector, the checksums of `Layers` and `Split`, the layers of `Packets` | `Packets` |

### DelayTable

`delaytable`, `delaytable_index` and `stats` are the C variables of the same
names. The time stamp `sent_us` is replaced by the ordinal of the entry
(`stamp`): which probe a round trip time is measured against is what matters,
and two entries have different ordinals exactly when they are different probes.
The index is a C `int`: `Increment` wraps at `IntMax`, `Remainder` has the sign
of its dividend, as in C. The order of the search (first slot that matches) is
kept because ports and sequence numbers repeat. The floating point running
mean of the RTT and the percentage of loss are left out.

### Probing

The command line is a variable `cfg` that no action changes, so that one run
covers several command lines: `mode` ("tcp" stands for TCP and UDP, which keep
the same books; ICMP echo, timestamp, address mask), `--keep`, `--tr-no-rtt`,
`-p`, `-p +`, `-p ++`, and the keys of answers that belong to no probe.

`Transmit(ok)` is one call of `send_packet()`: entry added, sequence and ports
advanced, `sent` counted only if the datagram left. The code adds the entry
before it sends and advances the counters whatever the outcome, so
`Transmit(FALSE)` does everything but count. `BuildFails` is the error return
that precedes all of that.

The network is a sequence `wire` of datagrams with a number of copies of the
answer that may still come. A receiver takes any copy of any datagram at any
time: loss, delay, reordering and duplication need no actions of their own.
`ReceiveReply` is an answer of the target that passes the filters, `IgnoreReply`
one from a port that is no longer probed, `ReceiveError` an ICMP error that
quotes the datagram. `MaxAge` bounds how many probes may be sent while an
answer is under way; without it no finite key space identifies anything.

### Traceroute

Every action is one of `Probing` together with what it does to `src_ttl` and to
the list of hops; a run without `-T` is one in which that is nothing. The path is a
constant: a datagram that is sent with a TTL of at most `Len(Path)` dies at that
router, any other reaches the target (`Expires`), and an unreachable error may come
from anywhere. `TimeExceeded` is a time exceeded error, which `ShowHop`
turns into a line: `log_traceroute()` ignores the router it has just shown, the
JSON output ignores none, and both print the TTL in use when the error comes,
not the TTL of the probe it quotes. `stopped` is the call of `hping_stop()` by
`--tr-stop`; the loop (`EventLoop`) looks at it before it reads the next frame.
`Press` is `inc_destparm()` with the TTL bound; the clock that tells a double
press is `EventLoop`'s, so either effect is possible here.

`shown` records with each line the TTL of the probe behind it, and `orderly`
whether the network gave the list a reason to be wrong: an answer that comes
after the answer of a later probe or, in the JSON output, one that comes twice or
after another probe has left.

### Ledger

The abstract specification: every answer is known by the probe it belongs to
(`mail`), the last `Window` probes are remembered, a first answer of a
remembered probe adds to `received` only, a further one to `duplicates`, any
other to `unmatched`. It has no slots, ports, sequence numbers or C integers.
`Probing` implements it under `Window <- TableSize` (property `LedgerSpec`), in
the sessions whose keys tell probes apart (`Distinct`).

### EventLoop

One turn of `main_loop()` is cut at every point where another actor can act:

    signals -> deadlines -> arm -> poll -> wait -> read -> signals

`signals` is `handle_pending_signals()` and the test of `stop_reason`;
`deadlines` one reading of the clock and what it decides (`StopSent`,
`SendDueProbe`, `SendError`); `arm` the second reading and the timeout; `poll`
the entry into `poll(2)`, where the timeout becomes a moment; `wait` the sleep;
`read` one frame. `flood -> flooding -> ctrlz` are the three points of
`flood_loop()`. `SignalStop` and `SignalTstp` are `on_signal()`: flag and byte
in the pipe, and a wait already blocked may return `EINTR` (without draining
the pipe) or not. `Tick` is time: free while the loop sleeps, from a budget
(`stalled`) when the process is delayed at any other point.

`sent_at` and `late_sends` are history variables. The context fields keep their
names. The unit of time is abstract: `Granularity` stands for the millisecond
of `poll(2)`, `Interval` and `LateTimeout` for the configured values.

The frames of `--read` are the `foreign` answers of `cfg`: nothing was sent, so
none of them belongs to a probe.

### Scanner

`scan_run()` runs a loop of its own: `step -> wait -> read -> step`, where `step`
is one call of `scan_step()` (`NotDue`, `Finish`, `SendProbe`, and
`scan_round_done()` as `NextRound` and `LastRound`), `wait` the same
`pcap_io_wait()` as above, `read` one frame. Variables have the names of the
fields of `struct scan_state` and `struct portinfo`. The list of ports is any
set of ports (`selected`), so that its parser is left out.

Time is kept relative, which needs no bound on the clock: for `next_send_us` and
`round_pause_until_us` the model has the time until then (`send_in`, `pause`),
for `sent_us` and `start_us` the time since (`age`, `elapsed`, saturating where
nothing depends on them any more). `Tick` may come between any two steps, as the
process may be delayed anywhere; the one reading of the clock in `scan_step()`
and the next in `scan_run()` are therefore apart. `avrgms` is kept as the total
`avrgms * avrgcount`; the sample is added as the code does it, by an integer
quotient (`ReplyTcp`).

A reply may come from a port that was never probed (`Strays`): such a frame is
accepted if the port is selected, and its RTT is measured from `sent_us = 0`.

### Survey

The abstract specification of a scan: `asked` counts the probes of a port,
`silent` are the selected ports without an answer. A port is asked again only
when no silent port was asked less often, at most `Probes` times, and a survey is
complete only when every silent port was asked `Probes` times. `Scanner`
implements it (property `SurveySpec`) with `asked = Probes - retry`.

### SafeTransfer

Two processes. The sender (`--file --sign --safe`) calls `data_handler()`,
`datafiller()` and `send_ip()` for every datagram: `SendFull`, `SendLast`,
`SendAgain` and `SendJunk` are the outcomes of `open()` and `read()`, each with
the data, the IP id (`src_id`) and the place in the file (`pos`) that follow.
`Restart` is `handle_hcmp()`. The listener (`--listen --safe`) is one turn of
`listen_run()` per datagram: `Accept` or, with a restart request through
`send_hcmp()`, `Reject`. `Quit` is either side stopping, for any reason.

The file is a number of blocks of `data_size - signlen` bytes, and a datagram
carries the number of a block, padding, or the filling of a failure. `wire` and
`requests` are sets: what is in them may be taken in any order, once, again and
again, or never (`Lose`). `in_place` is a history variable: TRUE as long as,
since the start or the last restart, ids have counted blocks, that is without a
failure of the file, its end, or a turn of the 16 bits; `sure` is its value in a
datagram. The target of the listener's requests is taken as known, and a
datagram as not fragmented (under `--safe` every fragment would get an id of
its own, `sendip.c:151`).

### Fragmentation

One payload at a time goes through `send_ip_handler()`. `SendIpHandler(n)` is
its head: the options of `ip_opt_build()` (`IpOptLen`: the two source routes
while there is room, record route if 33 octets or fewer are taken), the
automatic choice to fragment and the size of the pieces. `SendWhole`,
`SendPiece` and `SendLast` are its calls of `send_ip()`, each of which ends in
one of three ways (`Outcomes`): sent, refused with an error that `send_ip()`
forgives (`lost`), or refused. The return value is that of the last call only, as in the code. `wire` is
a history variable: every datagram built for the current payload, handed over
or not, with its length, offset (in groups of eight octets), flag and id. The
payload is its length. The automatic size leaves room for the header and the
source routes but not for record route, as the code does.

### Session

A command line is the set of the options on it, each with one value;
`UsageError` is what `parse_options()` refuses of their combinations, a value out of
range or an unknown word is `invalid`. `After` is the table of the stages of
`hping_init()`, and every stage that opens something is an action of its own
with the descriptor it gets: `open` is the table of the kernel, where a new
descriptor is the lowest that is free, so that a descriptor closed twice or
late is one of somebody else. `StageFails` and `ActivateFails` are the error
paths, `InstallHandler` one call of `sigaction()`, `Signal` either
`on_signal()` or the default action, and it may come between any two steps.
`hping_destroy()` is cut between `close()` and the assignment of -1 for the
two ends of the pipe (`CloseWake`), where a handler may still run.

The four loops appear by what they do to `stop_reason`, to the packets and to
the status; their own behaviour is that of `EventLoop`, `Scanner` and
`SafeTransfer`. A packet is begun by `SendProbe` or `SendHcmp` and then goes
through the steps of `Fragmentation`, one `SendDatagram` per piece, so that
signals and failures come in the middle of a datagram. `caught`, `failed`,
`packets` and `sent_to` are history variables: a handler has seen a signal,
something has failed, how many packets were begun, and which addresses
anything was sent to.

### Layers

A packet is the sequence of its layers; a layer has a type, a buffer, the number
of bytes of it in use (`l_size`, which a description may lower) and the set of
fields that are not to be computed. Headers are kept as the bytes of the C
structures, so that lengths, nibbles and checksums mean what they mean on the
wire. There is one operator per constructor and per compiler, with its names:
`ars_compiler_ip` (header length over the options that follow, total length,
protocol, checksum), `ars_compiler_tcp`, `_udp`, `_icmp`, `_icmp6`, `_igrp`,
`_ip6`, and the padding of options, which inserts no layer but lengthens the
last one. `McUpdate` and `McFinal` are the checksum over several buffers of any
length: the odd byte at the end of one is lent to the next.

### Split

The dissector is a state machine. A handler, one operator per C function, takes
the packet so far, the bytes left and the two words that travel between
handlers, and returns the packet with the new layer, the bytes consumed and the
next state. A header that is cut off is copied into a zeroed buffer and flagged
truncated; `WithinDatagram` is the cut of the capture at the total length of
the outermost header. `ars_guess_ipoff` is the search for the header behind a
link header of unknown size. `SplitStart` is what `ars_split_packet()` does
before its loop, `SplitStep` one turn of the loop, and `SplitSpec` the dissector
by itself, on any capture.

### Apd and Rapd

A description is a sequence of lexemes: delimiters, words, and values that are
tagged with what they are (number, address, name, set of flags, list, text).
White space, upper and lower case and the digits of numbers are left out;
a quoted `\xx` and `0x` in the text of data are not. `ars_d_build` is one turn of
the parser's machine, `ki_add` and `ki_set` the keyword table, and there is one
operator per field setter, which stores bytes and marks the field as taken. In
`Rapd` there is one operator per layer, in the order in which the code writes
the fields. Names of hosts are not modelled.

### Packets

The composition. A user's description is parsed token by token (`Parse`),
compiled from the last layer to the first (`ars_compile`) and flattened; the
network delivers it behind a link header, padded, cut short at any of `Cuts`,
or with one byte damaged; the capture is dissected handler by handler
(`OpenCapture` and `DissectLayer`, which are `SplitStart` and `SplitStep`), described (in one of the two forms of the data) and, in
round 2, built again. So the description of round 2 is written by the program.

### Bignum and BigMath

A number is `[d, l, s]`: the storage, of which `l` atoms are in use, and the
sign. The operators work in place as the C functions do, storage included: what
an operation leaves beyond `l` is there for the next one. Every operator that
`script.c` calls is modelled, down to long division bit by bit, powers by
squaring, and the conversions in both directions, with `ATOMBITS` bits in an
atom. The functions of the library that no command calls are not.

`BigMath` is a script with one variable `x`. A Tcl object has a text, a number
or both (`SetMpzFromAny`, `UpdateStringOfMpz`), and a command that stores a
result drops the text (`Tcl_SetMpzObj`). `BigBasicObjCmd` folds any number of operands
with the start value that the operator has; `BigPowObjCmd`, `BigCmpObjCmd`
and `mpz_random` are the others. `last` is a history variable: the operands of
the last command as integers, and its result.

## 3. The runs

| Run | Question | Result |
|---|---|---|
| `probing` | Do ring, ports and sequence numbers keep the books of the ledger, for `-p ++`, `-p +`, `--tr-no-rtt`, ICMP echo and timestamp, and with traceroute (text, JSON, `--tr-keep-ttl`, `--tr-stop`, ctrl+z) on top? Are the hops of a traceroute the path? | `LookupExact`, `UniqueAtMostSent`, `LedgerSpec`, `AnswersAccepted`, `TracesPath` hold |
| `loop` | Do the sessions that end by themselves (`--count`, with and without a selectable descriptor, `--dry-run`, `--flood`, `--read`) keep schedule and count, and end? | `TypeOK`, `PromptStop`, `OnSchedule`, `CountSent`, `CountCaught`, `Terminates` hold |
| `loop_endless` | No count, coarse timer, long stalls, ctrl+z against the stop signal and the waits: burst, lateness, end by signal? | `NoBurst`, `Punctual`, `NoLostWakeup`, `SignalStops`, `PressHandled` hold |
| `scan` | Any set of two ports, four rounds, replies late, missing or stray, send errors, a lost capture, signals | `TypeOK`, `LastChance`, `SignalHeard`, `SurveySpec`, `Terminates` hold |
| `transfer` | A file of a block and a half, losses, reordering and duplicates both ways, ids that turn over, failures of the file and of the write | `TypeOK`, `WritesFile`, `Delivered` hold |
| `session` | Every pair of options, a failure of every call, fragments refused one by one, signals anywhere | `SessionTypeOK`, `ReleasedOnce`, `OfflineIsSilent`, `ErrorIsReported`, `Reassembles`, `SignalEnds` hold |
| `packets` | 36 descriptions with every layer the language has, right and wrong on purpose, each padded, behind a link header, cut, and damaged at every byte | `TypeOK`, `SplitKeepsBytes`, `ReadsBack`, `DamageSeen`, `RoundTrip`, `SplitProgress` hold |
| `bignum` | Scripts of two commands over nine literals: is it the arithmetic of the integers? | `WellFormed`, `Arithmetic`, `Ordered`, `FormsAgree` hold |
| `session_dry_apd` | Does `--dry-run` send nothing (`docs/styxwire.8:190-193`)? | violated with `--apd-send` |
| `session_safe_target` | Does a session with `--safe` know its target (`parseoptions.c:731`)? | violated on both sides |
| `bignum_division` | Has the remainder the sign of the dividend (`sbignum.c:1257`)? | violated by -7 and 3 |
| `transfer_end` | Are lost packets resent under `--end` (`docs/styxwire.8:594`)? | violated when the last datagram is lost |

The four violations are recorded as findings in `PROJECT.json` with the line
quoted. The properties, in words:

- `LookupExact`: whenever an answer may arrive, `rtt()` would find exactly the
  entry of its probe if that is still in the ring, and nothing otherwise.
- `UniqueAtMostSent`: the number of probes answered never exceeds those sent.
- `LedgerSpec`: every step of the concrete books is a step of the ledger.
- `AnswersAccepted`: the port filter accepts every answer to a probe, however
  late (not under `-p +`, where an answer moves the port and the next one of
  the same probe is ignored).
- `TracesPath`: without ctrl+z no line of a traceroute names a hop nearer than the router
  is; if the answers come in order, the lines are numbered without a gap and each
  names the hop where its probe died, whatever was lost or repeated.
- `NoLostWakeup`: between the look at the flags and the end of the wait, a
  pending signal has a byte in the pipe.
- `PromptStop`: at most one probe leaves after the stop signal.
- `OnSchedule`, `NoBurst`, `Punctual`: probe *k* not before `(k-1) * Interval`;
  any three probes in a row span an interval; and a probe is late
  by no more than the time the process lost while work was due, although a
  timeout is computed before a loss and slept after it.
- `CountSent`: never more than `--count` probes; a session that ended with SENT
  has sent them all and waited `LateTimeout` after the last.
- `CountCaught`: the test for equality at the end of `wait_packet()` cannot miss
  the moment at which the count is reached.
- `Terminates`, `SignalStops`, `PressHandled`: liveness of the loop.

Of the scanner:

- `SurveySpec`: every step of the rounds is a step of the survey.
- `LastChance`: when the scan reports its silent ports, all their probes were
  sent, and a second has passed since the last one if no reply gave an average.
- `SignalHeard`: the wait is not entered, nor continued, on a stop signal whose
  byte is not in the pipe.
- `Terminates`: the scan ends, whatever comes in or stays away.

Of the file transfer:

- `WritesFile`: what the listener takes as block *i*, and was sent while the ids
  counted the blocks, is block *i*.
- `Delivered`: unless a side quits, the listener gets as many blocks as the file
  has.

Of the session:

- `ReleasedOnce`: a descriptor the program remembers is open and of its kind,
  and the handler never finds its end of the pipe closed; at the exit nothing
  is open and no handler is left, whichever stage failed.
- `OfflineIsSilent`: with `--dry-run` or `--read` and any other options but
  `--apd-send` no raw socket is opened and nothing is sent.
- `ErrorIsReported`: when something failed, the status at the exit is 1, whatever
  raced the failure.
- `Reassembles`: the pieces of a fragmented datagram lie side by side, from its
  first octet to its last, only the last is final, and all but the last have a
  multiple of eight octets, whatever became of the others. A datagram sent
  whole has the offset and the flag the user asked for, and is left out.
- `SignalEnds`: a signal that a handler has seen ends the process.

Of the packets:

- `SplitKeepsBytes`: what the dissector has consumed is, byte for byte, what its
  layers hold, and lies inside the capture; only a truncated last header holds
  more.
- `SplitProgress`: every handler consumes at least a byte, so that dissection ends
  on every input.
- `ReadsBack`: a packet in which nothing was overridden is read back with the
  same headers, options and data, good checksums, and without the padding.
- `DamageSeen`: whatever byte of a packet with checksums is damaged, a layer of
  the capture is flagged or the dissector gives up.
- `RoundTrip`: what was captured, wrong fields included, and can be put in words,
  builds the same bytes again.

Of the big numbers:

- `WellFormed`: numbers are normalised, and the storage beyond them is zero,
  which the carry of the next operation relies on.
- `Arithmetic`: a command returns what it means on the integers, and fails
  exactly when an operand is no number or the result is not defined; the
  cases that are not so are listed in `Exceptional`.
- `Ordered`: comparisons are those of the integers, a zero with a sign included.
- `FormsAgree`: the text and the number of an object agree, and what was printed
  is read back as the same number.

Every property of these runs has a mutant in `PROJECT.json`: a plausible bug in
the code that breaks it.

### Compared with the program

`Layers`, `Split`, `Apd`, `Rapd` and `Bignum` are computations, and were compared
with the C code compiled from this repository: 44 builds from descriptions and
all refusals, and 1858 dissections, byte for byte, layer for layer; and 14 879
results of arithmetic commands, as texts (the C code with its atoms of 32 bits, the
model with 7). They agree but for one thing: whether a zero that carries a sign
(below) shows it.

### Seen while modelling, without a run

Of the lookup: a duplicate under `--keep` is not always an answer to an answered
probe (`globals.h:217`), as all entries have one port; an echo reply past 65535
probes finds no entry (`globals.h:218`), as the table keeps an `int` where the
packet has 16 bits; past `INT_MAX` probes the slot is negative
(`globals.h:215`, `rtt.c:68`); an address mask reply never finds an
entry, as `send_icmp_address()` tests for another ICMP type before it records the
probe; a late answer to ICMP sequence number 0 falls back to the search by port,
where every ICMP entry has port 0, so that it is charged to the first slot; and
under `--read` a reply to port 0 matches a slot that was never written and gets
an RTT, although nothing was sent (`docs/styxwire.8:205-206`). The model contains
all of these; `Distinct` keeps them out of the properties that hold.

Of the loop: a live capture that fails ends the session as the end of a savefile
does (`globals.h:169`); `--dry-run` together with `--read` spins and never reads
the savefile, as the dry-run branch of `main_loop()` continues before the frame
is read (`lifecycle.c:506`); and a listener that is ended by a signal keeps the
stop reason NONE and exits with 1.

Of traceroute: an answer that overtakes another makes it a hop of its own, as only the
router shown last is remembered, so that a hop is skipped; the JSON output counts every
error, so that a duplicate or a second probe under way skips hops too, while the
text output ignores them (`docs/styxwire.8:613-615` has the TTL grow "for each"
error received, which only the JSON output does); `--ttl 0` in the text output, if such a
datagram is sent and answered, shows the first router as hop 0 and then ignores it for ever; the router shown last is kept in a
static variable that a second session of the same process inherits; and
`--tr-keep-ttl` shows every error with the TTL in use.

Of the scanner: the integer quotient `rttms/avrgcount` loses its fraction in every
sample, and with more replies than milliseconds of RTT a sample adds nothing, so
that on a large scan the pause after a round, and the time the last probes have to
be answered, shrinks towards zero (`scan.c:18` speaks of an average); this is why
`LastChance` says nothing of a scan with replies. A stop signal ends a scan with
`stop_reason` still `HPING_STOP_NONE`, because `scan_run()` never calls
`handle_pending_signals()` (the test double in `src/tests/fakeio.h:91` sets it by
hand); "when a round produced no reply" (`scan.c:19-20`) is decided by `recvd`,
which counts the ports that answered in any round and had retries left; and a
stray reply enters the average with the age of the clock.

Of the file transfer: `transfer_end` shows the case that `sure` keeps out of
`WritesFile`: once the end of the file was reached the id stands still while the
file starts over; if the last datagram is lost, the first block goes out under its
id and is written in its place. A restart request that finds the file unreadable
fills a NULL pointer (`datafiller.c:35`), which ends the sender. An empty file
without `--end` repeats the read for ever (`datafiller.c:61`). `--end` does not keep
the other end from accepting more, as `docs/styxwire.8:606-609` has it: every
datagram after the end carries the id the listener may be waiting for.

Of IP sending: `-m` takes numbers that are no multiple of eight, for which the
offset field leaves gaps or overlaps; the automatic size forgets record route, so
that pieces may exceed the MTU; `--safe` gives every fragment an id of its own
(`sendip.c:151`), so that none can be put together; and the error of any fragment
but the last is dropped (`sendip_handler.c:54`).

Of the packets: a TCP header without flags is described by an empty value, which
the parser skips, so that the description is refused or misread (`rapd.c:321-330`,
`apd.c:39-49`; `docs/APD.txt:65-67` promises that descriptions parse back unchanged); `ihl=` keeps
`ars_compiler_ip()` from computing the protocol as well (`ars.c:606-654`,
`docs/APD.txt:23-27`); `fragoff=` clears flags that were set before it
(`apd.c:200`; a description written by the program has it first); a backslash in text
data is not escaped; options with data (record route, time stamps, SACK) are built
again with their full length.

Of the big numbers: the sign of a quotient of equal magnitudes is not computed
(`sbignum.c:1242`); `b ** 0` is `b`; a seed set before the first random number has no
effect; division by zero is reported as "Out of memory"; a lone `0` or `0x` with a
blank behind it is refused; and a zero may carry a sign and print as `-0`.

### Bounds

| Bound | Value | Why it is enough |
|---|---|---|
| `TableSize` | 3 (probing), 2 (loop) | with `MaxProbes` 5 the ring is overwritten, entries are in every relative position to the next slot |
| `WireMod` | 4, 5 | ports wrap within a run; not smaller than `TableSize`, as 65536 is not smaller than 400 |
| `MaxAge` | `WireMod` or less | an answer is late by more than a ring, and late enough to meet the next use of its port but one |
| `MaxProbes` | 5, 3, 4 | almost two turns of the ring in probing; in the loop one more than the count, or as many as `MaxTime` leaves time for, so that the bound never ends a session |
| `MaxCopies` | 2, 0 | an answer and a duplicate |
| `MaxTime` | at least `1 + (count - 1) * Interval + LateTimeout + 2 * MaxStall` | the clock never stops before the session may end |
| `MaxStall` | 3, 4 | spent at any points; 4 is more than an interval, so that the loop falls behind by whole intervals |
| `Interval`, `Granularity` | 2/1 and 2/2 | the second pair makes the truncation of the timeout visible: a rest of one unit is no timeout at all |
| `MaxPresses`, `MaxTtlPresses` | 2 (loop), 1 (probing) | a single and a double press; in `Traceroute` one press has either effect |
| `Path`, `TtlMod` | three routers, the third being the first again; 256 | a router shown before comes back with another in between; as many TTLs as in the code, since a run that wraps them sends more probes than `MaxProbes` |
| `MaxPort`, `Probes` (scan) | 1, 4 | two ports: one answers, the other does not, in either order; four rounds: a round without, one with a pause after it, and the end |
| `Milli`, `HalfSecond`, `Second`, `Uptime` | 2, 2, 4, 3 | an RTT below a millisecond exists, the half second ends within a round, the pause can be shorter and longer than the age of a probe |
| `Slow`, `Interval` | 2, 0 | the interval grows from full speed to 1, 3, ... |
| `Blocks`, `Short` (transfer) | 2, TRUE; 3 | a full block and a short one; with three, blocks on either side of a loss |
| `IdMod` (transfer) | 3 | the smallest id space larger than the file: ids turn over at once |
| `Window` (transfer) | 2 | two messages each way: an old and a new one pass each other |
| `MaxReceived` (transfer) | 2, 4 | the whole file; in the second run one block more |
| `MaxProbes`, `MaxSignals` (session) | 2, 2 | the second packet meets what the first left; one signal is caught, another comes during the release, or kills |
| `Mtus`, `DataSize`, `SignLen`, `VirtualMtu` | 70 and 1500; 60, 5, 24 | with the small MTU the data is fragmented automatically, with `--mtu` into up to four pieces, the last one short |
| `Commands` (session) | 630 command lines | no target, a target and any two options, both sides of a safe transfer with any other option |
| `ARS_MAX_LAYER` | 9 | every description but one fits, and one capture needs more layers than there are |
| `Paddings`, `LinkHeaders`, `Cuts` | 0 and 6; 14; 4, 19, 22, 27, 33, 41 | a frame at its minimum; Ethernet; cuts inside and right behind the headers, options and data; damage is at every byte |
| `ATOMBITS` | 7 | two digits in an atom; literals of one, two and three atoms |
| `Limit`, `PowerLimit`, `Exponents` | 1000; 100; -7, 0, 1, 3 | what is kept has up to two atoms, operations on it up to five |
| `RandomAtoms`, `MaxCommands` | 0 and 127; 2 | leading zeros and ones; a command works on what another left |
| `MaxAge` (scan) | 4 (`Second`) | an answer comes after the final second has begun, or never |

`loop` sets `MaxCopies` to 2 with two probes, so that a duplicate meets the last
answer the count waits for; `loop_endless` leaves replies out (`MaxCopies` 0),
since they do not touch the schedule; every run of the loop has the stop signal.

### Fairness

`WF_vars(Loop /\ ~ Unowed)`: the operating system schedules the process, and
nothing else is owed: a wait that neither a byte in the pipe nor its timeout
ends lasts, as no frame and no failure (`PollFrame`, `PollError`, `SendError`)
has to come. `SF_vars(Tick)`:
time passes even if signals keep interrupting the sleep; strong, because a step
of the loop may disable and enable the tick of a stall budget. No signal is
owed either. The scanner has `WF_vars(Tick)`, as its clock never stops before
the end. The transfer has weak fairness of sending, and strong fairness of a sending that
arrives with the id the listener waits for and with another, of reading what
stays on the way, and of the requests that are answered: a network that loses
some messages but not all of them, which is what a protocol of repetition needs.
`Terminates` of the loop is checked with a count only (or with a
savefile): without one only a signal ends the session. `MaxTime` stops the clock,
so an endless session may stay asleep at the end of time; `SignalStops` and
`PressHandled` hold all the same, as they depend on the pipe and not on time.
The process of `Session` has `WF_vars(Process /\ ~ Unowed)`: it is scheduled, and
no frame, end of a capture or failure of a wait is owed to it. A caught signal ends
it all the same, as every loop looks at the flag.

The probing run states no liveness and may stop when all answers have been taken,
a packet comes to an end, and a transfer is over when a side quits or the file is
there: these do not look for deadlock; all other runs do.

## 4. The proofs

TLAPS proves these for every value of the constants that satisfies the named
assumptions (`TableSizeAssumption`, `IntMaxAssumption`, `ProbingAssumption`,
`EventLoopAssumption`: the types of the constants, a table with a slot, a port
space with a port, a timer granularity above zero, a count that is -1 or
positive, as `parse_options()` enforces).

**Types.** `ProbingTypeCorrect` and `TypeCorrect` (`TypeOK`) are inductive as they
stand; among other things the timeout handed to the wait is never negative.

**The loop** (`EventLoop_proofs`).

- `WakeupNeverLost`: `NoLostWakeup` is inductive by itself: the flags and the
  pipe change together in `on_signal()`, and the pipe is drained only where the
  flags are looked at next.
- `StopIsPrompt`: `PromptStop` says nothing about where the loop is, so a step
  from one late probe to two is not excluded by it. `AtMostOneLate` adds the
  places in which no late probe has left yet and those in which one may have.
- `NeverEarly` (`OnSchedule`): `ScheduleInv` adds that the next moment is not
  before its place either, while there is a next probe; `FloodApart` that the
  two loops share no place.
- `NeverBursts` (`NoBurst`): `BurstInv` adds that the next probe is neither
  before the last one nor within an interval of the one before. The clamp in
  `send_due_probe()` is what keeps it.
- `NeverLaterThanLost` (`Punctual`): `PunctualInv` adds that, while there is a next
  probe, neither its moment nor the clock is behind the latest moment (its place
  plus the time lost), nor is the end of the wait: computed (`poll`: the clock plus
  the timeout) or begun (`wait`). Free time passes only before that end or before
  the probe is due (`QuietInTime`), and a wait is never longer than its timeout
  (`PollTimeBound`).
- `CountIsKept` (`CountSent`): `CountInv` ties the late reply deadline to the
  count: it is set exactly when the last probe has left, to its moment plus the
  timeout, and the reason SENT is given only behind it.
- `CountIsCaught` (`CountCaught`): `CaughtInv` adds that a loop at work
  has no reason to stop yet, so that the reason is looked at before the next
  frame is read; one answer adds at most one (`UniqueGrows`), so equality
  cannot be jumped over.

**The lookup** (`Probing_proofs`). `NoAnswerIgnored`
needs no further assumption: `PortInv` keeps the ports of all datagrams on the
wire between the first port and the one probed next. The other three hold under
`Roomy`, which says what the 16 bit keys need in order to identify anything:

- the ring is not larger than the port space (400 and 65536 in the code),
- an answer is not later than one turn of the port space (`MaxAge <= WireMod`;
  this is about the network, and the code can do nothing about it),
- fewer probes than `INT_MAX` (beyond it the slot is negative),
- no answer of the target that belongs to no probe.

`LookupIsExact` (`LookupExact`): `RingInv` says what every slot holds: slot *s*
has the youngest datagram whose ordinal is *s* + 1 modulo the size, with the port
or the sequence number it was sent with, and unused slots are still empty. Two entries of
the ring with the same key would be a whole turn of the port space apart
(`SameRemainder`), which is more than the ring holds. `NeverCreditedTwice`
(`UniqueAtMostSent`): `CreditInv` counts: first answers are at most the
datagrams that are answered and closed, these are among those that left, and
those are at most the probes counted as sent. `KeepsLedger` (`LedgerSpec`):
`TieInv` ties the status of a slot to the ledger: the slot of a remembered datagram
is open exactly if the datagram has not been answered. `IssueStep` and
`AnswerStep` then map every step of `Probing` to one of `Ledger`.

**The scanner** (`Scanner_proofs`), under `ScannerAssumption`: the types of the
constants, at least three probes per port (the code has eight; the pause comes
after the third round), and an age bound no smaller than a second.

- `ScannerTypeCorrect` (`TypeOK`): `TypeInv` adds that there is no total
  without samples and that a round has not probed more ports than it passed.
- `SignalIsHeard` (`SignalHeard`) is inductive by itself.
- `RoundsAreSurvey` (`SurveySpec`): `RoundInv` says how many probes a silent
  port has left (`Left`), which depends only on the round and on whether the
  round has passed the port; hence the port probed next is one asked least
  (`ProbeInRound`), a round that has probed something has reached every silent
  port (`RoundComplete`), and one that has not finds every silent port without
  probes (`NothingLeft`).
- `EveryPortHasItsChance` (`LastChance`): `ChanceInv` trades time for time: after
  the last round and without an average, the age of the last probe plus the
  rest of the pause is a second. A tick moves one unit from one to the other.

**The file transfer** (`SafeTransfer_proofs`), under `TransferAssumption`: the file,
and the blocks the listener takes, are fewer than the ids.

- `TransferTypeCorrect` (`TypeOK`) is inductive as it stands.
- `FileIsWritten` (`WritesFile`): `FileInv` says that while the ids count the
  blocks the file stands at the block of the id, that every datagram on the way
  that was sent like that carries the block of its id (`Right`), so do those the
  listener has taken, the *i*-th under the id *i*, and that the expected id is
  the next. `EmitRight` is the sender's part, common to all ways to send.

**The datagrams** (`Session_proofs`), under `FragmentationAssumption`: payloads
that fit the field of the length, MTUs with room for a header and eight octets, and
sizes of pieces that are multiples of eight.

- `FragmentationTypeCorrect`: `Typed` adds what is left while pieces are sent: the
  offset and the rest make up the payload, the offset is a multiple of eight, and
  there is a rest. That every offset and length fits its field follows
  (`AutomaticSize`, `DatagramFits` and the limits of `Limits`).
- `PiecesReassemble` (`Reassembles`): `Laid` adds `HalfWay`: while pieces are sent, the
  last one promises more and ends where the next begins. `SideAppend` is the
  lemma about one more piece.

**Traceroute** (`Probing_proofs`), under `TracerouteAssumption`: the path is not empty and
shorter than the largest TTL.

- `TracingIsProbing`: every step of a traceroute is a step of `Probing` or leaves its
  variables alone, so that the theorems above hold with `-T` as well.
- `HopsAreThePath` (`TracesPath`): `PathInv` has two parts. `BelowInv` needs only that there
  is no ctrl+z: no probe carries more than the TTL in use. The other holds while
  the answers are in order: the TTL in use is the next hop (`ListInv`); in the text
  output the router shown last answered a probe with one TTL less, and all later
  probes carry at least as much (`TextInv`), so that an answer in its turn comes either
  from that router, and is ignored, or from a probe with the TTL in use
  (`HopInTurn`). In the JSON output the last probe, if it has no answer, carries the
  TTL in use (`JsonInv`).

**The session** (`Session_proofs`), under `SessionAssumption`, for every set of command
lines.

- `EveryErrorReported` (`ErrorIsReported`): `Reported` follows a failure to the
  status: before the loop by the value `main()` returns, in the loop by the stop
  reason, which was NONE when the failure came and is never overwritten
  (`Stopping`).
- `EverythingReleasedOnce` (`ReleasedOnce`): `Tidy` says which descriptors may be held
  at which stage (`Placed`) and that every one the kernel has is held exactly once
  and of its kind (`Owned`); `FreshFds` that a new one belongs to nobody.
- `NothingSentOffline` (`OfflineIsSilent`): `Silent` adds that the socket was never opened.
- `SessionReassembles` (`Reassembles`): `Carried` lifts `Typed` and `Laid` from one datagram
  to the process: the steps of a session that send are steps of `Fragmentation`
  (`SendingStep`), and all others leave the datagram alone.
- `SessionTypeCorrect` (`SessionTypeOK`): `Tidy`, `Carried` and `Noted`, the types of what
  the process notes.

**The dissector** (`Packets_proofs`), for every capture and every offset, under
`MaxLayerAssumption`.

- `DissectorKeepsBytes` (`SplitKeepsBytes`): `SplitInv` adds where the dissector
  stands: what is left is the part of the capture behind the offset, up to the end
  of the datagram; the layers are well formed; and a handler that counts option
  bytes has some to count (`Feeds`), without which an option handler could be given
  none. Every handler takes what it consumes and nothing else (`Takes`, one lemma
  per handler, `SplitIp` to `SplitData`, collected in `HandlerTakes`); the bytes
  of the layers grow by exactly these (`LayerBytesAppend`).
- `DissectorProgresses` (`SplitProgress`): from the same lemmas; each names the
  least a handler consumes.

**The checksums** (`Packets_proofs`), about the operators, for buffers and packets of
every content.

- `ChunksDoNotMatter`: `ars_multi_cksum()` over any division of the bytes into chunks
  is `ars_cksum()` of the bytes. `UpdateConcat` is the seam: the byte an odd chunk
  lends to the next one.
- `AnyByteCounts`: changing one byte of at most 65535 changes the checksum. The fold
  keeps the remainder by 65535 (`FoldKeepsResidue`), and one byte moves the sum by
  less than that (`SumChange`). The bound is a datagram's; up to it the `u_int32_t`
  accumulator cannot overflow (`Sum16Bound`), which the model relies on.
- `HeaderDamageIsSeen`, `MessageDamageIsSeen`: a header or an ICMP message that passes
  its check does not pass it after one byte was changed, be it one of the
  checksum's own. The first byte of the header is left out: it tells how many
  bytes are summed.
- `CompiledHeaderIsGood`, `CompiledMessageIsGood`: what `ars_compiler_ip()` and
  `ars_compiler_icmp()` store passes the dissector's check of the bytes that are
  sent, whatever layers follow. Of the header this takes a length that the
  compiler computes and options that fill whole words and at most 40 bytes
  (the option compilers pad to words; nothing in `ars.c` enforces the 40).

- `SegmentDamageIsSeen`: a UDP, TCP or ICMPv6 checksum that the dissector accepts
  over its pseudo header is refused once any byte of the segment has changed. The
  pseudo header counts towards the bytes summed: `Sum16Bound` allows its 40.
- `CompiledSegmentIsGood`: when UDP, TCP or ICMPv6 is compiled without an error, the
  dissector computes of the bytes that are sent the checksum they carry. The two
  sides build the pseudo header from different stacks: the compiler from the packet,
  the dissector from the headers it has captured and a temporary layer that holds
  the rest. `PseudoSame` says what they have to share (`SameAddresses`: the types of
  the layers below and the addresses of the IP headers; the sizes agree by
  `RelativeSizeIsLen` and `TempLayer`). `WholeAddresses`, that an IP layer has its
  20 and an IPv6 layer its 40 bytes, is what `ars_add_iphdr()` and `ars_add_ip6hdr()`
  give it.

These are the part of `ReadsBack` and `DamageSeen` that is about checksums; IGRP's
check does not exist in the dissector.

**The life of a packet** (`Packets_proofs`), under `MaxLayerAssumption`,
`DescriptionsAssumption` (a description is a sequence of lexemes: numbers are unsigned,
addresses, texts and files are bytes, a list has pieces) and `LengthsAssumption` (what the
network adds or leaves is a number of bytes).

- `AlwaysTyped` (`TypeOK`): `PacketsInv` adds what each part needs of the one before.
  A `Stack` has no more layers than slots, and each header whole (`Whole`: 20 bytes of IP, 8 of
  UDP, ...), because the compilers and the describer read at fixed offsets. Between two
  tokens the parser is `Building`: in front of a field there is a layer with the header of
  its keyword, so that a field setter never writes beyond the buffer (`BuildingToken`, one
  lemma per keyword and per setter: they keep the length of the buffer or replace it
  with a whole one). `CompileStack` is one layer compiled, `PacketBytes` the flat packet,
  `SplitStepStack` one handler: a handler that goes on leaves a stack, one that gives
  up a packet of layers, which may end in the temporary layer of a checksum
  (`Capture`). `StackInWords` closes the circle: what the describer writes of a stack is a
  description again, so that round 2 starts as round 1 did.
- `PacketsKeepBytes` (`SplitKeepsBytes`), `PacketsProgress` (`SplitProgress`): `PacketsInv`
  contains `SplitInv`, so what holds of every capture holds of the captures that the network
  makes of the engine's own packets.

**The big numbers** (`Bignum_proofs` for the library, `BigMath_proofs` for the commands), under `AtomAssumption` (an atom has at least six
bits, so that a digit and a base fit in it; `sbignum.h` allows 8, 16 and 32) and
`InputsAssumption` (what each word of a script is read as, and that the generator
fills atoms; `bignum` evaluates it), for numbers of every length. A number in the middle of an
operation is `Clean`: atoms without a use are zero, but leading zeros are allowed; at
rest it is `Normal`, which is what `WellFormed` says of `x`. `Magnitude` is the
value of the atoms; `MagnitudeIs` and `MagnitudeUnique` turn its recursion into
an equation (`Horner`), on which every loop is an induction over atoms.

- `ComparisonExact`: `mpz_cmp()` orders as integers are ordered. Of two numbers of
  the same length the highest atom that differs decides (`GreaterAt`), and the
  longer of two normalized numbers is the greater (`LongerIsGreater`): this is what
  normalization is for.
- `AdditionExact`, `SubtractionExact`: atom by atom, the sums and the carries make up
  the operands (`AddsUp`, `SubtractsDown`), and the last borrow is 0 because the
  first magnitude is not smaller (`LastBorrow`). `SignedAddition`, `SignedSubtraction`
  put the signs to them.
- `MultiplicationExact`, `SignedMultiplication`: a row of the multiplication adds the
  product with one atom from its place on (`RowExact`), the rows make up the product
  (`RowsAddUp`), and each finds the atom for its last carry still zero (`RowsClean`).
- `LongDivision`: before each bit, the quotient and the remainder so far make up the
  bits of the dividend that were read (`Partial`); each is exact, and the bit that is set
  lies in the storage of the quotient (`QuotientFits`). `QuotientExact`, `RemainderExact`
  and `ModuloExact` are `mpz_tdiv_q()`, `mpz_tdiv_r()` and `mpz_mod()`; equal magnitudes,
  for which the quotient is 1 whatever the signs, are an exception `QuotientExact` states.
- `AlwaysWellFormed` (`WellFormed`): `NumberKept` says that `x` is a word of the script or
  holds a normalized number that is its value. Every command keeps that
  (`BasicIs`, `PowIs`, `RandomIs`), and so do both conversions (`GetMpzIs`, `SetStrIs`).
- `AlwaysOrdered` (`Ordered`): from `NumberKept` and `ComparisonExact`.
- `PowerExact`, `PowerModuloExact` (`mpz_pow()`, `mpz_powm()`): with the bits of the exponent
  read so far making `j`, the result is `b` to the `j` and the square that is kept is `b` to the
  power of the next bit (`PowerHistory`, `PowerStepMeans`), both as integers or both modulo
  `m`; the laws of powers and of residues this takes are `PowerSquare`, `PowerResidue` and
  `ResidueFactors`. The rounds suffice for every bit of the exponent (`EnoughRounds`).
- `AlwaysExact` (`Arithmetic`): `NumberKept /\ Answers(last)` is inductive, where `Answers` is
  `Arithmetic` for one command. `BasicMeans` follows the fold of `BigBasicObjCmd` operand by
  operand, from the start value the operator has, and `BasicFails` its early return;
  `PowMeans` is `BigPowObjCmd`. What is proved excludes the cases of `Exceptional`, and
  nothing else.
- `ShortDivision`, `PrintedIsRead` (`mpz_tostr()`, `mpz_set_str()`): the digits `ds` *print* `v`
  down to the quotient `w` (`Prints`) if there are quotients by 10 from `v` to `w` whose
  remainders they are. `mpz_tostr()` divides by the largest power of 10 in an atom and prints
  each remainder: every group prints a number down to its quotient (`GroupMeans`), with its
  zeros in front while there is a quotient and without them in the last group (`LastDigit`);
  groups go on where others ended (`PrintsMore`), and the rounds suffice because each
  leaves half at most (`TextDigitsAre`). `mpz_set_str()` adds the digits with growing powers of
  10: what is still to be added is what the quotients have left (`DigitsAreRead`). Between the
  two, a sign comes off, no blank is cut and the base is guessed 10, because the first digit
  is not 0 (`SignedText`, `NothingTrimmed`, `GuessDecimal`).
- `AlwaysFormsAgree` (`FormsAgree`): `NumberKept /\ TextKept(x)` is inductive. A step leaves `x`
  alone, adds its number, replaces its number or makes its text (`StepMakes`), and only the last
  needs `PrintedIsRead`. The characters of a text are `Char`: strings, and the ones the
  tables and the sign name, which the provers do not know to be strings.

Recursion over data is proved by induction on a set (`NatInduct`, `UpTo`, `SeqInduct`:
a set of numbers or sequences that has the first one and with each one the next),
because the provers do not take an operator as a parameter. `FlattenFunction`,
`TotalSums` and `ChunksFold` show once that the folds are such recursions. A recursive
function that is defined by `LET` is a choice among the functions with its equation:
`Recursion` and `DividesExist` show that there is one. The modules of proofs each have their
own copy of these few lemmas.

Only model-checked: everything under fairness (`Terminates` of the loop and of the
scanner, `SignalStops`, `PressHandled`, `Delivered`, `SignalEnds`), which is out of
the prover's reach; and three properties of `Packets`, for reasons of their own:

- `DamageSeen` does not hold of every description. Damage to the nibble of the header
  length moves the end of the header into the payload, and there is a payload for
  which the sum is good again. `HeaderDamageIsSeen`, `MessageDamageIsSeen` and
  `SegmentDamageIsSeen` are what is true of all contents: damage that leaves the frame where
  it was. The run shows the rest for the packets it builds.
- `ReadsBack` has corners of the same kind: behind a link header
  an IPv6 datagram may carry bytes that look like an IPv4 header, which `ars_guess_ipoff()`
  finds first, and a total length beyond 65535 wraps in its field. It would have to name
  them before it could be proved for all descriptions.
- `RoundTrip` compares the bytes of a capture with what the parser makes of its description:
  a proof has to follow the parser through every token the describer writes for each type of
  layer. `PacketsInv` has the types for it; the values are not proved.

## 5. Not modelled, and the plan

Left out for good: output, name resolution, interface tables, memory locking,
memory that runs out, the ranges of option values, white space and case in
descriptions, the functions of `sbignum.c` that no command calls. IPv6 is
skipped by the receive path.

Left for later, in this order:

1. `RecvHandlers` (`script.c`): the table of capture handles of the Tcl
   bindings and its eviction.
2. The parser of the port list and the report of the scanner.
3. The contents of the packets of the senders, and clock skew.

Theorems to come: `ReadsBack`, with its exceptions named, from the theorems about
checksums and those about the dissector; then `RoundTrip`.
