------------------------------- MODULE Session -------------------------------
(***************************************************************************)
(* The life of the process (src/src/main.c, src/src/parseoptions.c:        *)
(* parse_options(), src/src/lifecycle.c: hping_init(), hping_run(),        *)
(* hping_destroy(), src/src/arsglue.c: hping_ars_send()): what a command   *)
(* line turns on, what is opened, in which order, what fails on the way,   *)
(* what is closed, and the exit status.  A signal may come between any two *)
(* steps.  Sending is that of Fragmentation; the loops, each modelled in a *)
(* module of its own, appear here by what they do to the stop reason.      *)
(*                                                                         *)
(* A command line is the set of the options on it, with one value each.    *)
(* Memory is left out: what the process keeps is its descriptors and its   *)
(* signal handlers.                                                        *)
(***************************************************************************)
EXTENDS Fragmentation, FiniteSets, Functions

CONSTANTS
  Commands,    \* the command lines: sets of options
  DataSize,    \* the value of --data
  SignLen,     \* the length of the signature
  VirtualMtu,  \* the value of --mtu
  MaxProbes,   \* bound: packets of a session; also the value of --count
  MaxSignals   \* bound: signals that arrive

Options ==
  {"host", "help", "invalid", "apd_send", "dry_run", "read", "listen", "scan",
   "flood", "safe", "file", "sign", "data", "id", "count", "interface",
   "rand_dest", "rand_source", "frag", "mtu", "rroute", "unbind",
   "tcpexitcode"}

ASSUME SessionAssumption ==
  /\ Commands \subseteq SUBSET Options
  /\ {DataSize, SignLen, MaxSignals} \subseteq Nat
  /\ VirtualMtu \in VirtualMtus
  /\ MaxProbes \in Nat \ {0}

VARIABLES
  command,            \* the options on the command line
  pc,                 \* where the process is
  remote,             \* ctx.remote: "unset", "target", "random"
  sockraw, pcapfp,    \* ctx.sockraw, ctx.pcapfp: descriptors, or -1
  wake_fd,            \* ctx.wake_fd: the two ends of the pipe, or -1
  signals_installed,  \* ctx.signals_installed
  sig_stop,           \* SIGINT or SIGTERM was delivered to on_signal()
  stop_reason,        \* ctx.stop_reason
  ars_socket,         \* the socket of hping_ars_send()
  stats,              \* probes sent, and whether a reply was received
  packets,            \* packets begun, whatever became of them
  status,             \* the exit status, so far
  open,               \* the kernel: the open descriptors and their kind
  handlers,           \* the kernel: the signals on_signal() is installed for
  signals,            \* signals still to arrive
  caught,             \* history: on_signal() ran
  failed,             \* history: something went wrong
  sent_to             \* history: where datagrams have gone

resources == <<sockraw, pcapfp, wake_fd, signals_installed, ars_socket, open,
               handlers>>
results   == <<stop_reason, stats, status, failed>>
arrivals  == <<sig_stop, signals, caught>>
history   == <<packets, sent_to>>
vars == <<command, pc, remote, resources, results, arrivals, history, fragVars>>

Has(option) == option \in command

Mode == IF Has("listen") THEN "listen"
        ELSE IF Has("scan") THEN "scan"
        ELSE IF Has("flood") THEN "flood"
        ELSE "main"

NONE == -1

\* hping_config_init() and hping_context_init(), then main().
SessionInit ==
  /\ FragmentationInit
  /\ command \in Commands
  /\ pc = "parse"
  /\ remote = "unset"
  /\ sockraw = NONE /\ pcapfp = NONE /\ wake_fd = <<NONE, NONE>>
  /\ signals_installed = FALSE
  /\ sig_stop = FALSE /\ stop_reason = "NONE"
  /\ ars_socket = NONE
  /\ stats = [sent |-> 0, received |-> FALSE]
  /\ status = 0
  /\ open = <<>> /\ handlers = {}
  /\ signals = MaxSignals
  /\ packets = 0
  /\ caught = FALSE /\ failed = FALSE /\ sent_to = {}

-----------------------------------------------------------------------------
(* The kernel: a new descriptor is the lowest that is free.                *)

Descriptors == 3 .. 9

Lowest(free) == CHOOSE fd \in free : \A other \in free : fd <= other
NewFd  == Lowest(Descriptors \ DOMAIN open)
NextFd == Lowest(Descriptors \ (DOMAIN open \cup {NewFd}))

Opened(fds, kind) ==
  [fd \in DOMAIN open \cup fds |-> IF fd \in fds THEN kind ELSE open[fd]]
Closed(fd) == Restrict(open, DOMAIN open \ {fd})

-----------------------------------------------------------------------------
(* parse_options().                                                        *)

DataLength == IF Has("data") THEN DataSize ELSE 0

(***************************************************************************)
(* What the options must not ask for together.  A value out of range, two  *)
(* targets, an unknown option and the like are "invalid".                  *)
(***************************************************************************)
UsageError ==
  \/ ~ Has("host") /\ Has("listen") /\ Has("safe")
  \/ ~ Has("host") /\ ~ Has("listen") /\ ~ Has("apd_send")
  \/ DataLength + IPHDR_SIZE + 20 > 65535
  \/ Has("file") /\ DataLength = 0
  \/ Has("sign") /\ DataLength # 0 /\ SignLen > DataLength
  \/ (Has("sign") \/ Has("listen")) /\ SignLen > 1024
  \/ Has("safe") /\ Has("id")
  \/ Has("safe") /\ ~ Has("listen") /\ ~ (Has("file") /\ Has("sign"))
  \/ Has("rand_dest") /\ ~ Has("interface")

\* The fields of cfg that concern sending.
Accepted ==
  [cfg EXCEPT !.opt_fragment = Has("frag") \/ Has("mtu"),
              !.virtual_mtu = IF Has("mtu") THEN VirtualMtu ELSE @,
              !.src_id = IF Has("safe") THEN 1 ELSE IF Has("id") THEN 7 ELSE @,
              !.opt_safe = Has("safe"),
              !.opt_dry_run = Has("dry_run"),
              !.routes.opt_rroute = Has("rroute")]

Fails == status' = 1 /\ failed' = TRUE
Exits == pc' = "exit"

ParseOptions ==
  /\ pc = "parse"
  /\ \/ Has("help") /\ Exits /\ UNCHANGED <<cfg, status, failed>>
     \/ (UsageError \/ Has("invalid")) /\ Exits /\ Fails /\ UNCHANGED cfg
     \/ /\ ~ UsageError /\ ~ Has("invalid") /\ ~ Has("help")
        /\ cfg' = Accepted
        /\ pc' = IF Has("apd_send") THEN "apd_open" ELSE "resolve"
        /\ UNCHANGED <<status, failed>>
  /\ UNCHANGED <<command, remote, resources, stop_reason, stats, arrivals,
                 history, h_if_mtu, eof_reached, datagram>>

-----------------------------------------------------------------------------
(* hping_ars_send(): --apd-send, before any option of the session counts.  *)

ApdOpen ==
  /\ pc = "apd_open"
  /\ \/ /\ ars_socket' = NewFd /\ open' = Opened({NewFd}, "raw")
        /\ pc' = "apd_send"
        /\ UNCHANGED <<status, failed>>
     \/ Fails /\ pc' = "restore" /\ UNCHANGED <<ars_socket, open>>
  /\ UNCHANGED <<command, remote, sockraw, pcapfp, wake_fd, signals_installed,
                 handlers, stop_reason, stats, arrivals, history, fragVars>>

\* The description is built, compiled and sent to the address it names.
ApdSend ==
  /\ pc = "apd_send"
  /\ \/ sent_to' = sent_to \cup {"described"} /\ UNCHANGED <<status, failed>>
     \/ Fails /\ UNCHANGED sent_to
  /\ pc' = "apd_close"
  /\ UNCHANGED <<command, remote, resources, stop_reason, stats, arrivals,
                 packets, fragVars>>

ApdClose ==
  /\ pc = "apd_close"
  /\ open' = Closed(ars_socket) /\ ars_socket' = NONE
  /\ pc' = "restore"
  /\ UNCHANGED <<command, remote, sockraw, pcapfp, wake_fd, signals_installed,
                 handlers, results, arrivals, history, fragVars>>

-----------------------------------------------------------------------------
(* hping_init(): one stage after the other; the first that fails leaves    *)
(* what is open to hping_destroy().                                        *)

\* A bug: the flags are cleared when the handlers are in place.
After_FlagsLast ==
  [resolve |-> "interface", interface |-> "socket", socket |-> "capture",
   capture |-> "activate", activate |-> "addresses", addresses |-> "pipe",
   pipe |-> "sigint", sigint |-> "sigterm", sigterm |-> "flags",
   flags |-> "sigtstp", sigtstp |-> "setup"]

After ==
  [resolve |-> "interface", interface |-> "socket", socket |-> "capture",
   capture |-> "activate", activate |-> "addresses", addresses |-> "pipe",
   pipe |-> "flags", flags |-> "sigint", sigint |-> "sigterm",
   sigterm |-> "sigtstp", sigtstp |-> "setup"]

Proceeds == pc' = After[pc]

\* ctx.remote is not resolved for these.
Unresolved == Has("listen") \/ Has("safe") \/ Has("rand_dest")

\* A bug: --read opens the raw socket as well.
NeedsSocket_Read == ~ Has("dry_run")

NeedsSocket == ~ Has("dry_run") /\ ~ Has("read")

NeedsCapture == ~ Has("dry_run")

\* A stage returns -1 with nothing of its own left open.
StageFails ==
  /\ \/ pc = "resolve" /\ ~ Unresolved
     \/ pc = "socket" /\ NeedsSocket
     \/ pc = "capture" /\ NeedsCapture
     \/ pc \in {"interface", "addresses", "pipe"}
  /\ pc' = "restore" /\ Fails
  /\ UNCHANGED <<command, remote, resources, stop_reason, stats, arrivals,
                 history, fragVars>>

\* The target is resolved, or taken as it is.
Resolve ==
  /\ pc = "resolve" /\ Proceeds
  /\ remote' = IF Unresolved THEN remote ELSE "target"
  /\ UNCHANGED <<command, resources, results, arrivals, history, fragVars>>

\* get_if_name(): its sockets are closed again on every path.
GetIfName ==
  /\ pc = "interface" /\ Proceeds
  /\ h_if_mtu' \in Mtus
  /\ UNCHANGED <<command, remote, resources, results, arrivals, history, cfg,
                 eof_reached, datagram>>

OpenSockraw ==
  /\ pc = "socket" /\ Proceeds
  /\ IF NeedsSocket
     THEN sockraw' = NewFd /\ open' = Opened({NewFd}, "raw")
     ELSE UNCHANGED <<sockraw, open>>
  /\ UNCHANGED <<command, remote, pcapfp, wake_fd, signals_installed,
                 ars_socket, handlers, results, arrivals, history, fragVars>>

\* open_pcap(): the savefile, or a handle on the interface.
OpenPcap ==
  /\ pc = "capture" /\ Proceeds
  /\ IF NeedsCapture
     THEN pcapfp' = NewFd /\ open' = Opened({NewFd}, "pcap")
     ELSE UNCHANGED <<pcapfp, open>>
  /\ UNCHANGED <<command, remote, sockraw, wake_fd, signals_installed,
                 ars_socket, handlers, results, arrivals, history, fragVars>>

\* A bug: the handle is closed and kept.
ActivateFails_Stale ==
  /\ pc = "activate" /\ NeedsCapture /\ ~ Has("read")
  /\ open' = Closed(pcapfp)
  /\ pc' = "restore" /\ Fails
  /\ UNCHANGED <<command, remote, sockraw, pcapfp, wake_fd, signals_installed,
                 ars_socket, handlers, stop_reason, stats, arrivals, history,
                 fragVars>>

\* The live handle cannot be configured, activated or made non blocking.
ActivateFails ==
  /\ pc = "activate" /\ NeedsCapture /\ ~ Has("read")
  /\ open' = Closed(pcapfp) /\ pcapfp' = NONE
  /\ pc' = "restore" /\ Fails
  /\ UNCHANGED <<command, remote, sockraw, wake_fd, signals_installed,
                 ars_socket, handlers, stop_reason, stats, arrivals, history,
                 fragVars>>

\* get_linkhdr_size() knows the link layer type, or not.
LinkHeader ==
  /\ pc = "activate"
  /\ \/ Proceeds /\ UNCHANGED <<status, failed>>
     \/ NeedsCapture /\ pc' = "restore" /\ Fails
  /\ UNCHANGED <<command, remote, resources, stop_reason, stats, arrivals,
                 history, fragVars>>

\* The addresses of the source and of the ICMP options; the source port.
ResolveLocal ==
  /\ pc = "addresses" /\ Proceeds
  /\ UNCHANGED <<command, remote, resources, results, arrivals, history,
                 fragVars>>

Pipe ==
  /\ pc = "pipe" /\ Proceeds
  /\ wake_fd' = <<NewFd, NextFd>> /\ open' = Opened({NewFd, NextFd}, "pipe")
  /\ UNCHANGED <<command, remote, sockraw, pcapfp, signals_installed,
                 ars_socket, handlers, results, arrivals, history, fragVars>>

ResetFlags ==
  /\ pc = "flags" /\ Proceeds
  /\ sig_stop' = FALSE
  /\ UNCHANGED <<command, remote, resources, results, signals, caught, history,
                 fragVars>>

(***************************************************************************)
(* install_handler(), for SIGINT, SIGTERM and, unless it is unbound,       *)
(* SIGTSTP.  sigaction() does not fail on these.                           *)
(***************************************************************************)
InstallHandler ==
  /\ pc \in {"sigint", "sigterm", "sigtstp"} /\ Proceeds
  /\ handlers' = CASE pc = "sigint"  -> handlers \cup {"SIGINT"}
                   [] pc = "sigterm" -> handlers \cup {"SIGTERM"}
                   [] OTHER -> IF Has("unbind") THEN handlers
                               ELSE handlers \cup {"SIGTSTP"}
  /\ signals_installed' = (pc = "sigtstp")
  /\ UNCHANGED <<command, remote, sockraw, pcapfp, wake_fd, ars_socket, open,
                 results, arrivals, history, fragVars>>

HpingInit ==
  \/ StageFails \/ Resolve \/ GetIfName \/ OpenSockraw \/ OpenPcap
  \/ ActivateFails \/ LinkHeader \/ ResolveLocal
  \/ Pipe \/ ResetFlags \/ InstallHandler

-----------------------------------------------------------------------------
(* hping_run(): the loops, by what they may do to the stop reason.         *)

Stopping(reason) == IF stop_reason = "NONE" THEN reason ELSE stop_reason

\* hping_stop_requested()
StopRequested == stop_reason # "NONE" \/ sig_stop

\* all_probes_sent()
AllProbesSent(st) == Has("count") /\ st.sent >= MaxProbes

Running == pc = "run" /\ ~ StopRequested

\* scan_setup() refuses the list of ports or finds no memory.
Setup ==
  /\ pc = "setup"
  /\ \/ pc' = "run" /\ UNCHANGED <<status, failed>>
     \/ Mode = "scan" /\ pc' = "restore" /\ Fails
  /\ UNCHANGED <<command, remote, resources, stop_reason, stats, arrivals,
                 history, fragVars>>

\* The end of a loop; the flag of a signal becomes the stop reason in two.
LoopEnds ==
  /\ pc = "run" /\ StopRequested
  /\ stop_reason' = IF sig_stop /\ Mode \in {"main", "flood"}
                    THEN Stopping("SIGNAL") ELSE stop_reason
  /\ pc' = "finish"
  /\ UNCHANGED <<command, remote, resources, stats, status, failed, arrivals,
                 history, fragVars>>

\* scan_run() notes a failure in the value that it returns.
Failing ==
  /\ stop_reason' = Stopping("ERROR")
  /\ status' = IF Mode = "scan" THEN 1 ELSE status
  /\ failed' = TRUE

Payload == IPHDR_SIZE + IF Has("data") THEN DataSize
                        ELSE IF Has("sign") THEN SignLen ELSE 0

(***************************************************************************)
(* send_packet(), or send_tcp() for the scanner, which knows no random     *)
(* destination; with a file, data_handler() may reach its end.             *)
(***************************************************************************)
BeginPacket(n) ==
  /\ packets < MaxProbes /\ packets' = packets + 1
  /\ SendIpHandler(n)
  /\ remote' = IF Has("rand_dest") /\ Mode # "scan" THEN "random" ELSE remote
  /\ pc' = "sending"
  /\ UNCHANGED <<command, resources, results, arrivals, sent_to>>

SendProbe ==
  /\ Running /\ Mode # "listen"
  /\ Mode = "main" => ~ Has("read") /\ ~ AllProbesSent(stats)
  /\ BeginPacket(Payload)

ReachEnd ==
  /\ Running /\ Has("file") /\ ~ eof_reached
  /\ EndOfFile
  /\ UNCHANGED <<command, pc, remote, resources, results, arrivals, history>>

\* A packet cannot be built.
BuildFails ==
  /\ Running /\ Mode # "listen"
  /\ Mode = "main" => ~ Has("read") /\ ~ AllProbesSent(stats)
  /\ Failing /\ pc' = "finish"
  /\ UNCHANGED <<command, remote, resources, stats, arrivals, history, fragVars>>

(***************************************************************************)
(* One datagram of the packet: printed, or given to the raw socket, if     *)
(* there is one.  The errors of random addresses are forgiven, and EINTR.  *)
(***************************************************************************)
SendDatagram ==
  /\ pc = "sending"
  /\ \E result \in Outcomes :
       /\ result = "sent" => cfg.opt_dry_run \/ sockraw # NONE
       /\ result = "lost" =>
            Has("rand_dest") \/ Has("rand_source") \/ sig_stop
       /\ SendWhole(result) \/ SendPiece(result) \/ SendLast(result)
       /\ sent_to' = IF result = "sent" /\ ~ cfg.opt_dry_run
                     THEN sent_to \cup {remote} ELSE sent_to
  /\ UNCHANGED <<command, pc, remote, resources, results, arrivals, packets>>

\* The loops stop when a packet could not be sent, the listener does not.
SendReturns ==
  /\ pc = "sending" /\ handler = "idle"
  /\ \/ /\ rc = 0
        /\ stats' = IF Mode = "scan" THEN stats ELSE [stats EXCEPT !.sent = @ + 1]
        /\ stop_reason' = IF Mode = "flood" /\ AllProbesSent(stats')
                          THEN Stopping("SENT") ELSE stop_reason
        /\ pc' = IF stop_reason' = "SENT" THEN "finish" ELSE "run"
        /\ UNCHANGED <<status, failed>>
     \/ /\ rc = -1 /\ Mode # "listen"
        /\ Failing /\ pc' = "finish"
        /\ UNCHANGED stats
     \/ /\ rc = -1 /\ Mode = "listen"
        /\ pc' = "run"
        /\ UNCHANGED results
  /\ UNCHANGED <<command, remote, resources, arrivals, history, fragVars>>

\* The late reply timeout, or the last port of a scan.
LoopDone ==
  /\ Running
  /\ \/ /\ Mode = "main" /\ ~ Has("read") /\ AllProbesSent(stats)
        /\ stop_reason' = Stopping("SENT")
     \/ /\ Mode = "scan"
        /\ stop_reason' = Stopping("COUNT")
  /\ pc' = "finish"
  /\ UNCHANGED <<command, remote, resources, stats, status, failed, arrivals,
                 history, fragVars>>

\* The modes that look at the capture handle.
Reading ==
  /\ Running
  /\ Mode \in {"listen", "scan"} \cup IF Has("dry_run") THEN {} ELSE {"main"}

WaitFails ==
  /\ Reading
  /\ Failing /\ pc' = "finish"
  /\ UNCHANGED <<command, remote, resources, stats, arrivals, history, fragVars>>

\* A turn of a loop that finds nothing to do.
IdleTurn == Running /\ UNCHANGED vars

\* The capture has no more frames, has failed, or was never opened.
CaptureEnds ==
  /\ Reading
  /\ stop_reason' = Stopping("EOF")
  /\ UNCHANGED <<command, pc, remote, resources, stats, status, failed,
                 arrivals, history, fragVars>>

\* A reply; it may be the one that completes --count.
ReadReply ==
  /\ Reading /\ pcapfp # NONE /\ Mode \in {"main", "scan"}
  /\ stats' = [stats EXCEPT !.received = (Mode = "main")]
  /\ stop_reason' \in {stop_reason} \cup
       IF Mode = "main" /\ Has("count") THEN {Stopping("COUNT")} ELSE {}
  /\ UNCHANGED <<command, pc, remote, resources, status, failed, arrivals,
                 history, fragVars>>

\* listen_run(): a datagram cannot be written.
WriteFails ==
  /\ Reading /\ pcapfp # NONE /\ Mode = "listen"
  /\ Failing
  /\ UNCHANGED <<command, pc, remote, resources, stats, arrivals, history,
                 fragVars>>

\* listen_run(): one out of sequence is answered, by send_hcmp().
SendHcmp ==
  /\ Reading /\ pcapfp # NONE /\ Mode = "listen" /\ Has("safe")
  /\ BeginPacket(IPHDR_SIZE + SignLen + 8)

\* A bug: the exit code of the replies, whatever ended the loop.
ExitStatus_Replies ==
  IF Mode = "scan" THEN {status}
  ELSE IF Has("tcpexitcode") THEN IF stats.received THEN {0, 18} ELSE {0}
  ELSE IF Has("dry_run") \/ stats.received THEN {0} ELSE {1}

(***************************************************************************)
(* The end of hping_run(), and hping_exit_code(): the flags of the last    *)
(* TCP reply, or whether there was a reply.                                *)
(***************************************************************************)
ExitStatus ==
  IF Mode = "scan" THEN {status}
  ELSE IF stop_reason = "ERROR" THEN {1}
  ELSE IF Has("tcpexitcode") THEN IF stats.received THEN {0, 18} ELSE {0}
  ELSE IF Has("dry_run") \/ stats.received THEN {0} ELSE {1}

Finish ==
  /\ pc = "finish"
  /\ status' \in ExitStatus
  /\ pc' = "restore"
  /\ UNCHANGED <<command, remote, resources, stop_reason, stats, failed,
                 arrivals, history, fragVars>>

HpingRun ==
  \/ Setup \/ LoopEnds \/ SendProbe \/ ReachEnd \/ BuildFails \/ SendDatagram
  \/ SendReturns \/ LoopDone \/ WaitFails \/ CaptureEnds \/ ReadReply
  \/ WriteFails \/ SendHcmp \/ IdleTurn \/ Finish

-----------------------------------------------------------------------------
(* hping_destroy().                                                        *)

\* hping_signals_restore(): the handlers first, if all were installed.
RestoreHandlers ==
  /\ pc = "restore"
  /\ handlers' = IF signals_installed THEN {} ELSE handlers
  /\ signals_installed' = FALSE
  /\ pc' = "close_wake"
  /\ UNCHANGED <<command, remote, sockraw, pcapfp, wake_fd, ars_socket, open,
                 results, arrivals, history, fragVars>>

\* One end of the pipe is closed, then forgotten.
CloseWake ==
  /\ pc = "close_wake"
  /\ \E i \in 1 .. 2 :
       /\ wake_fd[i] # NONE /\ (i = 2 => wake_fd[1] = NONE)
       /\ IF wake_fd[i] \in DOMAIN open
          THEN open' = Closed(wake_fd[i]) /\ UNCHANGED wake_fd
          ELSE wake_fd' = [wake_fd EXCEPT ![i] = NONE] /\ UNCHANGED open
  /\ UNCHANGED <<command, pc, remote, sockraw, pcapfp, signals_installed,
                 ars_socket, handlers, results, arrivals, history, fragVars>>

ClosePcap ==
  /\ pc = "close_wake" /\ wake_fd = <<NONE, NONE>>
  /\ open' = IF pcapfp # NONE THEN Closed(pcapfp) ELSE open
  /\ pcapfp' = NONE
  /\ pc' = "close_raw"
  /\ UNCHANGED <<command, remote, sockraw, wake_fd, signals_installed,
                 ars_socket, handlers, results, arrivals, history, fragVars>>

CloseSockraw ==
  /\ pc = "close_raw"
  /\ open' = IF sockraw # NONE THEN Closed(sockraw) ELSE open
  /\ sockraw' = NONE
  /\ Exits
  /\ UNCHANGED <<command, remote, pcapfp, wake_fd, signals_installed,
                 ars_socket, handlers, results, arrivals, history, fragVars>>

HpingDestroy == RestoreHandlers \/ CloseWake \/ ClosePcap \/ CloseSockraw

-----------------------------------------------------------------------------
(***************************************************************************)
(* A signal: on_signal(), or the default action.                           *)
(***************************************************************************)
Ended == pc \in {"exit", "killed"}

Signal(signo) ==
  /\ ~ Ended /\ signals > 0
  /\ signals' = signals - 1
  /\ IF signo \in handlers
     THEN sig_stop' = TRUE /\ caught' = TRUE /\ UNCHANGED <<pc, open, handlers>>
     ELSE /\ pc' = "killed" /\ open' = <<>> /\ handlers' = {}
          /\ UNCHANGED <<sig_stop, caught>>
  /\ UNCHANGED <<command, remote, sockraw, pcapfp, wake_fd, signals_installed,
                 ars_socket, results, history, fragVars>>

Rest == Ended /\ UNCHANGED vars

Process ==
  ParseOptions \/ ApdOpen \/ ApdSend \/ ApdClose
  \/ HpingInit \/ HpingRun \/ HpingDestroy

SessionNext == Process \/ (\E signo \in {"SIGINT", "SIGTERM"} : Signal(signo))
               \/ Rest

SessionSpec == SessionInit /\ [][SessionNext]_vars

(***************************************************************************)
(* The process is scheduled.  A frame is owed to nobody, nor is an error:  *)
(* without one a loop waits until the next probe, or for ever.             *)
(***************************************************************************)
Unowed == WaitFails \/ CaptureEnds \/ ReadReply \/ WriteFails \/ SendHcmp
          \/ ReachEnd

SessionFairSpec == SessionSpec /\ WF_vars(Process /\ ~ Unowed)

-----------------------------------------------------------------------------
(* Correctness.                                                            *)

Places == DOMAIN After \cup
  {"parse", "apd_open", "apd_send", "apd_close", "setup", "run", "sending",
   "finish", "restore", "close_wake", "close_raw", "exit", "killed"}

\* One type invariant: the process on top of Fragmentation's.
SessionTypeOK ==
  /\ FragmentationTypeOK
  /\ command \in SUBSET Options
  /\ pc \in Places
  /\ remote \in {"unset", "target", "random"}
  /\ {sockraw, pcapfp, ars_socket} \subseteq Descriptors \cup {NONE}
  /\ wake_fd \in [1 .. 2 -> Descriptors \cup {NONE}]
  /\ signals_installed \in BOOLEAN
  /\ sig_stop \in BOOLEAN /\ caught \in BOOLEAN /\ failed \in BOOLEAN
  /\ stop_reason \in {"NONE", "SIGNAL", "COUNT", "SENT", "EOF", "ERROR"}
  /\ stats \in [sent : Nat, received : BOOLEAN]
  /\ status \in {0, 1, 18}
  /\ DOMAIN open \subseteq Descriptors
  /\ handlers \subseteq {"SIGINT", "SIGTERM", "SIGTSTP"}
  /\ signals \in Nat /\ packets \in Nat
  /\ sent_to \subseteq {"unset", "target", "random", "described"}

(***************************************************************************)
(* lifecycle.c:7-12: partial initialisation, interruption and completion   *)
(* all end in hping_destroy().  Wherever hping_init() fails, a descriptor  *)
(* the process holds is open and of its kind, so that none is closed twice *)
(* or in the place of another; the handler never finds the end it writes   *)
(* to closed; and at the exit nothing is open and no handler left.         *)
(***************************************************************************)
Holds(fd, kind) == fd # NONE => fd \in DOMAIN open /\ open[fd] = kind

ReleasedOnce ==
  pc # "killed" =>
    /\ Holds(sockraw, "raw") /\ Holds(pcapfp, "pcap") /\ Holds(ars_socket, "raw")
    /\ pc # "close_wake" => \A i \in 1 .. 2 : Holds(wake_fd[i], "pipe")
    /\ handlers # {} => Holds(wake_fd[2], "pipe")
    /\ pc = "exit" => DOMAIN open = {} /\ handlers = {}

(***************************************************************************)
(* lifecycle.c:295-298: --dry-run builds packets but sends nothing, --read *)
(* sends nothing; neither needs the raw socket.  So it is in every mode    *)
(* they can be combined with, those that try to send included.             *)
(***************************************************************************)
OfflineIsSilent ==
  (Has("dry_run") \/ Has("read")) /\ ~ Has("apd_send") =>
    sent_to = {} /\ \A fd \in DOMAIN open : open[fd] # "raw"

\* styxwire.8:190-193: --dry-run prints the packets instead of sending them.
DryRunSendsNothing == Has("dry_run") => sent_to = {}

\* parseoptions.c:730-732: the safe protocol "needs a target for HCMP
\* packets", and the sender one for the file.
TargetIsKnown == "unset" \notin sent_to

\* main.c:33-34: a usage error, an initialisation that fails and a session
\* that ends on an error exit with 1, in every mode and whatever races it.
ErrorIsReported == pc = "exit" /\ failed => status = 1

\* A signal that on_signal() has seen ends the process, wherever it comes.
SignalEnds == caught ~> Ended
=============================================================================
