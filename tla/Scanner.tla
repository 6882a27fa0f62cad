------------------------------- MODULE Scanner -------------------------------
(***************************************************************************)
(* The port scanner: scan_run() and what it calls (scan.c).  One thread    *)
(* sends the probes, round after round, and reads the replies; how long it *)
(* waits for them depends on the replies it got.                           *)
(*                                                                         *)
(* Time is relative, so that it needs no bound: where the code stores a    *)
(* moment (next_send_us, round_pause_until_us, sent_us, start_us), the     *)
(* model stores how far it is from the clock.  One unit is a microsecond   *)
(* and Milli of them a millisecond.                                        *)
(***************************************************************************)
EXTENDS Integers, FiniteSets

CONSTANTS
  MaxPort,     \* 65535: ports are 0 .. MaxPort
  Probes,      \* opt_scan_probes: 8
  Interval,    \* hping_send_interval_us() at the start; 0 without -i
  Slow,        \* 10: the factor of a slow-down
  Milli,       \* 1000: microseconds in a millisecond
  HalfSecond,  \* 500000
  Second,      \* 1000000
  Uptime,      \* what the clock shows, in milliseconds
  Strays,      \* ports that may seem to answer before they were probed
  MaxAge       \* bound: an answer comes within MaxAge of a probe, or never

Ports == 0 .. MaxPort

ASSUME ScannerAssumption ==
  /\ {MaxPort, Interval, Uptime, HalfSecond} \subseteq Nat
  /\ {Slow, Milli, Second} \subseteq Nat \ {0}
  /\ Probes \in Nat /\ Probes >= 3
  /\ MaxAge \in Nat /\ MaxAge >= Second
  /\ Strays \subseteq Ports

VARIABLES
  selected,            \* the ports of --scan, which no action changes
  active, retry, age,  \* the port table; age is the time since sent_us
  round, next_port, probed_this_round,
  interval_us,
  send_in,             \* until next_send_us
  pause,               \* until round_pause_until_us; -1 when there is none
  finishing,
  elapsed,             \* since start_us, as far as it matters
  avrgcount,
  avrgtotal,           \* avrgms * avrgcount
  pc,                  \* "step", "wait", "read", "done"
  stop_reason, sig_stop, wake

table   == <<active, retry, age>>
rounds  == <<round, next_port, probed_this_round, interval_us, finishing>>
timers  == <<send_in, pause, elapsed>>
average == <<avrgcount, avrgtotal>>
signals == <<sig_stop, wake>>
vars == <<selected, table, rounds, timers, average, pc, stop_reason, signals>>

\* scan_setup(): every selected port has all its probes left.
Init ==
  /\ selected \in SUBSET Ports
  /\ active = [p \in Ports |-> p \in selected]
  /\ retry = [p \in Ports |-> IF p \in selected THEN Probes ELSE 0]
  /\ age = [p \in Ports |-> 0]
  /\ round = 1 /\ next_port = 0 /\ probed_this_round = 0
  /\ interval_us = Interval /\ finishing = FALSE
  /\ send_in = 0 /\ pause = -1 /\ elapsed = 0
  /\ avrgcount = 0 /\ avrgtotal = 0
  /\ pc = "step" /\ stop_reason = "NONE"
  /\ sig_stop = FALSE /\ wake = FALSE

-----------------------------------------------------------------------------
(* The clock and the signals.                                              *)

Elapse(d, bound) == IF d < bound THEN d + 1 ELSE d
CountDown(d) == IF d > 0 THEN d - 1 ELSE d

\* A selected port was probed at least once.
Probed(p) == p \in selected /\ retry[p] < Probes

\* Time passes, also while the process is delayed at any point.
Tick ==
  /\ pc # "done"
  /\ age' = [p \in Ports |-> IF active[p] /\ Probed(p)
                             THEN Elapse(age[p], MaxAge + 1) ELSE age[p]]
  /\ send_in' = CountDown(send_in)
  /\ pause' = CountDown(pause)
  /\ elapsed' = Elapse(elapsed, HalfSecond + 1)
  /\ UNCHANGED <<selected, active, retry, rounds, average, pc, stop_reason,
                 signals>>

\* SIGINT or SIGTERM: flag and byte in the pipe.
SignalStop ==
  /\ ~ sig_stop /\ pc # "done"
  /\ sig_stop' = TRUE /\ wake' = TRUE
  /\ UNCHANGED <<selected, table, rounds, timers, average, pc, stop_reason>>

\* ctrl+z wakes the loop, which has no use for it.
SignalTstp ==
  /\ pc # "done"
  /\ wake' = TRUE
  /\ UNCHANGED <<selected, table, rounds, timers, average, pc, stop_reason,
                 sig_stop>>

-----------------------------------------------------------------------------
(* scan_step().                                                            *)

\* A bug: the flag of the signal handler is not looked at.
StopRequested_Reason == stop_reason # "NONE"

StopRequested == stop_reason # "NONE" \/ sig_stop

Stop(reason) ==
  /\ stop_reason' = IF stop_reason = "NONE" THEN reason ELSE stop_reason
  /\ pc' = "done"

\* The loop of scan_run() ends when a stop was requested.
Leave ==
  /\ pc = "step" /\ StopRequested
  /\ pc' = "done"
  /\ UNCHANGED <<selected, table, rounds, timers, average, stop_reason, signals>>

Running == pc = "step" /\ ~ StopRequested

\* The round pause, or the interval between probes, is not over.
NotDue ==
  /\ Running
  /\ pause > 0 \/ (~ (pause = 0 /\ finishing) /\ send_in > 0)
  /\ pause' = IF pause > 0 THEN pause ELSE -1
  /\ pc' = "wait"
  /\ UNCHANGED <<selected, table, rounds, send_in, elapsed, average,
                 stop_reason, signals>>

\* The final second for late replies is over.
Finish ==
  /\ Running /\ pause = 0 /\ finishing
  /\ pause' = -1
  /\ Stop("COUNT")
  /\ UNCHANGED <<selected, table, rounds, send_in, elapsed, average, signals>>

\* Time to look for the next port of the round.
Due == Running /\ pause <= 0 /\ ~ (pause = 0 /\ finishing) /\ send_in = 0

\* A bug: a port without retries left is probed once more.
Wanted_Again(p) == p >= next_port /\ active[p]

Wanted(p) == p >= next_port /\ active[p] /\ retry[p] > 0

NextPort(p) == Wanted(p) /\ \A q \in Ports : q < p => ~ Wanted(q)

\* scan_send_probe(); when send_tcp() fails the scan ends.
SendProbe(p, ok) ==
  /\ Due /\ NextPort(p)
  /\ retry' = [retry EXCEPT ![p] = @ - 1]
  /\ age' = [age EXCEPT ![p] = 0]
  /\ next_port' = p + 1
  /\ probed_this_round' = probed_this_round + 1
  /\ pause' = -1
  /\ IF ok THEN /\ send_in' = interval_us
                /\ pc' = "wait" /\ UNCHANGED stop_reason
           ELSE Stop("ERROR") /\ UNCHANGED send_in
  /\ UNCHANGED <<selected, active, round, interval_us, finishing, elapsed,
                 average, signals>>

\* Some port answered that had probes left.
Received == \E p \in Ports : ~ active[p] /\ retry[p] > 0

RoundOver == Due /\ \A p \in Ports : ~ Wanted(p)

\* A bug: an average of less than a millisecond is waited for as it is.
RoundPause_Counted ==
  IF round >= 3
  THEN IF avrgcount # 0 THEN (avrgtotal * Milli) \div avrgcount ELSE Second
  ELSE -1

\* After the third round, an average round trip time or a second.
RoundPause ==
  IF round >= 3
  THEN IF avrgtotal # 0 THEN (avrgtotal * Milli) \div avrgcount ELSE Second
  ELSE -1

TooFast ==
  \/ ~ Received /\ interval_us = 0 /\ elapsed > HalfSecond
  \/ Probes - round <= 2

\* A bug: the next round begins behind the first port.
FirstPort_Second == 1

FirstPort == 0

\* scan_round_done(), when the round has probed something.
NextRound ==
  /\ RoundOver /\ probed_this_round > 0
  /\ pause' = RoundPause
  /\ interval_us' = IF TooFast THEN interval_us * Slow + 1 ELSE interval_us
  /\ round' = round + 1
  /\ next_port' = FirstPort
  /\ probed_this_round' = 0
  /\ pc' = "wait"
  /\ UNCHANGED <<selected, table, finishing, send_in, elapsed, average,
                 stop_reason, signals>>

\* scan_round_done(), when it has not: every port has answered or has no
\* probes left.  If none answered, late replies get another second.
LastRound ==
  /\ RoundOver /\ probed_this_round = 0
  /\ next_port' = MaxPort + 1
  /\ IF ~ Received /\ ~ finishing
     THEN /\ finishing' = TRUE
          /\ pause' = Second
          /\ pc' = "wait" /\ UNCHANGED stop_reason
     ELSE /\ pause' = -1
          /\ Stop("COUNT") /\ UNCHANGED finishing
  /\ UNCHANGED <<selected, table, round, probed_this_round, interval_us,
                 send_in, elapsed, average, signals>>

-----------------------------------------------------------------------------
(* Waiting and reading.                                                    *)

Deadline == IF pause # -1 THEN pause ELSE send_in

\* A bug: a deadline that has passed is a negative timeout, which is endless.
TimeUp_Endless == 0 < Deadline /\ Deadline < Milli

TimeUp == Deadline < Milli

\* poll() has returned and the pipe is drained.  (The return with EINTR,
\* which leaves the byte, leads to no state of its own: another signal may
\* have left one.)
Wakes(next) ==
  /\ pc = "wait"
  /\ wake' = FALSE
  /\ pc' = next
  /\ UNCHANGED <<selected, table, rounds, timers, average, stop_reason,
                 sig_stop>>

PollFrame == Wakes("read")

\* The deadline, rounded down to milliseconds, or a signal.
PollNoFrame == (wake \/ TimeUp) /\ Wakes("step")

PollError ==
  /\ pc = "wait" /\ Stop("ERROR")
  /\ UNCHANGED <<selected, table, rounds, timers, average, signals>>

\* A reply of port p may arrive: it was probed, or it is a stray.
MayAnswer(p) ==
  IF Probed(p) THEN age[p] <= MaxAge ELSE p \in Strays

\* The time since the last probe, in milliseconds; sent_us of a port that
\* was never probed is 0, so that its reply is as old as the clock.
Rtt(p) == IF Probed(p) THEN age[p] \div Milli ELSE Uptime

\* A TCP reply updates the average, whose last term is an integer division.
ReplyTcp(p) ==
  LET n == avrgcount + 1
  IN  /\ avrgcount' = n
      /\ avrgtotal' = avrgtotal + n * (Rtt(p) \div n)

\* scan_process_packet(): a reply closes its port; an ICMP error does too,
\* without a sample.
ReadReply(p) ==
  /\ pc = "read" /\ active[p] /\ MayAnswer(p)
  /\ active' = [active EXCEPT ![p] = FALSE]
  /\ ReplyTcp(p) \/ UNCHANGED average
  /\ pc' = "step"
  /\ UNCHANGED <<selected, retry, age, rounds, timers, stop_reason, signals>>

\* A frame that is not for us, or of a port that is not active.
ReadOther ==
  /\ pc = "read" /\ pc' = "step"
  /\ UNCHANGED <<selected, table, rounds, timers, average, stop_reason, signals>>

\* The capture is lost.
ReadEnd ==
  /\ pc = "read" /\ pc' = "step"
  /\ stop_reason' = IF stop_reason = "NONE" THEN "EOF" ELSE stop_reason
  /\ UNCHANGED <<selected, table, rounds, timers, average, signals>>

-----------------------------------------------------------------------------
Loop ==
  \/ Leave \/ NotDue \/ Finish \/ NextRound \/ LastRound
  \/ \E p \in Ports : \/ \E ok \in BOOLEAN : SendProbe(p, ok)
                      \/ ReadReply(p)
  \/ PollFrame \/ PollNoFrame \/ PollError
  \/ ReadOther \/ ReadEnd

Finished == pc = "done" /\ UNCHANGED vars

Next == Loop \/ Tick \/ SignalStop \/ SignalTstp \/ Finished

Spec == Init /\ [][Next]_vars

\* What the environment may do to the loop, and never has to.
Unowed == PollFrame \/ PollError \/ \E p \in Ports : SendProbe(p, FALSE)

\* The process is scheduled, and time passes.  No reply, no signal and no
\* failure is owed to anybody.
FairSpec == Spec /\ WF_vars(Loop /\ ~ Unowed) /\ WF_vars(Tick)

-----------------------------------------------------------------------------
(* Correctness.                                                            *)

\* The types; no port has less than no probes left, no pause is shorter than
\* none, and the average of scan_process_packet() never falls below zero.
TypeOK ==
  /\ selected \subseteq Ports
  /\ active \in [Ports -> BOOLEAN]
  /\ retry \in [Ports -> 0 .. Probes]
  /\ age \in [Ports -> 0 .. MaxAge + 1]
  /\ round \in Nat \ {0} /\ next_port \in 0 .. MaxPort + 1
  /\ probed_this_round \in 0 .. MaxPort + 1
  /\ interval_us \in Nat /\ send_in \in Nat
  /\ pause \in Nat \cup {-1} /\ elapsed \in Nat
  /\ finishing \in BOOLEAN
  /\ avrgcount \in Nat /\ avrgtotal \in Nat
  /\ pc \in {"step", "wait", "read", "done"}
  /\ stop_reason \in {"NONE", "COUNT", "EOF", "ERROR"}
  /\ sig_stop \in BOOLEAN /\ wake \in BOOLEAN

(***************************************************************************)
(* A scan that is complete (scan_finish_report()) has given every port it  *)
(* reports as not responding its chance: all its probes were sent and, when*)
(* no reply has given an average, the last of them at least a second ago.  *)
(***************************************************************************)
LastChance ==
  stop_reason = "COUNT" =>
    \A p \in selected :
      active[p] => /\ retry[p] = 0
                   /\ avrgtotal = 0 => age[p] >= Second

\* The rounds of scan_step() and scan_round_done() implement the survey.
Answers == INSTANCE Survey
  WITH asked <- [p \in Ports |-> IF p \in selected THEN Probes - retry[p] ELSE 0],
       silent <- {p \in Ports : active[p]},
       complete <- stop_reason = "COUNT"

SurveySpec == Answers!Spec

\* Whatever comes in or stays away, the loop of scan_run() comes to its end.
Terminates == <>(pc = "done")

\* The scan does not go to sleep on a stop signal: a signal that comes after
\* the look at the flag leaves a byte that the wait finds.
SignalHeard == pc = "wait" /\ sig_stop => wake
=============================================================================
