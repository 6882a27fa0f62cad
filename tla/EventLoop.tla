------------------------------ MODULE EventLoop ------------------------------
(***************************************************************************)
(* The event loop of a session (src/src/lifecycle.c: main_loop(),          *)
(* flood_loop(), pcap_io_wait(), the signal handlers) and the frame        *)
(* reader it calls (src/src/waitpacket.c: wait_packet()), driving the      *)
(* sending and receiving actions of Probing.                               *)
(*                                                                         *)
(* One turn of main_loop() is cut where another actor can get in: a signal *)
(* is delivered between any two steps, and time passes between any two     *)
(* readings of the clock.                                                  *)
(*                                                                         *)
(*   signals -> deadlines -> arm -> poll -> wait -> read -> signals        *)
(*                                                                         *)
(* until done.                                                             *)
(***************************************************************************)
EXTENDS Probing

CONSTANTS
  Interval,     \* hping_send_interval_us()
  LateTimeout,  \* COUNTREACHED_TIMEOUT
  Granularity,  \* one millisecond: the unit of poll(2)'s timeout
  PollPeriod,   \* ctx.pcap_poll_ms
  DoublePress,  \* two presses closer than this decrement (200 ms)
  MaxTime,      \* bound: the clock
  MaxStall,     \* bound: time the loop may lose while work is due
  MaxPresses    \* bound: ctrl+z presses

ASSUME EventLoopAssumption ==
  /\ \A c \in Configurations :
       /\ c.count \in (Nat \cup {-1}) \ {0}
       /\ c.selectable \in BOOLEAN
       /\ c.receive_only \in BOOLEAN
       /\ c.dry_run \in BOOLEAN
       /\ c.flood \in BOOLEAN
       /\ c.bind_port \in BOOLEAN
  /\ Interval \in Nat
  /\ LateTimeout \in Nat
  /\ Granularity \in Nat \ {0}
  /\ PollPeriod \in Nat
  /\ DoublePress \in Nat
  /\ {MaxTime, MaxStall, MaxPresses} \subseteq Nat

VARIABLES
  pc,               \* where the loop is
  now,              \* hping_monotonic_us()
  next_send_us,     \* ctx.next_send_us
  end_deadline_us,  \* ctx.end_deadline_us, -1 = none
  timeout,          \* the timeout main_loop() has computed
  wait_until,       \* when the wait that is blocked with it expires
  stop_reason,      \* ctx.stop_reason
  sig_stop,         \* SIGINT or SIGTERM was delivered
  sig_tstp,         \* SIGTSTP was delivered and not handled yet
  wake,             \* the wake up pipe holds a byte
  press,            \* presses so far, and when the last one was handled
  stalled,          \* time lost while work was due
  sent_at,          \* history: the clock reading of every probe
  late_sends        \* history: probes sent after the stop signal

deadlines  == <<next_send_us, end_deadline_us>>
waiting    == <<timeout, wait_until>>
signalVars == <<sig_stop, sig_tstp, wake, press>>
history    == <<sent_at, late_sends>>
vars == <<probingVars, pc, now, deadlines, waiting, stop_reason, signalVars,
          stalled, history>>

Count       == cfg.count         \* --count, -1 = forever
Selectable  == cfg.selectable    \* the capture handle has a descriptor
ReceiveOnly == cfg.receive_only  \* --read
DryRun      == cfg.dry_run       \* --dry-run
Flood       == cfg.flood         \* --flood
BindPort    == cfg.bind_port     \* ctrl+z is bound to the destination port

Start == 1  \* the clock when the loop begins; it is never zero

Init ==
  /\ ProbingInit
  /\ pc = IF Flood THEN "flood" ELSE "signals"
  /\ now = Start
  /\ next_send_us = Start
  /\ end_deadline_us = -1
  /\ timeout = 0
  /\ wait_until = Start
  /\ stop_reason = "NONE"
  /\ sig_stop = FALSE
  /\ sig_tstp = FALSE
  /\ wake = FALSE
  /\ press = [left |-> MaxPresses, last |-> 0]
  /\ stalled = 0
  /\ sent_at = <<>>
  /\ late_sends = 0

-----------------------------------------------------------------------------
(* The world outside: time and signals.                                    *)

\* A bug: one probe too many.
AllProbesSent_OneMore(st) == Count # -1 /\ st.sent > Count

\* all_probes_sent()
AllProbesSent(st) == Count # -1 /\ st.sent >= Count

\* The moment the next thing is due.
Due == IF AllProbesSent(stats) THEN end_deadline_us ELSE next_send_us

(***************************************************************************)
(* Time passes freely while the loop sleeps, or polls for the rest of a    *)
(* millisecond.  At any other moment it passes because the program was not *)
(* scheduled or a call blocked: that budget is bounded, the moments at     *)
(* which it is spent are not.                                              *)
(***************************************************************************)
Asleep == pc = "wait" /\ (now < wait_until \/ now < Due)

Tick ==
  /\ pc # "done" /\ now < MaxTime
  /\ \/ Asleep /\ stalled' = stalled
     \/ ~ Asleep /\ stalled < MaxStall /\ stalled' = stalled + 1
  /\ now' = now + 1
  /\ UNCHANGED <<probingVars, pc, deadlines, waiting, stop_reason, signalVars,
                 history>>

(***************************************************************************)
(* on_signal(): a flag, then a byte in the pipe.  A wait that is already   *)
(* blocked in the kernel returns EINTR; one that is about to block does    *)
(* not, and must find the byte.                                            *)
(***************************************************************************)
Interrupted == pc' \in IF pc = "wait" THEN {"wait", "signals"} ELSE {pc}

SignalStop ==
  /\ pc # "done" /\ ~ sig_stop
  /\ sig_stop' = TRUE
  /\ wake' = TRUE
  /\ Interrupted
  /\ UNCHANGED <<probingVars, now, deadlines, waiting, stop_reason, sig_tstp,
                 press, stalled, history>>

SignalTstp ==
  /\ pc # "done" /\ press.left > 0
  /\ press' = [press EXCEPT !.left = @ - 1]
  /\ sig_tstp' = TRUE
  /\ wake' = TRUE
  /\ Interrupted
  /\ UNCHANGED <<probingVars, now, deadlines, waiting, stop_reason, sig_stop,
                 stalled, history>>

-----------------------------------------------------------------------------
(* The loop.                                                               *)

Stopping(reason) == IF stop_reason = "NONE" THEN reason ELSE stop_reason

\* inc_destparm() with the port bound: +1, or -2 on a double press.
Bumped(p, last) ==
  IF last # 0 /\ now - last < DoublePress
  THEN IF p >= 2 THEN p - 2 ELSE 0
  ELSE p + 1

\* A bug: the stop flag is set and nobody looks at it.
HandlePendingSignals_NoStop ==
  /\ sig_tstp' = FALSE
  /\ IF sig_tstp
     THEN /\ press' = [press EXCEPT !.last = now]
          /\ dst_port' = IF BindPort THEN Bumped(dst_port, press.last)
                         ELSE dst_port
     ELSE UNCHANGED <<press, dst_port>>
  /\ UNCHANGED stop_reason

\* A bug: ctrl+z is left for later.
HandlePendingSignals_NoPress ==
  /\ stop_reason' = IF sig_stop THEN Stopping("SIGNAL") ELSE stop_reason
  /\ UNCHANGED <<sig_tstp, press, dst_port>>

\* handle_pending_signals(), as an effect on the loop state.
HandlePendingSignals ==
  /\ sig_tstp' = FALSE
  /\ IF sig_tstp
     THEN /\ press' = [press EXCEPT !.last = now]
          /\ dst_port' = IF BindPort THEN Bumped(dst_port, press.last)
                         ELSE dst_port
     ELSE UNCHANGED <<press, dst_port>>
  /\ stop_reason' = IF sig_stop THEN Stopping("SIGNAL") ELSE stop_reason

Signals ==
  /\ pc = "signals"
  /\ HandlePendingSignals
  /\ pc' = IF stop_reason' # "NONE" THEN "done" ELSE "deadlines"
  /\ UNCHANGED <<tableVars, sequence, src_port, wire, now, deadlines, waiting,
                 sig_stop, wake, stalled, history>>

\* The end of the late reply timeout.
StopSent ==
  /\ pc = "deadlines"
  /\ end_deadline_us # -1 /\ now >= end_deadline_us
  /\ stop_reason' = Stopping("SENT")
  /\ pc' = "done"
  /\ UNCHANGED <<probingVars, now, deadlines, waiting, signalVars, stalled,
                 history>>

\* A bug: a probe that is due within the granularity of poll(2) leaves now.
ProbeIsDue_Early ==
  /\ ~ (end_deadline_us # -1 /\ now >= end_deadline_us)
  /\ ~ ReceiveOnly /\ ~ AllProbesSent(stats)
  /\ now + Granularity >= next_send_us

ProbeIsDue ==
  /\ ~ (end_deadline_us # -1 /\ now >= end_deadline_us)
  /\ ~ ReceiveOnly /\ ~ AllProbesSent(stats) /\ now >= next_send_us

RecordSend ==
  /\ sent_at' = Append(sent_at, now)
  /\ late_sends' = IF sig_stop THEN late_sends + 1 ELSE late_sends

\* A bug: no clamp, so that a late loop catches up with a burst.
Schedule_CatchUp(st) ==
  IF AllProbesSent(st)
  THEN /\ end_deadline_us' = now + LateTimeout
       /\ UNCHANGED next_send_us
  ELSE /\ next_send_us' = next_send_us + Interval
       /\ UNCHANGED end_deadline_us

\* A bug: no deadline for the late replies.
Schedule_NoDeadline(st) ==
  /\ next_send_us' = IF next_send_us + Interval < now THEN now
                     ELSE next_send_us + Interval
  /\ UNCHANGED end_deadline_us

\* send_due_probe() when send_packet() succeeds.
Schedule(st) ==
  IF AllProbesSent(st)
  THEN /\ end_deadline_us' = now + LateTimeout
       /\ UNCHANGED next_send_us
  ELSE /\ next_send_us' = IF next_send_us + Interval < now THEN now
                          ELSE next_send_us + Interval
       /\ UNCHANGED end_deadline_us

SendDueProbe ==
  /\ pc = "deadlines" /\ ProbeIsDue
  /\ Transmit(TRUE)
  /\ Schedule(stats')
  /\ RecordSend
  /\ pc' = "arm"
  /\ UNCHANGED <<now, waiting, stop_reason, signalVars, stalled>>

\* send_packet() fails, before or after the probe was recorded.
SendError ==
  /\ (pc = "flooding") \/ (pc = "deadlines" /\ ProbeIsDue)
  /\ Transmit(FALSE) \/ BuildFails
  /\ stop_reason' = Stopping("ERROR")
  /\ pc' = IF Flood THEN "flooded" ELSE "done"
  /\ UNCHANGED <<now, deadlines, waiting, signalVars, stalled, history>>

\* A bug: a moment that has passed is a negative timeout.
TimeLeft_Signed == IF ReceiveOnly THEN 0 ELSE Due - now

\* How long the loop may sleep.
TimeLeft == IF ReceiveOnly \/ Due < now THEN 0 ELSE Due - now

(***************************************************************************)
(* The timeout is computed from one reading of the clock, the one that     *)
(* found nothing to send or a second one after a probe; the wait begins    *)
(* later.                                                                  *)
(***************************************************************************)
Arm ==
  /\ \/ pc = "arm"
     \/ /\ pc = "deadlines" /\ ~ ProbeIsDue
        /\ ~ (end_deadline_us # -1 /\ now >= end_deadline_us)
  /\ timeout' = TimeLeft
  /\ pc' = "poll"
  /\ UNCHANGED <<probingVars, now, deadlines, wait_until, stop_reason,
                 signalVars, stalled, history>>

\* A bug: rounding up, to avoid the busy polling.
PollTime_Up ==
  LET rounded == (timeout \div Granularity + 1) * Granularity
  IN  IF DryRun THEN timeout
      ELSE IF ~ Selectable /\ PollPeriod < rounded THEN PollPeriod
      ELSE rounded

(***************************************************************************)
(* pcap_io_wait() rounds the timeout down to whole milliseconds, and caps  *)
(* it when there is no descriptor to poll; nanosleep() does neither.       *)
(***************************************************************************)
PollTime ==
  LET rounded == (timeout \div Granularity) * Granularity
  IN  IF DryRun THEN timeout
      ELSE IF ~ Selectable /\ PollPeriod < rounded THEN PollPeriod
      ELSE rounded

\* A bug: the pipe is drained before the wait, not after it.
Block_Drains ==
  /\ pc = "poll"
  /\ wait_until' = now + PollTime
  /\ wake' = FALSE
  /\ pc' = "wait"
  /\ UNCHANGED <<probingVars, now, deadlines, timeout, stop_reason, sig_stop,
                 sig_tstp, press, stalled, history>>

\* poll() is entered.
Block ==
  /\ pc = "poll"
  /\ wait_until' = now + PollTime
  /\ pc' = "wait"
  /\ UNCHANGED <<probingVars, now, deadlines, timeout, stop_reason, signalVars,
                 stalled, history>>

\* poll() returned: drain_wake_pipe().
Wakes(next) ==
  /\ pc = "wait" /\ ~ DryRun
  /\ wake' = FALSE
  /\ pc' = next
  /\ UNCHANGED <<probingVars, now, deadlines, waiting, stop_reason, sig_stop,
                 sig_tstp, press, stalled, history>>

\* A frame of ours, or any other frame, is ready.
PollFrame == Selectable /\ Wakes("read")

\* No frame: the pipe has a byte, or the timeout expired.
PollNoFrame ==
  /\ wake \/ now >= wait_until
  /\ Wakes(IF Selectable THEN "signals" ELSE "read")

PollError ==
  /\ pc = "wait" /\ ~ DryRun
  /\ stop_reason' = Stopping("ERROR")
  /\ pc' = "done"
  /\ UNCHANGED <<probingVars, now, deadlines, waiting, signalVars, stalled,
                 history>>

\* --dry-run paces with nanosleep(), then looks at the signals.
DrySleep ==
  /\ pc = "wait" /\ DryRun
  /\ now >= wait_until
  /\ pc' = "signals"
  /\ UNCHANGED <<probingVars, now, deadlines, waiting, stop_reason, signalVars,
                 stalled, history>>

\* A bug: every reply counts, not every probe that was answered.
CountReached_Received(st) == Count # -1 /\ st.received = Count

\* As many probes are answered as --count asks for.
CountReached(st) == Count # -1 /\ Unique(st) = Count

\* wait_packet() accounts one frame, then looks at the count.
ReadFrame ==
  /\ pc = "read"
  /\ \E i \in DOMAIN wire : Receive(i)
  /\ stop_reason' = IF CountReached(stats') THEN Stopping("COUNT")
                    ELSE stop_reason
  /\ pc' = "signals"
  /\ UNCHANGED <<now, deadlines, waiting, signalVars, stalled, history>>

\* No frame after all, or one that is not for us; the frames of a savefile
\* that are not for us are left out.
ReadNothing ==
  /\ pc = "read" /\ ~ ReceiveOnly
  /\ pc' = "signals"
  /\ UNCHANGED <<probingVars, now, deadlines, waiting, stop_reason, signalVars,
                 stalled, history>>

\* The capture failed, or the savefile ended.
ReadEnd ==
  /\ pc = "read"
  /\ stop_reason' = Stopping("EOF")
  /\ pc' = "signals"
  /\ UNCHANGED <<probingVars, now, deadlines, waiting, signalVars, stalled,
                 history>>

-----------------------------------------------------------------------------
(* flood_loop(): send as fast as possible, read nothing.                   *)

\* hping_stop_requested()
StopRequested == stop_reason # "NONE" \/ sig_stop

\* A bug: the loop looks at the stop reason only.
FloodCheck_Reason ==
  /\ pc = "flood"
  /\ stop_reason = "NONE"
  /\ pc' = "flooding"
  /\ UNCHANGED <<probingVars, now, deadlines, waiting, stop_reason, signalVars,
                 stalled, history>>

\* The loop condition holds.
FloodCheck ==
  /\ pc = "flood"
  /\ ~ StopRequested
  /\ pc' = "flooding"
  /\ UNCHANGED <<probingVars, now, deadlines, waiting, stop_reason, signalVars,
                 stalled, history>>

FloodSend ==
  /\ pc = "flooding"
  /\ Transmit(TRUE)
  /\ RecordSend
  /\ IF AllProbesSent(stats')
     THEN stop_reason' = Stopping("SENT") /\ pc' = "flooded"
     ELSE UNCHANGED stop_reason /\ pc' = "ctrlz"
  /\ UNCHANGED <<now, deadlines, waiting, signalVars, stalled>>

\* After the loop ("flooded", or the loop condition fails) the pending
\* signals are handled in any case, inside it only for ctrl+z.
FloodSignals ==
  /\ \/ pc = "ctrlz" /\ sig_tstp /\ pc' = "flood"
     \/ pc = "flooded" /\ pc' = "done"
     \/ pc = "flood" /\ StopRequested /\ pc' = "done"
  /\ HandlePendingSignals
  /\ UNCHANGED <<tableVars, sequence, src_port, wire, now, deadlines, waiting,
                 sig_stop, wake, stalled, history>>

FloodTurn ==
  /\ pc = "ctrlz" /\ ~ sig_tstp /\ pc' = "flood"
  /\ UNCHANGED <<probingVars, now, deadlines, waiting, stop_reason, signalVars,
                 stalled, history>>

-----------------------------------------------------------------------------
\* main_loop() or flood_loop() has returned.
Finished == pc = "done" /\ UNCHANGED vars

Wait == PollFrame \/ PollNoFrame \/ PollError \/ DrySleep
Read == ReadFrame \/ ReadNothing \/ ReadEnd

Loop ==
  /\ \/ Signals \/ StopSent \/ SendDueProbe \/ SendError \/ Arm \/ Block
     \/ Wait \/ Read
     \/ FloodCheck \/ FloodSend \/ FloodSignals \/ FloodTurn
  /\ UNCHANGED cfg

Next == Loop \/ Tick \/ SignalStop \/ SignalTstp \/ Finished

Spec == Init /\ [][Next]_vars

\* What the environment may do to the loop, and never has to.
Unowed == PollFrame \/ PollError \/ SendError

(***************************************************************************)
(* The operating system schedules the program, and time passes.  A signal, *)
(* a frame or a failure is never owed to anybody: a wait that is neither   *)
(* woken nor over lasts.                                                   *)
(***************************************************************************)
Fairness == WF_vars(Loop /\ ~ Unowed) /\ SF_vars(Tick)
FairSpec == Spec /\ Fairness

-----------------------------------------------------------------------------
(* Correctness.                                                            *)

Reasons == {"NONE", "SIGNAL", "COUNT", "SENT", "EOF", "ERROR"}

Places == {"signals", "deadlines", "arm", "poll", "wait", "read", "done",
           "flood", "flooding", "ctrlz", "flooded"}

\* One type invariant: the loop state on top of Probing's.
TypeOK ==
  /\ ProbingTypeOK
  /\ pc \in Places
  /\ now \in Nat /\ next_send_us \in Nat
  /\ end_deadline_us \in Nat \cup {-1}
  /\ timeout \in Nat /\ wait_until \in Nat
  /\ stop_reason \in Reasons
  /\ sig_stop \in BOOLEAN /\ sig_tstp \in BOOLEAN /\ wake \in BOOLEAN
  /\ press \in [left : Nat, last : Nat]
  /\ stalled \in Nat
  /\ sent_at \in Seq(Nat)
  /\ late_sends \in Nat

(***************************************************************************)
(* The self-pipe: the loop never goes to sleep on a signal it has not      *)
(* handled.  A signal delivered after handle_pending_signals() has looked  *)
(* at the flags leaves a byte that nobody drains before the wait.          *)
(***************************************************************************)
NoLostWakeup ==
  pc \in {"deadlines", "arm", "poll", "wait"} /\ (sig_stop \/ sig_tstp)
    => wake

\* The stop signal overtakes at most one probe, the one being sent.
PromptStop == late_sends <= 1

(***************************************************************************)
(* send_due_probe(): probe k never leaves before its place in the          *)
(* schedule, and after the loop fell behind it does not burst: any three   *)
(* probes in a row span a whole interval.                                  *)
(***************************************************************************)
OnSchedule ==
  ~ Flood => \A k \in DOMAIN sent_at : sent_at[k] >= Start + (k - 1) * Interval

NoBurst ==
  ~ Flood => \A k \in DOMAIN sent_at :
               k + 2 \in DOMAIN sent_at
                 => sent_at[k + 2] - sent_at[k] >= Interval

\* Nothing but time lost while work was due makes a probe late, and by no more
\* than that: not the rounding of the timeout, nor that it is computed before
\* a loss and slept after it, nor the lateness of the probe before.
Punctual ==
  ~ Flood => \A k \in DOMAIN sent_at :
               sent_at[k] <= Start + (k - 1) * Interval + stalled

(***************************************************************************)
(* --count: exactly that many probes, and the run that is not answered in  *)
(* full keeps listening for the whole late reply timeout.                  *)
(***************************************************************************)
CountSent ==
  /\ Count # -1 => stats.sent <= Count
  /\ stop_reason = "SENT" =>
       /\ stats.sent = Count
       /\ ~ Flood => now >= sent_at[Len(sent_at)] + LateTimeout

(***************************************************************************)
(* --count, on the receiving side: wait_packet() compares for equality, so *)
(* the moment at which as many probes are answered must not be missed; a   *)
(* loop that still runs has fewer answers.                                 *)
(***************************************************************************)
CountCaught ==
  /\ stop_reason = "COUNT" => Unique(stats) = Count
  /\ Count # -1 /\ stop_reason = "NONE" => Unique(stats) < Count

\* SIGINT and SIGTERM end the run, wherever they are delivered.
SignalStops == sig_stop ~> pc = "done"

\* ctrl+z is looked at, unless the run ends first.
PressHandled == sig_tstp ~> (~ sig_tstp \/ pc = "done")

\* A session with a count, or a savefile, comes to its end.
Terminates == <>(pc = "done")
=============================================================================
