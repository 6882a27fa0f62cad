-------------------------- MODULE EventLoop_proofs --------------------------
(***************************************************************************)
(* Proofs about EventLoop: for every configuration, every interval and     *)
(* every bound, the invariants that MCEventLoop checks on small instances. *)
(***************************************************************************)
EXTENDS EventLoop, Probing_proofs

(* hping_stop() with any of the reasons leaves a reason.                   *)
LEMMA StoppingType ==
  ASSUME stop_reason \in Reasons, NEW r \in Reasons
  PROVE  Stopping(r) \in Reasons
BY DEF Stopping

(* Signal handling keeps the types; ctrl+z never makes the port negative.  *)
LEMMA HandleType ==
  ASSUME TypeOK, HandlePendingSignals
  PROVE  /\ sig_tstp' \in BOOLEAN
         /\ press' \in [left : Nat, last : Nat]
         /\ stop_reason' \in Reasons
         /\ dst_port' \in Nat
<1>1. dst_port \in Nat /\ press \in [left : Nat, last : Nat] /\ now \in Nat
      /\ stop_reason \in Reasons
  BY DEF TypeOK, ProbingTypeOK
<1>2. [press EXCEPT !.last = now] \in [left : Nat, last : Nat]
  BY <1>1
<1>3. Bumped(dst_port, press.last) \in Nat
  BY <1>1 DEF Bumped
<1>4. stop_reason' \in Reasons
  BY <1>1 DEF HandlePendingSignals, Stopping, Reasons
<1> QED
  BY <1>1, <1>2, <1>3, <1>4 DEF HandlePendingSignals

(* PollTime never makes the wait end in the past.                          *)
LEMMA PollTimeType ==
  ASSUME timeout \in Nat
  PROVE  PollTime \in Nat
<1>1. /\ Granularity \in Nat \ {0} /\ PollPeriod \in Nat
  BY EventLoopAssumption
<1>2. timeout \div Granularity \in Nat
  BY <1>1
<1>3. (timeout \div Granularity) * Granularity \in Nat
  BY <1>1, <1>2
<1> QED
  BY <1>1, <1>3 DEF PollTime

(* The clock, the interval and the late reply timeout are numbers.         *)
LEMMA ScheduleType ==
  ASSUME TypeOK, NEW st, Schedule(st)
  PROVE  next_send_us' \in Nat /\ end_deadline_us' \in Nat \cup {-1}
BY EventLoopAssumption DEF TypeOK, Schedule

(* Noting a probe keeps the types of what was noted.                       *)
LEMMA RecordType ==
  ASSUME TypeOK, RecordSend
  PROVE  sent_at' \in Seq(Nat) /\ late_sends' \in Nat
BY AppendProperties DEF TypeOK, RecordSend

(* One lemma per group of actions: the world outside first.                *)
LEMMA OutsideType ==
  ASSUME TypeOK, Tick \/ SignalStop \/ SignalTstp \/ Finished
  PROVE  TypeOK'
<1>1. UNCHANGED probingVars => ProbingTypeOK'
  BY DEF TypeOK, ProbingTypeOK, TableTypeOK, probingVars
<1>2. CASE Tick
  BY <1>1, <1>2 DEF TypeOK, Tick, deadlines, waiting, signalVars, history
<1>3. CASE SignalStop
  BY <1>1, <1>3
  DEF TypeOK, SignalStop, Interrupted, Places, deadlines, waiting, history
<1>4. CASE SignalTstp
  <2>1. press' \in [left : Nat, last : Nat]
    <3>1. press.left - 1 \in Nat
      BY <1>4 DEF TypeOK, SignalTstp
    <3> QED BY <1>4, <3>1 DEF TypeOK, SignalTstp
  <2> QED
    BY <1>1, <1>4, <2>1
    DEF TypeOK, SignalTstp, Interrupted, Places, deadlines, waiting, history
<1>5. CASE Finished
  BY <1>1, <1>5
  DEF TypeOK, Finished, vars, deadlines, waiting, signalVars, history
<1> QED
  BY <1>2, <1>3, <1>4, <1>5

(* The actions that send.                                                  *)
LEMMA SendType ==
  ASSUME TypeOK, UNCHANGED cfg, SendDueProbe \/ SendError \/ FloodSend
  PROVE  TypeOK'
<1>1. ASSUME NEW ok \in BOOLEAN, Transmit(ok)
      PROVE  ProbingTypeOK'
  BY <1>1, TransmitType DEF TypeOK
<1>2. CASE SendDueProbe
  BY <1>1, <1>2, ScheduleType, RecordType
  DEF TypeOK, SendDueProbe, Places, waiting, signalVars
<1>3. CASE SendError
  <2>1. ProbingTypeOK'
    BY <1>1, <1>3
    DEF SendError, BuildFails, TypeOK, ProbingTypeOK, TableTypeOK, probingVars
  <2> QED
    BY <1>3, <2>1, StoppingType
    DEF TypeOK, SendError, Places, Reasons, deadlines, waiting, signalVars,
        history
<1>4. CASE FloodSend
  BY <1>1, <1>4, RecordType, StoppingType
  DEF TypeOK, FloodSend, Places, Reasons, deadlines, waiting, signalVars
<1> QED
  BY <1>2, <1>3, <1>4

(* The actions that read.                                                  *)
LEMMA ReadType ==
  ASSUME TypeOK, UNCHANGED cfg, Read
  PROVE  TypeOK'
<1>1. UNCHANGED probingVars => ProbingTypeOK'
  BY DEF TypeOK, ProbingTypeOK, TableTypeOK, probingVars
<1>2. CASE ReadFrame
  <2>1. ProbingTypeOK'
    BY <1>2, ReceiveType DEF ReadFrame, TypeOK
  <2> QED
    BY <1>2, <2>1, StoppingType
    DEF TypeOK, ReadFrame, Places, Reasons, deadlines, waiting, signalVars,
        history
<1>3. CASE ReadNothing
  BY <1>1, <1>3
  DEF TypeOK, ReadNothing, Places, deadlines, waiting, signalVars, history
<1>4. CASE ReadEnd
  BY <1>1, <1>4, StoppingType
  DEF TypeOK, ReadEnd, Places, Reasons, deadlines, waiting, signalVars,
      history
<1> QED
  BY <1>2, <1>3, <1>4 DEF Read

(* The actions that handle signals.                                        *)
LEMMA SignalsType ==
  ASSUME TypeOK, UNCHANGED cfg, Signals \/ FloodSignals
  PROVE  TypeOK'
<1>1. HandlePendingSignals /\ UNCHANGED <<tableVars, sequence, src_port, wire>>
  BY DEF Signals, FloodSignals
<1>2. ProbingTypeOK'
  BY <1>1, HandleType DEF TypeOK, ProbingTypeOK, TableTypeOK, tableVars
<1>3. pc' \in Places
  BY DEF Signals, FloodSignals, Places
<1> QED
  BY <1>1, <1>2, <1>3, HandleType
  DEF TypeOK, Signals, FloodSignals, deadlines, waiting, history

(* The remaining steps of the loop, which touch neither books nor signals. *)
LEMMA WaitType ==
  ASSUME TypeOK,
         StopSent \/ Arm \/ Block \/ Wait \/ FloodCheck \/ FloodTurn
  PROVE  TypeOK'
<1>1. ProbingTypeOK'
  BY DEF StopSent, Arm, Block, Wait, PollFrame, PollNoFrame, Wakes, PollError,
         DrySleep, FloodCheck, FloodTurn,
         TypeOK, ProbingTypeOK, TableTypeOK, probingVars
<1>2. CASE StopSent
  BY <1>1, <1>2, StoppingType
  DEF TypeOK, StopSent, Places, Reasons, waiting, deadlines, signalVars,
      history
<1>3. CASE Arm
  <2>1. timeout' \in Nat
    <3>1. now \in Nat /\ Due \in Int
      BY DEF TypeOK, Due
    <3> QED BY <1>3, <3>1 DEF Arm, TimeLeft
  <2> QED
    BY <1>1, <1>3, <2>1
    DEF TypeOK, Arm, Places, deadlines, signalVars, history
<1>4. CASE Block
  <2>1. wait_until' \in Nat
    BY <1>4, PollTimeType DEF TypeOK, Block
  <2> QED
    BY <1>1, <1>4, <2>1
    DEF TypeOK, Block, Places, deadlines, signalVars, history
<1>5. CASE Wait
  <2>1. CASE \E next \in {"read", "signals"} : Wakes(next)
    BY <1>1, <2>1
    DEF TypeOK, Wakes, Places, deadlines, waiting, signalVars, history
  <2>2. CASE PollError
    BY <1>1, <2>2, StoppingType
    DEF TypeOK, PollError, Places, Reasons, deadlines, waiting, signalVars,
        history
  <2>3. CASE DrySleep
    BY <1>1, <2>3
    DEF TypeOK, DrySleep, Places, deadlines, waiting, signalVars, history
  <2> QED
    BY <1>5, <2>1, <2>2, <2>3 DEF Wait, PollFrame, PollNoFrame
<1>6. CASE FloodCheck \/ FloodTurn
  BY <1>1, <1>6
  DEF TypeOK, FloodCheck, FloodTurn, Places, deadlines, waiting, signalVars,
      history
<1> QED
  BY <1>2, <1>3, <1>4, <1>5, <1>6

(***************************************************************************)
(* Type correctness of the event loop and of everything it drives.         *)
(***************************************************************************)
THEOREM TypeCorrect == Spec => []TypeOK
<1>1. Init => TypeOK
  <2> SUFFICES ASSUME Init PROVE TypeOK
    OBVIOUS
  <2>1. ProbingTypeOK
    BY ProbingInitType DEF Init
  <2>2. sent_at \in Seq(Nat)
    BY EmptySeq DEF Init
  <2>3. press \in [left : Nat, last : Nat]
    BY EventLoopAssumption DEF Init
  <2>4. pc \in Places
    BY DEF Init, Places
  <2> QED
    BY <2>1, <2>2, <2>3, <2>4 DEF Init, TypeOK, Start, Reasons
<1>2. TypeOK /\ [Next]_vars => TypeOK'
  <2> SUFFICES ASSUME TypeOK, [Next]_vars
               PROVE  TypeOK'
    OBVIOUS
  <2>1. CASE Loop
    BY <2>1, SendType, ReadType, SignalsType, WaitType DEF Loop
  <2>2. CASE Tick \/ SignalStop \/ SignalTstp \/ Finished
    BY <2>2, OutsideType
  <2>3. CASE UNCHANGED vars
    BY <2>3 DEF vars, probingVars, deadlines, waiting, signalVars, history,
                TypeOK, ProbingTypeOK, TableTypeOK
  <2> QED BY <2>1, <2>2, <2>3 DEF Next
<1> QED
  BY <1>1, <1>2, PTL DEF Spec

-----------------------------------------------------------------------------
(* The self-pipe.                                                          *)

(* A step of the loop other than a wait leaves the wake up byte alone, and *)
(* signals are never cleared but by handle_pending_signals().              *)
LEMMA WakeupStep ==
  ASSUME TypeOK, NoLostWakeup, [Next]_vars
  PROVE  NoLostWakeup'
<1>1. CASE Signals
  <2>1. pc' = "deadlines" => ~ sig_stop /\ ~ sig_tstp'
    BY <1>1 DEF Signals, HandlePendingSignals, Stopping
  <2> QED
    BY <1>1, <2>1 DEF Signals, NoLostWakeup
<1>2. CASE SignalStop
  BY <1>2 DEF SignalStop, NoLostWakeup
<1>3. CASE SignalTstp
  BY <1>3 DEF SignalTstp, NoLostWakeup
<1>4. CASE Wait
  BY <1>4
  DEF Wait, PollFrame, PollNoFrame, Wakes, PollError, DrySleep, NoLostWakeup
<1>5. CASE StopSent \/ Arm \/ Block \/ Read
  BY <1>5
  DEF StopSent, Arm, Block, Read, ReadFrame, ReadNothing, ReadEnd, signalVars,
      NoLostWakeup
<1>6. CASE SendDueProbe \/ SendError
  BY <1>6 DEF SendDueProbe, SendError, signalVars, NoLostWakeup
<1>7. CASE FloodCheck \/ FloodSend \/ FloodSignals \/ FloodTurn
  BY <1>7
  DEF FloodCheck, FloodSend, FloodSignals, FloodTurn, NoLostWakeup
<1>8. CASE Tick \/ Finished \/ UNCHANGED vars
  BY <1>8 DEF Tick, Finished, vars, signalVars, NoLostWakeup
<1> QED
  BY <1>1, <1>2, <1>3, <1>4, <1>5, <1>6, <1>7, <1>8 DEF Next, Loop

(***************************************************************************)
(* The loop never goes to sleep on a signal it has not handled: whenever   *)
(* it is on its way to poll(), or in it, a pending signal has left a byte  *)
(* in the pipe.                                                            *)
(***************************************************************************)
THEOREM WakeupNeverLost == Spec => []NoLostWakeup
<1>1. Init => NoLostWakeup
  BY DEF Init, NoLostWakeup
<1>2. TypeOK /\ NoLostWakeup /\ [Next]_vars => NoLostWakeup'
  BY WakeupStep
<1> QED
  BY <1>1, <1>2, TypeCorrect, PTL DEF Spec

-----------------------------------------------------------------------------
(* The stop signal.                                                        *)

\* A probe that overtook the stop signal has left the sending states, and
\* the loop returns to them only by looking at the flag.
AtMostOneLate ==
  \/ late_sends = 0
  \/ late_sends = 1 /\ sig_stop /\ pc \notin {"deadlines", "flooding"}

(* Every step keeps at most one late probe, with the stop flag ahead.      *)
LEMMA LateStep ==
  ASSUME TypeOK, AtMostOneLate, [Next]_vars
  PROVE  AtMostOneLate'
<1>1. CASE Signals
  <2>1. sig_stop => pc' = "done"
    BY <1>1 DEF Signals, HandlePendingSignals, Stopping
  <2> QED
    BY <1>1, <2>1 DEF Signals, history, AtMostOneLate
<1>2. CASE SendDueProbe
  BY <1>2 DEF SendDueProbe, RecordSend, signalVars, AtMostOneLate
<1>3. CASE FloodSend
  BY <1>3 DEF FloodSend, RecordSend, signalVars, AtMostOneLate
<1>4. CASE FloodCheck
  BY <1>4 DEF FloodCheck, StopRequested, signalVars, history, AtMostOneLate
<1>5. CASE FloodSignals \/ FloodTurn
  BY <1>5 DEF FloodSignals, FloodTurn, signalVars, history, AtMostOneLate
<1>6. CASE SignalStop \/ SignalTstp
  BY <1>6 DEF SignalStop, SignalTstp, Interrupted, history, AtMostOneLate
<1>7. CASE Wait
  BY <1>7
  DEF Wait, PollFrame, PollNoFrame, Wakes, PollError, DrySleep, signalVars,
      history, AtMostOneLate
<1>8. CASE StopSent \/ SendError \/ Arm \/ Block \/ Read
  BY <1>8
  DEF StopSent, SendError, Arm, Block, Read, ReadFrame, ReadNothing, ReadEnd,
      signalVars, history, AtMostOneLate
<1>9. CASE Tick \/ Finished \/ UNCHANGED vars
  BY <1>9 DEF Tick, Finished, vars, signalVars, history, AtMostOneLate
<1> QED
  BY <1>1, <1>2, <1>3, <1>4, <1>5, <1>6, <1>7, <1>8, <1>9 DEF Next, Loop

(***************************************************************************)
(* SIGINT and SIGTERM overtake at most one probe, the one that was being   *)
(* sent when they arrived, in main_loop() and in flood_loop().             *)
(***************************************************************************)
THEOREM StopIsPrompt == Spec => []PromptStop
<1>1. Init => AtMostOneLate
  BY DEF Init, AtMostOneLate
<1>2. TypeOK /\ AtMostOneLate /\ [Next]_vars => AtMostOneLate'
  BY LateStep
<1>3. AtMostOneLate => PromptStop
  BY DEF AtMostOneLate, PromptStop
<1> QED
  BY <1>1, <1>2, <1>3, TypeCorrect, PTL DEF Spec

-----------------------------------------------------------------------------
(* The schedule and the count of probes.                                   *)

Quiet == /\ UNCHANGED <<sent_at, next_send_us, end_deadline_us>>
         /\ stats'.sent = stats.sent

(* Receiving changes neither the count of probes sent nor the schedule.    *)
LEMMA ReceiveKeepsSent ==
  ASSUME TypeOK, NEW i \in DOMAIN wire, Receive(i)
  PROVE  stats'.sent = stats.sent
<1>1. ASSUME NEW status PROVE OnReply(stats, status).sent = stats.sent
  BY DEF TypeOK, ProbingTypeOK, TableTypeOK, Counters, OnReply
<1> QED
  BY <1>1
  DEF Receive, ReceiveReply, IgnoreReply, ReceiveError, Lookup, Account,
      tableVars

(* Every step that does not send a probe is quiet, and none reconfigures.  *)
LEMMA QuietStep ==
  ASSUME TypeOK, [Next]_vars
  PROVE  UNCHANGED cfg /\ (SendDueProbe \/ FloodSend \/ Quiet)
<1>1. UNCHANGED cfg
  BY DEF Next, Loop, Tick, SignalStop, SignalTstp, Finished, vars, probingVars
<1>2. CASE Signals \/ FloodSignals
  BY <1>1, <1>2 DEF Signals, FloodSignals, tableVars, deadlines, history, Quiet
<1>3. CASE StopSent \/ Arm \/ Block \/ FloodCheck \/ FloodTurn
  BY <1>1, <1>3
  DEF StopSent, Arm, Block, FloodCheck, FloodTurn, probingVars, deadlines,
      history, Quiet
<1>4. CASE Wait
  BY <1>1, <1>4
  DEF Wait, PollFrame, PollNoFrame, Wakes, PollError, DrySleep, probingVars,
      deadlines, history, Quiet
<1>5. CASE ReadFrame
  BY <1>1, <1>5, ReceiveKeepsSent DEF ReadFrame, deadlines, history, Quiet
<1>6. CASE ReadNothing \/ ReadEnd
  BY <1>1, <1>6 DEF ReadNothing, ReadEnd, probingVars, deadlines, history, Quiet
<1>7. CASE SendError
  <2>1. stats' = stats
    BY <1>7 DEF SendError, Transmit, BuildFails, probingVars
  <2> QED
    BY <1>1, <1>7, <2>1 DEF SendError, deadlines, history, Quiet
<1>8. CASE Tick \/ SignalStop \/ SignalTstp \/ Finished \/ UNCHANGED vars
  BY <1>1, <1>8
  DEF Tick, SignalStop, SignalTstp, Finished, vars, probingVars, deadlines,
      history, Quiet
<1> QED
  BY <1>1, <1>2, <1>3, <1>4, <1>5, <1>6, <1>7, <1>8 DEF Next, Loop, Read

(* A probe that was sent is counted and noted.                             *)
LEMMA SentStep ==
  ASSUME TypeOK, Transmit(TRUE), RecordSend
  PROVE  /\ stats'.sent = stats.sent + 1
         /\ Len(sent_at') = Len(sent_at) + 1
         /\ sent_at'[Len(sent_at')] = now
         /\ \A k \in 1 .. Len(sent_at) : sent_at'[k] = sent_at[k]
         /\ DOMAIN sent_at' = 1 .. Len(sent_at')
<1>1. stats' = OnSent(stats) /\ stats \in Counters
  BY DEF Transmit, TypeOK, ProbingTypeOK, TableTypeOK
<1>2. stats'.sent = stats.sent + 1
  BY <1>1 DEF OnSent, Counters
<1>3. sent_at \in Seq(Nat) /\ now \in Nat /\ sent_at' = Append(sent_at, now)
  BY DEF TypeOK, RecordSend
<1>4. /\ Len(sent_at') = Len(sent_at) + 1
      /\ sent_at'[Len(sent_at')] = now
      /\ \A k \in 1 .. Len(sent_at) : sent_at'[k] = sent_at[k]
      /\ DOMAIN sent_at' = 1 .. Len(sent_at')
  BY <1>3, AppendProperties, LenProperties
<1> QED
  BY <1>2, <1>4

\* Flood mode and the normal loop do not share a place.
FloodPlaces == {"flood", "flooding", "ctrlz", "flooded"}
FloodApart == pc \in FloodPlaces => Flood

(* No step leads from one of the two loops into the other.                 *)
LEMMA FloodApartStep ==
  ASSUME TypeOK, FloodApart, [Next]_vars
  PROVE  FloodApart'
<1>1. Flood' = Flood
  BY QuietStep DEF Flood
<1>2. CASE FloodCheck \/ FloodSend \/ FloodSignals \/ FloodTurn
  BY <1>1, <1>2
  DEF FloodCheck, FloodSend, FloodSignals, FloodTurn, FloodApart, FloodPlaces
<1>3. CASE SendError
  BY <1>1, <1>3 DEF SendError, FloodApart, FloodPlaces
<1>4. CASE Signals \/ StopSent \/ SendDueProbe \/ Arm \/ Block \/ Wait \/ Read
  BY <1>1, <1>4
  DEF Signals, StopSent, SendDueProbe, Arm, Block, Wait, PollFrame,
      PollNoFrame, Wakes, PollError, DrySleep, Read, ReadFrame, ReadNothing,
      ReadEnd, FloodApart, FloodPlaces
<1>5. CASE Tick \/ SignalStop \/ SignalTstp \/ Finished \/ UNCHANGED vars
  BY <1>1, <1>5
  DEF Tick, SignalStop, SignalTstp, Interrupted, Finished, vars, FloodApart,
      FloodPlaces
<1> QED
  BY <1>2, <1>3, <1>4, <1>5 DEF Next, Loop

\* What makes OnSchedule inductive: the next probe is not scheduled before
\* its place either, as long as there is a next probe.
ScheduleInv ==
  ~ Flood =>
    /\ \A k \in DOMAIN sent_at : sent_at[k] >= Start + (k - 1) * Interval
    /\ ~ AllProbesSent(stats)
         => next_send_us >= Start + Len(sent_at) * Interval

(* Every step keeps the next moment at or behind the schedule.             *)
LEMMA ScheduleStep ==
  ASSUME TypeOK, FloodApart, ScheduleInv, [Next]_vars
  PROVE  ScheduleInv'
<1>1. Flood' = Flood /\ Count' = Count
  BY QuietStep DEF Flood, Count
<1>2. CASE Quiet
  BY <1>1, <1>2 DEF Quiet, ScheduleInv, AllProbesSent, Count
<1>3. CASE FloodSend
  BY <1>1, <1>3 DEF FloodSend, FloodApart, FloodPlaces, ScheduleInv
<1>4. CASE SendDueProbe
  <2> SUFFICES ASSUME ~ Flood
               PROVE  ScheduleInv'
    BY <1>1 DEF ScheduleInv
  <2> DEFINE n == Len(sent_at)
  <2>1. /\ n \in Nat /\ now \in Nat /\ next_send_us \in Nat
        /\ Interval \in Nat /\ Start \in Nat
        /\ DOMAIN sent_at = 1 .. n
        /\ \A k \in 1 .. n : sent_at[k] \in Nat
    BY LenProperties, ElementOfSeq, EventLoopAssumption DEF TypeOK, Start
  <2>2. /\ Len(sent_at') = n + 1
        /\ sent_at'[n + 1] = now
        /\ \A k \in 1 .. n : sent_at'[k] = sent_at[k]
        /\ DOMAIN sent_at' = 1 .. n + 1
    BY <1>4, SentStep DEF SendDueProbe
  <2>3. ~ AllProbesSent(stats) /\ now >= next_send_us
    BY <1>4 DEF SendDueProbe, ProbeIsDue
  <2>4. next_send_us >= Start + n * Interval
    BY <2>3 DEF ScheduleInv
  <2>5. (n + 1) - 1 = n /\ (n + 1) * Interval = n * Interval + Interval
        /\ n * Interval \in Nat
    BY <2>1
  <2>6. \A k \in DOMAIN sent_at' : sent_at'[k] >= Start + (k - 1) * Interval
    <3> TAKE k \in DOMAIN sent_at'
    <3>0. k \in 1 .. n + 1
      BY <2>2
    <3>1. CASE k = n + 1
      <4>1. now >= Start + n * Interval
        BY <2>1, <2>3, <2>4, <2>5
      <4> QED BY <2>2, <2>5, <3>1, <4>1
    <3>2. CASE k \in 1 .. n
      BY <2>1, <2>2, <3>2 DEF ScheduleInv
    <3> QED BY <2>1, <3>0, <3>1, <3>2
  <2>7. ~ AllProbesSent(stats)'
          => next_send_us' >= Start + (n + 1) * Interval
    <3>1. ASSUME ~ AllProbesSent(stats)'
          PROVE  next_send_us' >= next_send_us + Interval
      <4>1. ~ AllProbesSent(stats')
        BY <1>1, <3>1 DEF AllProbesSent
      <4>2. next_send_us' = IF next_send_us + Interval < now THEN now
                            ELSE next_send_us + Interval
        BY <1>4, <4>1 DEF SendDueProbe, Schedule
      <4> QED BY <2>1, <4>2
    <3>2. next_send_us' \in Nat
      BY <1>4, ScheduleType DEF SendDueProbe
    <3> QED BY <2>1, <2>4, <2>5, <3>1, <3>2
  <2> QED
    BY <2>2, <2>6, <2>7 DEF ScheduleInv
<1> QED
  BY <1>2, <1>3, <1>4, QuietStep

(***************************************************************************)
(* send_due_probe(): whatever the stalls, the signals and the replies, no  *)
(* probe leaves before its place in the schedule.                          *)
(***************************************************************************)
THEOREM NeverEarly == Spec => []OnSchedule
<1>1. Init => FloodApart /\ ScheduleInv
  <2> SUFFICES ASSUME Init PROVE FloodApart /\ ScheduleInv
    OBVIOUS
  <2>1. FloodApart
    BY DEF Init, FloodApart, FloodPlaces
  <2>2. Len(sent_at) = 0 /\ DOMAIN sent_at = {} /\ 0 * Interval = 0
    BY EventLoopAssumption DEF Init
  <2>3. ScheduleInv
    BY <2>2, EventLoopAssumption DEF Init, ScheduleInv, Start
  <2> QED BY <2>1, <2>3
<1>2. TypeOK /\ FloodApart /\ ScheduleInv /\ [Next]_vars
        => FloodApart' /\ ScheduleInv'
  BY FloodApartStep, ScheduleStep
<1>3. ScheduleInv => OnSchedule
  BY DEF ScheduleInv, OnSchedule
<1> QED
  BY <1>1, <1>2, <1>3, TypeCorrect, PTL DEF Spec

\* What makes NoBurst inductive: the next probe is scheduled neither before
\* the last one nor less than an interval after the one before.
BurstInv ==
  ~ Flood =>
    /\ \A k \in DOMAIN sent_at :
         k + 2 \in DOMAIN sent_at => sent_at[k + 2] - sent_at[k] >= Interval
    /\ ~ AllProbesSent(stats) =>
         /\ Len(sent_at) >= 1 => next_send_us >= sent_at[Len(sent_at)]
         /\ Len(sent_at) >= 2
              => next_send_us >= sent_at[Len(sent_at) - 1] + Interval

(* Every step keeps the next moment apart from the last two probes.        *)
LEMMA BurstStep ==
  ASSUME TypeOK, FloodApart, BurstInv, [Next]_vars
  PROVE  BurstInv'
<1>1. Flood' = Flood /\ Count' = Count
  BY QuietStep DEF Flood, Count
<1>2. CASE Quiet
  BY <1>1, <1>2 DEF Quiet, BurstInv, AllProbesSent, Count
<1>3. CASE FloodSend
  BY <1>1, <1>3 DEF FloodSend, FloodApart, FloodPlaces, BurstInv
<1>4. CASE SendDueProbe
  <2> SUFFICES ASSUME ~ Flood
               PROVE  BurstInv'
    BY <1>1 DEF BurstInv
  <2> DEFINE n == Len(sent_at)
  <2>1. /\ n \in Nat /\ now \in Nat /\ next_send_us \in Nat
        /\ Interval \in Nat
        /\ DOMAIN sent_at = 1 .. n
        /\ \A k \in 1 .. n : sent_at[k] \in Nat
    BY LenProperties, ElementOfSeq, EventLoopAssumption DEF TypeOK
  <2>2. /\ Len(sent_at') = n + 1
        /\ sent_at'[n + 1] = now
        /\ \A k \in 1 .. n : sent_at'[k] = sent_at[k]
        /\ DOMAIN sent_at' = 1 .. n + 1
    BY <1>4, SentStep DEF SendDueProbe
  <2>3. ~ AllProbesSent(stats) /\ now >= next_send_us
    BY <1>4 DEF SendDueProbe, ProbeIsDue
  <2>4. /\ n >= 1 => next_send_us >= sent_at[n]
        /\ n >= 2 => next_send_us >= sent_at[n - 1] + Interval
    BY <2>3 DEF BurstInv
  <2>5. ASSUME NEW k \in DOMAIN sent_at', k + 2 \in DOMAIN sent_at'
        PROVE  sent_at'[k + 2] - sent_at'[k] >= Interval
    <3>1. k \in 1 .. n - 1
      BY <2>1, <2>2, <2>5
    <3>2. CASE k = n - 1
      <4>1. k + 2 = n + 1 /\ n >= 2 /\ k \in 1 .. n
        BY <2>1, <3>1, <3>2
      <4>2. sent_at'[k + 2] = now /\ sent_at'[k] = sent_at[n - 1]
        BY <2>2, <3>2, <4>1
      <4>3. sent_at[n - 1] \in Nat
        BY <2>1, <3>2, <4>1
      <4>4. now >= sent_at[n - 1] + Interval
        BY <2>1, <2>3, <2>4, <4>1, <4>3
      <4> QED
        BY <2>1, <4>2, <4>3, <4>4
    <3>3. CASE k \in 1 .. n - 2
      <4>1. k \in 1 .. n /\ k + 2 \in 1 .. n
        BY <2>1, <3>3
      <4>2. sent_at[k + 2] - sent_at[k] >= Interval
        BY <2>1, <4>1 DEF BurstInv
      <4> QED BY <2>2, <4>1, <4>2
    <3> QED BY <2>1, <3>1, <3>2, <3>3
  <2>6. ASSUME ~ AllProbesSent(stats)'
        PROVE  /\ next_send_us' >= now
               /\ n >= 1 => next_send_us' >= sent_at[n] + Interval
    <3>1. ~ AllProbesSent(stats')
      BY <1>1, <2>6 DEF AllProbesSent
    <3>2. next_send_us' = IF next_send_us + Interval < now THEN now
                          ELSE next_send_us + Interval
      BY <1>4, <3>1 DEF SendDueProbe, Schedule
    <3>3. n >= 1 => sent_at[n] \in Nat
      BY <2>1
    <3> QED BY <2>1, <2>4, <3>2, <3>3
  <2>7. (n + 1) - 1 = n /\ (n + 1 >= 2 => n >= 1) /\ (n >= 1 => n \in 1 .. n)
    BY <2>1
  <2> QED
    BY <2>2, <2>5, <2>6, <2>7 DEF BurstInv
<1> QED
  BY <1>2, <1>3, <1>4, QuietStep

(***************************************************************************)
(* send_due_probe(): a loop that fell behind does not catch up with a      *)
(* burst; three probes in a row always span an interval.                   *)
(***************************************************************************)
THEOREM NeverBursts == Spec => []NoBurst
<1>1. Init => FloodApart /\ BurstInv
  <2> SUFFICES ASSUME Init PROVE FloodApart /\ BurstInv
    OBVIOUS
  <2>1. FloodApart
    BY DEF Init, FloodApart, FloodPlaces
  <2>2. Len(sent_at) = 0 /\ DOMAIN sent_at = {}
    BY DEF Init
  <2>3. BurstInv
    BY <2>2 DEF BurstInv
  <2> QED BY <2>1, <2>3
<1>2. TypeOK /\ FloodApart /\ BurstInv /\ [Next]_vars
        => FloodApart' /\ BurstInv'
  BY FloodApartStep, BurstStep
<1>3. BurstInv => NoBurst
  BY DEF BurstInv, NoBurst
<1> QED
  BY <1>1, <1>2, <1>3, TypeCorrect, PTL DEF Spec

-----------------------------------------------------------------------------
(* Lateness.                                                               *)

(* The wait is never longer than the timeout.                              *)
LEMMA PollTimeBound ==
  ASSUME timeout \in Nat
  PROVE  PollTime <= timeout
<1>1. Granularity \in Nat \ {0} /\ PollPeriod \in Nat
  BY EventLoopAssumption
<1> DEFINE q == timeout \div Granularity
           r == timeout % Granularity
<1>2. /\ q \in Nat /\ r \in Nat
      /\ timeout = Granularity * q + r
  BY <1>1
<1> HIDE DEF q, r
<1>3. q * Granularity \in Nat /\ q * Granularity <= timeout
  BY <1>1, <1>2
<1> QED
  BY <1>1, <1>3 DEF PollTime, q

\* The latest moment for the next probe.
Latest == Start + Len(sent_at) * Interval + stalled

(***************************************************************************)
(* What makes Punctual inductive: while there is a next probe, neither its *)
(* moment, nor the clock, nor the end of a wait, computed or begun, is     *)
(* behind the latest moment.                                               *)
(***************************************************************************)
InTime ==
  /\ next_send_us <= Latest
  /\ now <= Latest
  /\ pc = "poll" => now + timeout <= Latest
  /\ pc = "wait" => wait_until <= Latest

PunctualInv ==
  ~ Flood =>
    /\ \A k \in DOMAIN sent_at :
         sent_at[k] <= Start + (k - 1) * Interval + stalled
    /\ ~ ReceiveOnly /\ ~ AllProbesSent(stats) => InTime

(* A step that sends nothing, while more is to be sent.                    *)
LEMMA QuietInTime ==
  ASSUME TypeOK, InTime, ~ ReceiveOnly, ~ AllProbesSent(stats), Quiet, [Next]_vars
  PROVE  InTime'
<1>1. /\ now \in Nat /\ stalled \in Nat /\ timeout \in Nat /\ wait_until \in Nat
      /\ next_send_us \in Nat /\ Latest \in Nat
  <2>1. Len(sent_at) \in Nat /\ Interval \in Nat /\ stalled \in Nat
    BY LenProperties, EventLoopAssumption DEF TypeOK
  <2>2. Len(sent_at) * Interval \in Nat
    BY <2>1
  <2> QED BY <2>1, <2>2 DEF TypeOK, Latest, Start
<1>2. Due = next_send_us
  BY DEF Due
<1>3. UNCHANGED stalled => Latest' = Latest
  BY DEF Quiet, Latest
<1>4. next_send_us' = next_send_us
  BY DEF Quiet
<1>5. CASE Tick
  <2>1. UNCHANGED <<pc, timeout, wait_until>> /\ now' = now + 1
    BY <1>5 DEF Tick, waiting
  <2>2. CASE Asleep /\ stalled' = stalled
    <3>1. now + 1 <= Latest
      BY <1>1, <1>2, <2>2 DEF Asleep, InTime
    <3>2. pc = "wait"
      BY <2>2 DEF Asleep
    <3> QED BY <1>3, <1>4, <2>1, <2>2, <3>1, <3>2 DEF InTime
  <2>3. CASE stalled' = stalled + 1
    <3>1. Latest' = Latest + 1
      <4>1. Len(sent_at) * Interval \in Nat
        BY LenProperties, EventLoopAssumption DEF TypeOK
      <4> QED BY <1>1, <2>3, <4>1 DEF Quiet, Latest, Start
    <3> QED BY <1>1, <1>4, <2>1, <3>1 DEF InTime
  <2> QED BY <1>5, <2>2, <2>3 DEF Tick
<1>6. CASE Arm
  <2>1. UNCHANGED <<now, stalled>> /\ pc' = "poll" /\ timeout' = TimeLeft
    BY <1>6 DEF Arm
  <2>2. now + TimeLeft <= Latest
    BY <1>1, <1>2 DEF TimeLeft, InTime
  <2> QED BY <1>3, <1>4, <2>1, <2>2 DEF InTime
<1>7. CASE Block
  <2>1. /\ UNCHANGED <<now, stalled>> /\ pc = "poll" /\ pc' = "wait"
        /\ wait_until' = now + PollTime
    BY <1>7 DEF Block
  <2>2. PollTime \in Nat /\ PollTime <= timeout
    BY <1>1, PollTimeType, PollTimeBound
  <2> QED BY <1>1, <1>3, <1>4, <2>1, <2>2 DEF InTime
<1>8. CASE SignalStop \/ SignalTstp
  <2>1. /\ UNCHANGED <<now, stalled, timeout, wait_until>>
        /\ pc' \in {pc, "signals"}
    BY <1>8 DEF SignalStop, SignalTstp, Interrupted, waiting
  <2> QED BY <1>3, <1>4, <2>1 DEF InTime
<1>9. CASE Finished \/ UNCHANGED vars
  BY <1>3, <1>4, <1>9 DEF Finished, vars, waiting, InTime
<1>10. CASE \/ Signals \/ StopSent \/ SendDueProbe \/ SendError
            \/ FloodCheck \/ FloodSend \/ FloodSignals \/ FloodTurn
  <2>1. UNCHANGED <<now, stalled>> /\ pc' \notin {"poll", "wait"}
    BY <1>10
    DEF Signals, StopSent, SendDueProbe, SendError, FloodCheck, FloodSend,
        FloodSignals, FloodTurn
  <2> QED BY <1>3, <1>4, <2>1 DEF InTime
<1>11. CASE Wait \/ Read
  <2>1. UNCHANGED <<now, stalled>> /\ pc' \notin {"poll", "wait"}
    BY <1>11
    DEF Wait, PollFrame, PollNoFrame, Wakes, PollError, DrySleep,
        Read, ReadFrame, ReadNothing, ReadEnd
  <2> QED BY <1>3, <1>4, <2>1 DEF InTime
<1> QED
  BY <1>5, <1>6, <1>7, <1>8, <1>9, <1>10, <1>11 DEF Next, Loop

(* The budget of lost time only grows.                                     *)
LEMMA StalledGrows ==
  ASSUME TypeOK, [Next]_vars
  PROVE  stalled' \in Nat /\ stalled' >= stalled
<1>1. stalled \in Nat
  BY DEF TypeOK
<1>2. CASE Tick
  BY <1>1, <1>2 DEF Tick
<1>3. CASE Signals \/ StopSent \/ SendDueProbe \/ SendError \/ Arm \/ Block
  <2>1. stalled' = stalled
    BY <1>3 DEF Signals, StopSent, SendDueProbe, SendError, Arm, Block
  <2> QED BY <1>1, <2>1
<1>4. CASE Wait \/ Read
  <2>1. stalled' = stalled
    BY <1>4
    DEF Wait, PollFrame, PollNoFrame, Wakes, PollError, DrySleep, Read,
        ReadFrame, ReadNothing, ReadEnd
  <2> QED BY <1>1, <2>1
<1>5. CASE FloodCheck \/ FloodSend \/ FloodSignals \/ FloodTurn
  <2>1. stalled' = stalled
    BY <1>5 DEF FloodCheck, FloodSend, FloodSignals, FloodTurn
  <2> QED BY <1>1, <2>1
<1>6. CASE SignalStop \/ SignalTstp \/ Finished \/ UNCHANGED vars
  BY <1>1, <1>6 DEF SignalStop, SignalTstp, Finished, vars
<1> QED
  BY <1>2, <1>3, <1>4, <1>5, <1>6 DEF Next, Loop

(* Every step keeps the probes and what is planned in time.                *)
LEMMA PunctualStep ==
  ASSUME TypeOK, FloodApart, PunctualInv, [Next]_vars
  PROVE  PunctualInv'
<1>1. Flood' = Flood /\ Count' = Count /\ ReceiveOnly' = ReceiveOnly
  BY QuietStep DEF Flood, Count, ReceiveOnly
<1> DEFINE n == Len(sent_at)
<1>2. /\ n \in Nat /\ now \in Nat /\ next_send_us \in Nat
      /\ Interval \in Nat /\ Start \in Nat /\ stalled \in Nat
      /\ stalled' \in Nat /\ stalled' >= stalled
      /\ DOMAIN sent_at = 1 .. n
      /\ \A k \in 1 .. n : sent_at[k] \in Nat
  BY LenProperties, ElementOfSeq, EventLoopAssumption, StalledGrows
     DEF TypeOK, Start
<1>3. \A k \in 1 .. n : (k - 1) * Interval \in Nat
  BY <1>2
<1>4. CASE Quiet
  <2> SUFFICES ASSUME ~ Flood
               PROVE  PunctualInv'
    BY <1>1 DEF PunctualInv
  <2>1. \A k \in DOMAIN sent_at' :
          sent_at'[k] <= Start + (k - 1) * Interval + stalled'
    <3>1. sent_at' = sent_at
      BY <1>4 DEF Quiet
    <3>2. \A k \in 1 .. n : sent_at[k] <= Start + (k - 1) * Interval + stalled
      BY <1>2 DEF PunctualInv
    <3> QED BY <1>2, <1>3, <3>1, <3>2
  <2>2. AllProbesSent(stats)' = AllProbesSent(stats)
    BY <1>1, <1>4 DEF Quiet, AllProbesSent
  <2>3. (~ ReceiveOnly /\ ~ AllProbesSent(stats) => InTime)'
    BY <1>1, <1>4, <2>2, QuietInTime DEF PunctualInv
  <2> QED BY <2>1, <2>3 DEF PunctualInv
<1>5. CASE FloodSend
  BY <1>1, <1>5 DEF FloodSend, FloodApart, FloodPlaces, PunctualInv
<1>6. CASE SendDueProbe
  <2> SUFFICES ASSUME ~ Flood
               PROVE  PunctualInv'
    BY <1>1 DEF PunctualInv
  <2>1. /\ Len(sent_at') = n + 1
        /\ sent_at'[n + 1] = now
        /\ \A k \in 1 .. n : sent_at'[k] = sent_at[k]
        /\ DOMAIN sent_at' = 1 .. n + 1
        /\ UNCHANGED <<now, stalled>> /\ pc' = "arm"
    BY <1>6, SentStep DEF SendDueProbe
  <2>2. InTime
    BY <1>6 DEF SendDueProbe, ProbeIsDue, PunctualInv
  <2>3. (n + 1) - 1 = n /\ (n + 1) * Interval = n * Interval + Interval
        /\ n * Interval \in Nat
    BY <1>2
  <2>4. /\ now <= Start + n * Interval + stalled
        /\ next_send_us <= Start + n * Interval + stalled
    BY <2>2 DEF InTime, Latest
  <2>5. ASSUME NEW k \in DOMAIN sent_at'
        PROVE  sent_at'[k] <= Start + (k - 1) * Interval + stalled'
    <3>1. CASE k = n + 1
      BY <2>1, <2>3, <2>4, <3>1
    <3>2. CASE k \in 1 .. n
      BY <1>2, <2>1, <3>2 DEF PunctualInv
    <3> QED BY <1>2, <2>1, <2>5, <3>1, <3>2
  <2>6. ASSUME ~ AllProbesSent(stats)'
        PROVE  InTime'
    <3>1. ~ AllProbesSent(stats')
      BY <1>1, <2>6 DEF AllProbesSent
    <3>2. next_send_us' = IF next_send_us + Interval < now THEN now
                          ELSE next_send_us + Interval
      BY <1>6, <3>1 DEF SendDueProbe, Schedule
    <3>3. Latest' = Start + n * Interval + Interval + stalled
      BY <1>2, <2>1, <2>3 DEF Latest, Start
    <3>4. next_send_us' <= Latest' /\ now' <= Latest'
      BY <1>2, <2>1, <2>3, <2>4, <3>2, <3>3
    <3> QED BY <2>1, <3>4 DEF InTime
  <2> QED BY <2>5, <2>6 DEF PunctualInv
<1> QED
  BY <1>4, <1>5, <1>6, QuietStep

(***************************************************************************)
(* main_loop(), pcap_io_wait(): whatever the rounding of the timeout, the  *)
(* signals and the frames, a probe is late by no more than the time the    *)
(* process has lost.                                                       *)
(***************************************************************************)
THEOREM NeverLaterThanLost == Spec => []Punctual
<1>1. Init => FloodApart /\ PunctualInv
  <2> SUFFICES ASSUME Init PROVE FloodApart /\ PunctualInv
    OBVIOUS
  <2>1. FloodApart
    BY DEF Init, FloodApart, FloodPlaces
  <2>2. Len(sent_at) = 0 /\ DOMAIN sent_at = {} /\ 0 * Interval = 0
    BY EventLoopAssumption DEF Init
  <2>3. Latest = Start /\ pc \notin {"poll", "wait"}
    BY <2>2 DEF Init, Latest, Start
  <2>4. PunctualInv
    BY <2>2, <2>3 DEF Init, PunctualInv, InTime, Start
  <2> QED BY <2>1, <2>4
<1>2. TypeOK /\ FloodApart /\ PunctualInv /\ [Next]_vars
        => FloodApart' /\ PunctualInv'
  BY FloodApartStep, PunctualStep
<1>3. PunctualInv => Punctual
  BY DEF PunctualInv, Punctual
<1> QED
  BY <1>1, <1>2, <1>3, TypeCorrect, PTL DEF Spec

-----------------------------------------------------------------------------
(* --count, on the sending side.                                           *)

\* What makes CountSent inductive: a session that still floods has probes
\* left, and the deadline for late replies exists exactly when none is left.
CountInv ==
  /\ Count # -1 => stats.sent <= Count
  /\ pc \in {"flood", "flooding", "ctrlz"} => ~ AllProbesSent(stats)
  /\ end_deadline_us # -1 => AllProbesSent(stats)
  /\ ~ Flood /\ AllProbesSent(stats)
       => end_deadline_us = sent_at[Len(sent_at)] + LateTimeout
  /\ stop_reason = "SENT" =>
       AllProbesSent(stats) /\ (~ Flood => now >= end_deadline_us)

(* The stop reason is SENT only when all probes were sent, and for good.   *)
LEMMA SentReason ==
  ASSUME TypeOK, CountInv, [Next]_vars, stop_reason' = "SENT"
  PROVE  \/ stop_reason = "SENT"
         \/ StopSent
         \/ FloodSend /\ AllProbesSent(stats')
<1>1. ASSUME NEW r, r # "SENT", stop_reason' = Stopping(r)
      PROVE  stop_reason = "SENT"
  BY <1>1 DEF Stopping
<1>2. CASE Signals \/ FloodSignals
  BY <1>1, <1>2 DEF Signals, FloodSignals, HandlePendingSignals
<1>3. CASE SendError \/ PollError \/ ReadFrame \/ ReadEnd
  BY <1>1, <1>3 DEF SendError, PollError, ReadFrame, ReadEnd
<1>4. CASE FloodSend
  BY <1>4 DEF FloodSend
<1>5. CASE \/ SendDueProbe \/ Arm \/ Block \/ PollFrame \/ PollNoFrame \/ DrySleep
           \/ ReadNothing \/ FloodCheck \/ FloodTurn
  BY <1>5
  DEF SendDueProbe, Arm, Block, PollFrame, PollNoFrame, Wakes, DrySleep,
      ReadNothing, FloodCheck, FloodTurn
<1>6. CASE Tick \/ SignalStop \/ SignalTstp \/ Finished \/ UNCHANGED vars
  BY <1>6 DEF Tick, SignalStop, SignalTstp, Finished, vars
<1> QED
  BY <1>2, <1>3, <1>4, <1>5, <1>6 DEF Next, Loop, Wait, Read

(* A flood that goes on has probes left: nothing but FloodSend counts one. *)
LEMMA FloodGoesOn ==
  ASSUME TypeOK, CountInv, Quiet, [Next]_vars,
         pc' \in {"flood", "flooding", "ctrlz"}
  PROVE  pc \in {"flood", "flooding", "ctrlz"}
<1>1. ~ FloodSend \/ pc \in {"flood", "flooding", "ctrlz"}
  BY DEF FloodSend
<1>2. CASE \/ Signals \/ StopSent \/ SendDueProbe \/ SendError \/ Arm \/ Block
           \/ Wait \/ Read
  BY <1>2
  DEF Signals, StopSent, SendDueProbe, SendError, Arm, Block, Wait, PollFrame,
      PollNoFrame, Wakes, PollError, DrySleep, Read, ReadFrame, ReadNothing,
      ReadEnd
<1>3. CASE FloodCheck \/ FloodSignals \/ FloodTurn
  BY <1>3 DEF FloodCheck, FloodSignals, FloodTurn
<1>4. CASE Tick \/ SignalStop \/ SignalTstp \/ Finished \/ UNCHANGED vars
  BY <1>4 DEF Tick, SignalStop, SignalTstp, Interrupted, Finished, vars
<1> QED
  BY <1>1, <1>2, <1>3, <1>4 DEF Next, Loop

(* Time does not run backwards.                                            *)
LEMMA ClockStep ==
  ASSUME TypeOK, [Next]_vars
  PROVE  now' \in Nat /\ now' >= now
<1>1. now \in Nat
  BY DEF TypeOK
<1>2. CASE Tick
  BY <1>1, <1>2 DEF Tick
<1>3. CASE Signals \/ StopSent \/ SendDueProbe \/ SendError \/ Arm \/ Block
  <2>1. now' = now
    BY <1>3 DEF Signals, StopSent, SendDueProbe, SendError, Arm, Block
  <2> QED BY <1>1, <2>1
<1>4. CASE Wait \/ Read
  <2>1. now' = now
    BY <1>4
    DEF Wait, PollFrame, PollNoFrame, Wakes, PollError, DrySleep, Read,
        ReadFrame, ReadNothing, ReadEnd
  <2> QED BY <1>1, <2>1
<1>5. CASE FloodCheck \/ FloodSend \/ FloodSignals \/ FloodTurn
  <2>1. now' = now
    BY <1>5 DEF FloodCheck, FloodSend, FloodSignals, FloodTurn
  <2> QED BY <1>1, <2>1
<1>6. CASE SignalStop \/ SignalTstp \/ Finished \/ UNCHANGED vars
  BY <1>1, <1>6 DEF SignalStop, SignalTstp, Finished, vars
<1> QED
  BY <1>2, <1>3, <1>4, <1>5, <1>6 DEF Next, Loop

(* Every step keeps the invariant that counts and dates the probes.        *)
LEMMA CountStep ==
  ASSUME TypeOK, FloodApart, CountInv, [Next]_vars
  PROVE  CountInv'
<1>1. Flood' = Flood /\ Count' = Count
  BY QuietStep DEF Flood, Count
<1>2. /\ stats.sent \in Nat /\ now \in Nat
      /\ end_deadline_us \in Nat \cup {-1}
      /\ Count \in Nat \cup {-1} /\ LateTimeout \in Nat
  BY EventLoopAssumption
  DEF TypeOK, ProbingTypeOK, TableTypeOK, Counters, Count
<1>3. now' \in Nat /\ now' >= now
  BY ClockStep
<1>4. CASE Quiet
  <2>1. AllProbesSent(stats)' <=> AllProbesSent(stats)
    BY <1>1, <1>4 DEF Quiet, AllProbesSent, Count
  <2>2. stop_reason' = "SENT"
          => AllProbesSent(stats) /\ (~ Flood => now' >= end_deadline_us)
    <3> SUFFICES ASSUME stop_reason' = "SENT"
                 PROVE  /\ AllProbesSent(stats)
                        /\ ~ Flood => now' >= end_deadline_us
      OBVIOUS
    <3>1. CASE stop_reason = "SENT"
      BY <1>2, <1>3, <3>1 DEF CountInv
    <3>2. CASE StopSent
      BY <1>2, <1>3, <3>2 DEF StopSent, CountInv
    <3>3. CASE FloodSend
      <4>1. stats' = OnSent(stats)
        BY <3>3 DEF FloodSend, Transmit
      <4>2. stats'.sent = stats.sent + 1
        BY <4>1 DEF OnSent, TypeOK, ProbingTypeOK, TableTypeOK, Counters
      <4> QED BY <1>2, <1>4, <4>2 DEF Quiet
    <3> QED BY <3>1, <3>2, <3>3, SentReason
  <2> QED
    BY <1>1, <1>4, <2>1, <2>2, FloodGoesOn DEF Quiet, CountInv
<1>5. CASE SendDueProbe
  <2>1. /\ stats'.sent = stats.sent + 1
        /\ sent_at'[Len(sent_at')] = now
        /\ ~ AllProbesSent(stats) /\ end_deadline_us = -1
        /\ stop_reason' = stop_reason /\ stop_reason # "SENT"
        /\ pc' = "arm"
    BY <1>5, SentStep DEF SendDueProbe, ProbeIsDue, CountInv
  <2>2. AllProbesSent(stats)' <=> AllProbesSent(stats')
    BY <1>1 DEF AllProbesSent
  <2>3. IF AllProbesSent(stats') THEN end_deadline_us' = now + LateTimeout
                                 ELSE end_deadline_us' = end_deadline_us
    BY <1>5 DEF SendDueProbe, Schedule
  <2>4. Count # -1 => stats'.sent <= Count
    BY <1>2, <2>1 DEF AllProbesSent
  <2> QED
    BY <1>1, <2>1, <2>2, <2>3, <2>4 DEF CountInv
<1>6. CASE FloodSend
  <2>1. /\ stats'.sent = stats.sent + 1
        /\ Flood /\ ~ AllProbesSent(stats)
        /\ stop_reason # "SENT"
        /\ end_deadline_us' = end_deadline_us
    BY <1>6, SentStep
    DEF FloodSend, FloodApart, FloodPlaces, CountInv, deadlines
  <2>2. AllProbesSent(stats)' <=> AllProbesSent(stats')
    BY <1>1 DEF AllProbesSent
  <2>3. pc' \in {"flood", "flooding", "ctrlz"} => ~ AllProbesSent(stats')
    BY <1>6 DEF FloodSend
  <2>4. stop_reason' = "SENT" => AllProbesSent(stats')
    BY <1>6, <2>1 DEF FloodSend
  <2>5. end_deadline_us = -1 /\ (Count # -1 => stats'.sent <= Count)
    BY <1>2, <2>1 DEF AllProbesSent, CountInv
  <2> QED
    BY <1>1, <2>1, <2>2, <2>3, <2>4, <2>5 DEF CountInv
<1> QED
  BY <1>4, <1>5, <1>6, QuietStep

(***************************************************************************)
(* --count: no session sends more probes than it was asked for, with or    *)
(* without --flood, and one that stops for want of replies has sent them   *)
(* all and has waited out the late reply timeout.                          *)
(***************************************************************************)
THEOREM CountIsKept == Spec => []CountSent
<1>1. Init => FloodApart /\ CountInv
  <2> SUFFICES ASSUME Init PROVE FloodApart /\ CountInv
    OBVIOUS
  <2>1. Count \in (Nat \cup {-1}) \ {0} /\ stats.sent = 0
    BY EventLoopAssumption DEF Init, ProbingInit, TableInit, Count
  <2>2. ~ AllProbesSent(stats)
    BY <2>1 DEF AllProbesSent
  <2> QED
    BY <2>1, <2>2 DEF Init, FloodApart, FloodPlaces, CountInv
<1>2. TypeOK /\ FloodApart /\ CountInv /\ [Next]_vars
        => FloodApart' /\ CountInv'
  BY FloodApartStep, CountStep
<1>3. TypeOK /\ CountInv => CountSent
  <2> SUFFICES ASSUME TypeOK, CountInv PROVE CountSent
    OBVIOUS
  <2>1. stats.sent \in Nat /\ Count \in Nat \cup {-1}
    BY EventLoopAssumption
    DEF TypeOK, ProbingTypeOK, TableTypeOK, Counters, Count
  <2> QED
    BY <2>1 DEF CountInv, CountSent, AllProbesSent
<1> QED
  BY <1>1, <1>2, <1>3, TypeCorrect, PTL DEF Spec

-----------------------------------------------------------------------------
(* --count, on the receiving side.                                         *)

\* What makes CountCaught inductive: a loop that has a reason to stop looks
\* at it before it can read another frame.
NormalPlaces == {"deadlines", "arm", "poll", "wait", "read"}

CaughtInv ==
  /\ CountCaught
  /\ pc \in NormalPlaces => stop_reason = "NONE"

(* One reply answers at most one more probe.                               *)
LEMMA UniqueGrows ==
  ASSUME NEW st \in Counters, NEW status
  PROVE  Unique(OnReply(st, status)) <= Unique(st) + 1
<1> DEFINE r == OnReply(st, status)
<1>1. /\ st.received \in Nat /\ st.duplicates \in Nat /\ st.unmatched \in Nat
  BY DEF Counters
<1>2. /\ r.received = st.received + 1
      /\ r.duplicates \in {st.duplicates, st.duplicates + 1}
      /\ r.unmatched \in {st.unmatched, st.unmatched + 1}
  BY Zenon DEF OnReply, Counters
<1> QED
  BY <1>1, <1>2 DEF Unique

(* Neither the reply counters nor the count change outside ReadFrame.      *)
LEMMA ReceivedStep ==
  ASSUME TypeOK, [Next]_vars
  PROVE  \/ ReadFrame
         \/ Unique(stats') = Unique(stats)
<1>1. CASE SendDueProbe \/ SendError \/ FloodSend
  <2>1. stats' \in {stats, OnSent(stats)}
    BY <1>1
    DEF SendDueProbe, SendError, FloodSend, Transmit, BuildFails, probingVars
  <2>2. /\ OnSent(stats).received = stats.received
        /\ OnSent(stats).duplicates = stats.duplicates
        /\ OnSent(stats).unmatched = stats.unmatched
    BY DEF OnSent, TypeOK, ProbingTypeOK, TableTypeOK, Counters
  <2> QED
    BY <2>1, <2>2 DEF Unique
<1>2. CASE Signals \/ FloodSignals
  BY <1>2 DEF Signals, FloodSignals, tableVars
<1>3. CASE StopSent \/ Arm \/ Block \/ Wait \/ FloodCheck \/ FloodTurn
  BY <1>3
  DEF StopSent, Arm, Block, Wait, PollFrame, PollNoFrame, Wakes, PollError,
      DrySleep, FloodCheck, FloodTurn, probingVars
<1>4. CASE ReadNothing \/ ReadEnd
  BY <1>4 DEF ReadNothing, ReadEnd, probingVars
<1>5. CASE Tick \/ SignalStop \/ SignalTstp \/ Finished \/ UNCHANGED vars
  BY <1>5 DEF Tick, SignalStop, SignalTstp, Finished, vars, probingVars
<1> QED
  BY <1>1, <1>2, <1>3, <1>4, <1>5 DEF Next, Loop, Read

(* What one frame may do to the counters.                                  *)
LEMMA FrameCounts ==
  ASSUME TypeOK, ReadFrame
  PROVE  /\ Unique(stats') <= Unique(stats) + 1
         /\ Unique(stats) \in Nat /\ Unique(stats') \in Nat
<1>1. stats \in Counters
  BY DEF TypeOK, ProbingTypeOK, TableTypeOK
<1>2. ASSUME NEW st \in Counters PROVE Unique(st) \in Nat
  BY DEF Unique, Counters
<1>3. PICK i \in DOMAIN wire : Receive(i)
  BY DEF ReadFrame
<1>4. stats' = stats \/ \E status : stats' = OnReply(stats, status)
  BY <1>3
  DEF Receive, ReceiveReply, IgnoreReply, ReceiveError, Lookup, Account,
      tableVars
<1> QED
  BY <1>1, <1>2, <1>4, UniqueGrows, OnReplyType

(* Reasons other than COUNT come from elsewhere.                           *)
LEMMA ReasonStep ==
  ASSUME TypeOK, [Next]_vars, ~ ReadFrame
  PROVE  /\ stop_reason' = "COUNT" => stop_reason = "COUNT"
         /\ stop_reason' = "NONE" => stop_reason = "NONE"
<1>1. ASSUME NEW r \in {"SIGNAL", "SENT", "EOF", "ERROR"},
             stop_reason' = Stopping(r)
      PROVE  /\ stop_reason' = "COUNT" => stop_reason = "COUNT"
             /\ stop_reason' = "NONE" => stop_reason = "NONE"
  BY <1>1 DEF Stopping
<1>2. CASE stop_reason' = stop_reason
  BY <1>2
<1>3. \/ stop_reason' = stop_reason
      \/ \E r \in {"SIGNAL", "SENT", "EOF", "ERROR"} : stop_reason' = Stopping(r)
  <2>1. CASE Signals \/ FloodSignals
    BY <2>1 DEF Signals, FloodSignals, HandlePendingSignals
  <2>2. CASE StopSent \/ SendError \/ PollError \/ ReadEnd \/ FloodSend
    BY <2>2 DEF StopSent, SendError, PollError, ReadEnd, FloodSend
  <2>3. CASE \/ SendDueProbe \/ Arm \/ Block \/ PollFrame \/ PollNoFrame
             \/ DrySleep \/ ReadNothing \/ FloodCheck \/ FloodTurn
    BY <2>3
    DEF SendDueProbe, Arm, Block, PollFrame, PollNoFrame, Wakes, DrySleep,
        ReadNothing, FloodCheck, FloodTurn
  <2>4. CASE Tick \/ SignalStop \/ SignalTstp \/ Finished \/ UNCHANGED vars
    BY <2>4 DEF Tick, SignalStop, SignalTstp, Finished, vars
  <2> QED
    BY <2>1, <2>2, <2>3, <2>4 DEF Next, Loop, Wait, Read
<1> QED
  BY <1>1, <1>3

(* On its way to the next frame the loop has no reason to stop.            *)
LEMMA NormalStep ==
  ASSUME TypeOK, pc \in NormalPlaces => stop_reason = "NONE", [Next]_vars
  PROVE  pc' \in NormalPlaces => stop_reason' = "NONE"
<1>1. CASE Signals
  BY <1>1 DEF Signals, NormalPlaces
<1>2. CASE SendDueProbe \/ Arm \/ Block \/ PollFrame \/ PollNoFrame
  BY <1>2
  DEF SendDueProbe, Arm, Block, PollFrame, PollNoFrame, Wakes, NormalPlaces
<1>3. CASE StopSent \/ SendError \/ PollError \/ DrySleep \/ Read
  BY <1>3
  DEF StopSent, SendError, PollError, DrySleep, Read, ReadFrame, ReadNothing,
      ReadEnd, NormalPlaces
<1>4. CASE FloodCheck \/ FloodSend \/ FloodSignals \/ FloodTurn
  BY <1>4 DEF FloodCheck, FloodSend, FloodSignals, FloodTurn, NormalPlaces
<1>5. CASE SignalStop \/ SignalTstp
  BY <1>5 DEF SignalStop, SignalTstp, Interrupted, NormalPlaces
<1>6. CASE Tick \/ Finished \/ UNCHANGED vars
  BY <1>6 DEF Tick, Finished, vars, NormalPlaces
<1> QED
  BY <1>1, <1>2, <1>3, <1>4, <1>5, <1>6 DEF Next, Loop, Wait

(* Every step keeps the count of answers below, or exactly at, --count.    *)
LEMMA CaughtStep ==
  ASSUME TypeOK, CaughtInv, [Next]_vars
  PROVE  CaughtInv'
<1>1. Count' = Count /\ Count \in Nat \cup {-1}
  BY QuietStep, EventLoopAssumption DEF TypeOK, ProbingTypeOK, Count
<1>2. pc' \in NormalPlaces => stop_reason' = "NONE"
  BY NormalStep DEF CaughtInv
<1>3. CASE ReadFrame
  <2>1. stop_reason = "NONE"
    BY <1>3 DEF ReadFrame, CaughtInv, NormalPlaces
  <2>2. stop_reason' = IF Count # -1 /\ Unique(stats') = Count
                       THEN "COUNT" ELSE "NONE"
    BY <1>3, <2>1 DEF ReadFrame, CountReached, Stopping
  <2>3. Count # -1 => Unique(stats) < Count
    BY <2>1 DEF CaughtInv, CountCaught
  <2>4. Count # -1 => Unique(stats') <= Count
    BY <1>1, <1>3, <2>3, FrameCounts
  <2>5. Unique(stats)' = Unique(stats')
    BY DEF Unique
  <2>6. CountCaught'
    BY <1>1, <1>3, <2>2, <2>4, <2>5, FrameCounts DEF CountCaught
  <2> QED BY <1>2, <2>6 DEF CaughtInv
<1>4. CASE ~ ReadFrame
  <2>1. Unique(stats)' = Unique(stats)
    BY <1>4, ReceivedStep DEF Unique
  <2>2. CountCaught'
    BY <1>1, <1>4, <2>1, ReasonStep DEF CaughtInv, CountCaught
  <2> QED BY <1>2, <2>2 DEF CaughtInv
<1> QED
  BY <1>3, <1>4

(***************************************************************************)
(* wait_packet() compares the answered probes with --count for equality:   *)
(* the moment is never missed, so that a session that goes on has fewer.   *)
(***************************************************************************)
THEOREM CountIsCaught == Spec => []CountCaught
<1>1. Init => CaughtInv
  <2> SUFFICES ASSUME Init PROVE CaughtInv
    OBVIOUS
  <2>1. Count \in (Nat \cup {-1}) \ {0} /\ Unique(stats) = 0
    BY EventLoopAssumption DEF Init, ProbingInit, TableInit, Count, Unique
  <2> QED
    BY <2>1 DEF Init, CaughtInv, CountCaught, NormalPlaces
<1>2. TypeOK /\ CaughtInv /\ [Next]_vars => CaughtInv'
  BY CaughtStep
<1>3. CaughtInv => CountCaught
  BY DEF CaughtInv
<1> QED
  BY <1>1, <1>2, <1>3, TypeCorrect, PTL DEF Spec
=============================================================================
