--------------------------- MODULE Scanner_proofs ---------------------------
(***************************************************************************)
(* Proofs about Scanner, for every number of ports and of probes, every    *)
(* interval and every timer.                                               *)
(***************************************************************************)
EXTENDS Scanner, TLAPS

(* An average of samples that are not negative is not negative.            *)
LEMMA DivisionType ==
  ASSUME NEW a \in Nat, NEW b \in Nat \ {0}
  PROVE  a \div b \in Nat
OBVIOUS

(* Products of natural numbers.                                            *)
LEMMA ProductType ==
  ASSUME NEW a \in Nat, NEW b \in Nat
  PROVE  a * b \in Nat
OBVIOUS

\* What makes TypeOK inductive: there is an average only when there are
\* samples, and a round does not probe more ports than it has looked at.
TypeInv ==
  /\ TypeOK
  /\ avrgcount = 0 => avrgtotal = 0
  /\ probed_this_round <= next_port

(* The pause between two rounds is none or a time.                         *)
LEMMA PauseType ==
  ASSUME TypeInv
  PROVE  RoundPause \in Nat \cup {-1}
<1>1. CASE avrgtotal = 0
  BY <1>1, ScannerAssumption DEF RoundPause
<1>2. CASE avrgtotal # 0
  <2>1. avrgcount \in Nat \ {0} /\ avrgtotal \in Nat /\ Milli \in Nat
    BY <1>2, ScannerAssumption DEF TypeInv, TypeOK
  <2>2. (avrgtotal * Milli) \div avrgcount \in Nat
    BY <2>1, ProductType, DivisionType
  <2> QED BY <1>2, <2>2 DEF RoundPause
<1> QED BY <1>1, <1>2

(* Samples keep the average an average.                                    *)
LEMMA SampleType ==
  ASSUME TypeInv, NEW p \in Ports, ReplyTcp(p)
  PROVE  avrgcount' \in Nat \ {0} /\ avrgtotal' \in Nat
<1>1. Rtt(p) \in Nat
  <2>1. age[p] \in Nat /\ Milli \in Nat \ {0} /\ Uptime \in Nat
    BY ScannerAssumption DEF TypeInv, TypeOK
  <2> QED BY <2>1, DivisionType DEF Rtt
<1> DEFINE n == avrgcount + 1
<1>2. n \in Nat \ {0} /\ avrgtotal \in Nat
  BY DEF TypeInv, TypeOK
<1>3. n * (Rtt(p) \div n) \in Nat
  <2> HIDE DEF n
  <2> QED BY <1>1, <1>2, DivisionType, ProductType
<1> QED
  BY <1>2, <1>3 DEF ReplyTcp

(* Time passes.                                                            *)
LEMMA TickType ==
  ASSUME TypeInv, Tick
  PROVE  TypeInv'
<1>1. /\ MaxAge \in Nat /\ HalfSecond \in Nat
      /\ age \in [Ports -> 0 .. MaxAge + 1]
      /\ send_in \in Nat /\ pause \in Nat \cup {-1} /\ elapsed \in Nat
  BY ScannerAssumption DEF TypeInv, TypeOK
<1>2. age' \in [Ports -> 0 .. MaxAge + 1]
  BY <1>1 DEF Tick, Elapse
<1>3. send_in' \in Nat /\ pause' \in Nat \cup {-1} /\ elapsed' \in Nat
  BY <1>1 DEF Tick, Elapse, CountDown
<1> QED
  BY <1>2, <1>3 DEF Tick, TypeInv, TypeOK, rounds, average, signals

(* One turn of the loop.                                                   *)
LEMMA LoopType ==
  ASSUME TypeInv, Loop
  PROVE  TypeInv'
<1> USE DEF table, rounds, timers, average, signals, Stop, Running
<1>1. CASE Leave
  BY <1>1 DEF Leave, TypeInv, TypeOK
<1>2. CASE NotDue
  BY <1>2 DEF NotDue, TypeInv, TypeOK
<1>3. CASE Finish
  BY <1>3 DEF Finish, TypeInv, TypeOK
<1>4. CASE NextRound
  <2>1. round' \in Nat \ {0} /\ next_port' = 0 /\ probed_this_round' = 0
        /\ MaxPort \in Nat
    BY <1>4, ScannerAssumption DEF NextRound, FirstPort, TypeInv, TypeOK
  <2>2. interval_us' \in Nat
    <3>1. interval_us \in Nat /\ Slow \in Nat
      BY ScannerAssumption DEF TypeInv, TypeOK
    <3>2. interval_us * Slow \in Nat
      BY <3>1, ProductType
    <3> QED BY <1>4, <3>1, <3>2 DEF NextRound
  <2>3. pause' \in Nat \cup {-1}
    BY <1>4, PauseType DEF NextRound
  <2> QED
    BY <1>4, <2>1, <2>2, <2>3 DEF NextRound, TypeInv, TypeOK
<1>5. CASE LastRound
  <2>1. next_port' = MaxPort + 1 /\ probed_this_round' = 0
        /\ MaxPort \in Nat /\ Second \in Nat
    BY <1>5, ScannerAssumption DEF LastRound
  <2>2. pause' \in Nat \cup {-1} /\ finishing' \in BOOLEAN
    BY <1>5, <2>1 DEF LastRound, TypeInv, TypeOK
  <2>3. /\ pc' \in {"step", "wait", "read", "done"}
        /\ stop_reason' \in {"NONE", "COUNT", "EOF", "ERROR"}
    BY <1>5 DEF LastRound, TypeInv, TypeOK
  <2> QED
    BY <1>5, <2>1, <2>2, <2>3 DEF LastRound, TypeInv, TypeOK
<1>6. ASSUME NEW p \in Ports, NEW ok \in BOOLEAN, SendProbe(p, ok)
      PROVE  TypeInv'
  <2>1. /\ p \in Nat /\ p <= MaxPort /\ p >= next_port /\ retry[p] > 0
        /\ MaxPort \in Nat /\ MaxAge \in Nat /\ Probes \in Nat
    BY <1>6, ScannerAssumption DEF SendProbe, NextPort, Wanted, Ports
  <2>2. retry' \in [Ports -> 0 .. Probes]
    BY <1>6, <2>1 DEF SendProbe, TypeInv, TypeOK
  <2>3. age' \in [Ports -> 0 .. MaxAge + 1]
    BY <1>6, <2>1 DEF SendProbe, TypeInv, TypeOK
  <2>4. /\ next_port' \in 0 .. MaxPort + 1
        /\ probed_this_round' \in 0 .. MaxPort + 1
        /\ probed_this_round' <= next_port'
    BY <1>6, <2>1 DEF SendProbe, TypeInv, TypeOK
  <2> QED
    BY <1>6, <2>2, <2>3, <2>4 DEF SendProbe, TypeInv, TypeOK
<1>7. ASSUME NEW p \in Ports, ReadReply(p)
      PROVE  TypeInv'
  <2>1. active' \in [Ports -> BOOLEAN]
    BY <1>7 DEF ReadReply, TypeInv, TypeOK
  <2>2. avrgcount' \in Nat /\ avrgtotal' \in Nat
        /\ (avrgcount' = 0 => avrgtotal' = 0)
    BY <1>7, SampleType DEF ReadReply, TypeInv, TypeOK
  <2> QED
    BY <1>7, <2>1, <2>2 DEF ReadReply, TypeInv, TypeOK
<1>8. CASE PollFrame \/ PollNoFrame \/ PollError
  BY <1>8 DEF PollFrame, PollNoFrame, PollError, Wakes, TypeInv, TypeOK
<1>9. CASE ReadOther \/ ReadEnd
  BY <1>9 DEF ReadOther, ReadEnd, TypeInv, TypeOK
<1> QED
  BY <1>1, <1>2, <1>3, <1>4, <1>5, <1>6, <1>7, <1>8, <1>9 DEF Loop

(* Type correctness, with its strengthening.                               *)
LEMMA TypeInvariant == Spec => []TypeInv
<1>1. Init => TypeInv
  <2> SUFFICES ASSUME Init PROVE TypeInv
    OBVIOUS
  <2>1. MaxPort \in Nat /\ MaxAge \in Nat /\ Probes \in Nat /\ Interval \in Nat
    BY ScannerAssumption
  <2>2. /\ active \in [Ports -> BOOLEAN]
        /\ retry \in [Ports -> 0 .. Probes]
        /\ age \in [Ports -> 0 .. MaxAge + 1]
    BY <2>1 DEF Init
  <2>3. selected \subseteq Ports
    BY DEF Init
  <2>4. /\ round \in Nat \ {0} /\ next_port \in 0 .. MaxPort + 1
        /\ probed_this_round \in 0 .. MaxPort + 1
        /\ interval_us \in Nat /\ send_in \in Nat
        /\ pause \in Nat \cup {-1} /\ elapsed \in Nat
        /\ avrgcount \in Nat /\ avrgtotal \in Nat
        /\ avrgtotal = 0 /\ probed_this_round <= next_port
    BY <2>1 DEF Init
  <2>5. /\ finishing \in BOOLEAN /\ sig_stop \in BOOLEAN /\ wake \in BOOLEAN
        /\ pc \in {"step", "wait", "read", "done"}
        /\ stop_reason \in {"NONE", "COUNT", "EOF", "ERROR"}
    BY DEF Init
  <2> QED
    BY <2>2, <2>3, <2>4, <2>5 DEF TypeInv, TypeOK
<1>2. TypeInv /\ [Next]_vars => TypeInv'
  <2> SUFFICES ASSUME TypeInv, [Next]_vars PROVE TypeInv'
    OBVIOUS
  <2>1. CASE SignalStop \/ SignalTstp
    BY <2>1 DEF SignalStop, SignalTstp, TypeInv, TypeOK, table, rounds, timers,
                average
  <2>2. CASE UNCHANGED vars \/ Finished
    BY <2>2 DEF Finished, vars, table, rounds, timers, average, signals,
                TypeInv, TypeOK
  <2> QED BY <2>1, <2>2, TickType, LoopType DEF Next
<1> QED BY <1>1, <1>2, PTL DEF Spec

(***************************************************************************)
(* The port table, the timers and the average keep their types; no port    *)
(* has less than no probes left, whatever arrives when.                    *)
(***************************************************************************)
THEOREM ScannerTypeCorrect == Spec => []TypeOK
<1>1. TypeInv => TypeOK
  BY DEF TypeInv
<1> QED BY <1>1, TypeInvariant, PTL

(***************************************************************************)
(* The wait is only entered when no stop was requested, and a signal that  *)
(* comes later leaves its byte in the pipe, which the wait alone takes.    *)
(***************************************************************************)
THEOREM SignalIsHeard == Spec => []SignalHeard
<1>1. Init => SignalHeard
  BY DEF Init, SignalHeard
<1>2. SignalHeard /\ [Next]_vars => SignalHeard'
  <2> SUFFICES ASSUME SignalHeard, [Next]_vars PROVE SignalHeard'
    OBVIOUS
  <2> USE DEF SignalHeard, signals
  <2>1. CASE Leave \/ NotDue \/ Finish \/ NextRound \/ LastRound
    BY <2>1 DEF Leave, NotDue, Finish, NextRound, LastRound, RoundOver, Due,
                Running, StopRequested, Stop
  <2>2. ASSUME NEW p \in Ports, NEW ok \in BOOLEAN, SendProbe(p, ok)
        PROVE  SignalHeard'
    BY <2>2 DEF SendProbe, Due, Running, StopRequested, Stop
  <2>3. ASSUME NEW p \in Ports, ReadReply(p)
        PROVE  SignalHeard'
    BY <2>3 DEF ReadReply
  <2>4. CASE PollFrame \/ PollNoFrame \/ PollError \/ ReadOther \/ ReadEnd
    BY <2>4 DEF PollFrame, PollNoFrame, PollError, ReadOther, ReadEnd, Wakes,
                Stop
  <2>5. CASE Tick \/ SignalStop \/ SignalTstp
    BY <2>5 DEF Tick, SignalStop, SignalTstp
  <2>6. CASE UNCHANGED vars \/ Finished
    BY <2>6 DEF Finished, vars
  <2> QED BY <2>1, <2>2, <2>3, <2>4, <2>5, <2>6 DEF Next, Loop
<1> QED BY <1>1, <1>2, PTL DEF Spec

-----------------------------------------------------------------------------
(* The rounds.                                                             *)

\* The probes a port that has not answered has left, by where the round is.
Left(p) ==
  IF round > Probes THEN 0
  ELSE IF p < next_port THEN Probes - round ELSE Probes - round + 1

\* Every port that has not answered got all its probes in earlier rounds.
Given == \A p \in Ports : active[p] => retry[p] = 0 /\ round > Probes

RoundInv ==
  /\ \A p \in Ports : active[p] => p \in selected /\ retry[p] = Left(p)
  /\ probed_this_round > 0 => round <= Probes
  /\ probed_this_round = 0 => next_port = 0 \/ Given
  /\ finishing => Given
  /\ stop_reason = "COUNT" => pc = "done" /\ Given

(* A port is probed by its turn: its predecessors have had theirs.         *)
LEMMA ProbeInRound ==
  ASSUME TypeInv, RoundInv, NEW p \in Ports, NEW ok \in BOOLEAN, SendProbe(p, ok)
  PROVE  /\ round <= Probes /\ retry[p] = Probes - round + 1 /\ p \in selected
         /\ ~ finishing /\ stop_reason = "NONE" /\ active[p]
         /\ \A q \in Ports : q >= next_port /\ q < p => ~ active[q]
<1>1. /\ active[p] /\ retry[p] > 0 /\ p >= next_port
      /\ \A q \in Ports : q < p => ~ Wanted(q)
      /\ stop_reason = "NONE"
  BY DEF SendProbe, NextPort, Wanted, Due, Running, StopRequested
<1>2. /\ round \in Nat /\ Probes \in Nat /\ next_port \in Nat /\ p \in Nat
      /\ Ports \subseteq Nat
  BY ScannerAssumption DEF TypeInv, TypeOK, Ports
<1>3. round <= Probes /\ retry[p] = Probes - round + 1 /\ p \in selected
  BY <1>1, <1>2 DEF RoundInv, Left
<1>4. ~ finishing
  BY <1>1, <1>2, <1>3 DEF RoundInv, Given
<1>5. ASSUME NEW q \in Ports, q >= next_port, q < p
      PROVE  ~ active[q]
  <2> SUFFICES ASSUME active[q] PROVE FALSE
    OBVIOUS
  <2>1. retry[q] = Probes - round + 1
    BY <1>2, <1>3, <1>5 DEF RoundInv, Left
  <2> QED BY <1>1, <1>2, <1>3, <1>5, <2>1 DEF Wanted
<1> QED BY <1>1, <1>3, <1>4, <1>5

(* When a round has probed nothing there is nothing left to probe.         *)
LEMMA NothingLeft ==
  ASSUME TypeInv, RoundInv, RoundOver, probed_this_round = 0
  PROVE  Given
<1>1. CASE next_port = 0
  <2> SUFFICES ASSUME NEW p \in Ports, active[p]
               PROVE  retry[p] = 0 /\ round > Probes
    BY DEF Given
  <2>1. /\ round \in Nat /\ Probes \in Nat /\ p \in Nat
        /\ retry[p] \in 0 .. Probes
    BY ScannerAssumption DEF TypeInv, TypeOK, Ports
  <2>2. retry[p] = 0
    BY <1>1, <2>1 DEF RoundOver, Wanted
  <2>3. retry[p] = Left(p)
    BY DEF RoundInv
  <2> QED BY <1>1, <2>1, <2>2, <2>3 DEF Left
<1> QED BY <1>1 DEF RoundInv

(* When a round has probed something, all of it was probed.                *)
LEMMA RoundComplete ==
  ASSUME TypeInv, RoundInv, RoundOver, probed_this_round > 0,
         NEW p \in Ports, active[p]
  PROVE  round <= Probes /\ retry[p] = Probes - round /\ p \in selected
<1>1. /\ round \in Nat /\ Probes \in Nat /\ p \in Nat /\ next_port \in Nat
      /\ retry[p] \in 0 .. Probes
  BY ScannerAssumption DEF TypeInv, TypeOK, Ports
<1>2. round <= Probes /\ retry[p] = Left(p) /\ p \in selected
  BY DEF RoundInv
<1>3. p >= next_port => retry[p] = 0
  BY <1>1 DEF RoundOver, Wanted
<1> QED BY <1>1, <1>2, <1>3 DEF Left

(* The rounds stay in step, whatever answers come in.                      *)
LEMMA RoundStep ==
  ASSUME TypeInv, RoundInv, [Next]_vars
  PROVE  RoundInv'
<1> USE DEF table, rounds, timers, average, signals, Stop, Running, StopRequested
<1>1. ASSUME NEW p \in Ports, NEW ok \in BOOLEAN, SendProbe(p, ok)
      PROVE  RoundInv'
  <2>1. /\ round \in Nat /\ Probes \in Nat /\ next_port \in Nat /\ p \in Nat
        /\ Ports \subseteq Nat /\ probed_this_round \in Nat
        /\ retry \in [Ports -> 0 .. Probes]
    BY ScannerAssumption DEF TypeInv, TypeOK, Ports
  <2>2. /\ round <= Probes /\ retry[p] = Probes - round + 1 /\ p \in selected
        /\ ~ finishing /\ stop_reason = "NONE"
        /\ \A q \in Ports : q >= next_port /\ q < p => ~ active[q]
    BY <1>1, ProbeInRound
  <2>3. /\ retry' = [retry EXCEPT ![p] = @ - 1] /\ next_port' = p + 1
        /\ probed_this_round' = probed_this_round + 1 /\ p >= next_port
        /\ stop_reason' # "COUNT"
        /\ UNCHANGED <<selected, active, round, finishing>>
    BY <1>1, <2>2 DEF SendProbe, NextPort, Wanted
  <2>4. ASSUME NEW q \in Ports, active'[q]
        PROVE  q \in selected' /\ retry'[q] = Left(q)'
    <3>1. active[q] /\ q \in selected /\ retry[q] = Left(q)
      BY <2>3, <2>4 DEF RoundInv
    <3>2. CASE q = p
      BY <2>1, <2>2, <2>3, <3>1, <3>2 DEF Left
    <3>3. CASE q # p
      <4>1. retry'[q] = retry[q] /\ (q < p + 1 => q < next_port)
        BY <2>1, <2>2, <2>3, <3>1, <3>3
      <4> QED BY <2>1, <2>2, <2>3, <3>1, <4>1 DEF Left
    <3> QED BY <3>2, <3>3
  <2> QED BY <2>1, <2>2, <2>3, <2>4 DEF RoundInv
<1>2. ASSUME NextRound
      PROVE  RoundInv'
  <2>1. /\ round \in Nat /\ Probes \in Nat /\ probed_this_round \in Nat
        /\ Ports \subseteq Nat
    BY ScannerAssumption DEF TypeInv, TypeOK, Ports
  <2>2. /\ round' = round + 1 /\ next_port' = 0 /\ probed_this_round' = 0
        /\ UNCHANGED <<selected, active, retry, finishing>>
        /\ stop_reason = "NONE" /\ stop_reason' = stop_reason
        /\ RoundOver /\ probed_this_round > 0
    BY <1>2 DEF NextRound, FirstPort, RoundOver, Due
  <2>3. ASSUME NEW q \in Ports, active'[q]
        PROVE  q \in selected' /\ retry'[q] = Left(q)'
    BY <2>1, <2>2, <2>3, RoundComplete DEF Left
  <2>4. Given => Given'
    BY <2>1, <2>2 DEF Given
  <2> QED BY <2>1, <2>2, <2>3, <2>4 DEF RoundInv
<1>3. ASSUME LastRound
      PROVE  RoundInv'
  <2>1. /\ round \in Nat /\ Probes \in Nat /\ MaxPort \in Nat
        /\ next_port \in 0 .. MaxPort + 1
    BY ScannerAssumption DEF TypeInv, TypeOK
  <2>2. /\ next_port' = MaxPort + 1 /\ probed_this_round = 0
        /\ UNCHANGED <<selected, active, retry, round, probed_this_round>>
        /\ stop_reason' = "COUNT" => pc' = "done"
        /\ stop_reason = "NONE" /\ RoundOver
    BY <1>3 DEF LastRound, RoundOver, Due
  <2>3. Given /\ Given'
    BY <2>2, NothingLeft DEF Given
  <2>4. ASSUME NEW q \in Ports, active'[q]
        PROVE  q \in selected' /\ retry'[q] = Left(q)'
    <3>1. q \in selected /\ retry[q] = 0 /\ round > Probes
      BY <2>2, <2>3, <2>4 DEF Given, RoundInv
    <3> QED BY <2>2, <3>1 DEF Left
  <2> QED BY <2>2, <2>3, <2>4 DEF RoundInv
<1>4. ASSUME NEW p \in Ports, ReadReply(p)
      PROVE  RoundInv'
  <2>1. /\ \A q \in Ports : active'[q] => active[q]
        /\ UNCHANGED <<selected, retry, rounds, stop_reason>>
        /\ pc = "read"
    BY <1>4 DEF ReadReply, TypeInv, TypeOK
  <2>2. \A q \in Ports : Left(q)' = Left(q)
    BY <2>1 DEF Left
  <2>3. Given => Given'
    BY <2>1 DEF Given
  <2> QED BY <2>1, <2>2, <2>3 DEF RoundInv
<1>5. ASSUME /\ UNCHANGED <<selected, active, retry, rounds>>
             /\ stop_reason' = "COUNT" =>
                  pc' = "done" /\ (stop_reason = "COUNT" \/ finishing)
      PROVE  RoundInv'
  <2>1. \A q \in Ports : Left(q)' = Left(q)
    BY <1>5 DEF Left
  <2>2. Given => Given'
    BY <1>5 DEF Given
  <2> QED BY <1>5, <2>1, <2>2 DEF RoundInv
<1>6. CASE Leave \/ NotDue \/ Finish
  BY <1>5, <1>6 DEF Leave, NotDue, Finish, RoundInv
<1>7. CASE PollFrame \/ PollNoFrame \/ PollError \/ ReadOther \/ ReadEnd
  BY <1>5, <1>7 DEF PollFrame, PollNoFrame, PollError, ReadOther, ReadEnd, Wakes,
                    RoundInv
<1>8. CASE Tick \/ SignalStop \/ SignalTstp \/ UNCHANGED vars \/ Finished
  BY <1>5, <1>8 DEF Tick, SignalStop, SignalTstp, Finished, vars, RoundInv
<1> QED
  BY <1>1, <1>2, <1>3, <1>4, <1>6, <1>7, <1>8 DEF Next, Loop

(* The rounds are in step in every state of a scan.                        *)
LEMMA RoundInvariant == Spec => [](TypeInv /\ RoundInv)
<1>1. Init => RoundInv
  <2> SUFFICES ASSUME Init PROVE RoundInv
    OBVIOUS
  <2>1. Probes \in Nat /\ Probes >= 3 /\ Ports \subseteq Nat
    BY ScannerAssumption DEF Ports
  <2>2. ASSUME NEW p \in Ports, active[p]
        PROVE  p \in selected /\ retry[p] = Left(p)
    <3>1. p \in selected
      BY <2>2, Zenon DEF Init
    <3>2. retry[p] = Probes
      BY <3>1 DEF Init
    <3> QED BY <2>1, <3>1, <3>2 DEF Init, Left
  <2> QED BY <2>1, <2>2 DEF Init, RoundInv
<1>2. TypeInv /\ RoundInv /\ [Next]_vars => RoundInv'
  BY RoundStep
<1> QED BY <1>1, <1>2, TypeInvariant, PTL DEF Spec

-----------------------------------------------------------------------------
(* The survey.                                                             *)

Asked == [p \in Ports |-> IF p \in selected THEN Probes - retry[p] ELSE 0]
Silent == {p \in Ports : active[p]}

(***************************************************************************)
(* The rounds implement the survey: no port is asked twice before the      *)
(* others were asked once, and the scan is complete when all were asked.   *)
(***************************************************************************)
THEOREM RoundsAreSurvey == Spec => SurveySpec
<1> USE DEF table, rounds, timers, average, signals, Stop, Running, StopRequested
<1>1. Init => Answers!Init
  <2> SUFFICES ASSUME Init PROVE Answers!Init
    OBVIOUS
  <2>1. Probes \in Nat
    BY ScannerAssumption
  <2>2. Asked = [p \in Ports |-> 0]
    BY <2>1 DEF Init, Asked
  <2> QED BY <2>2 DEF Init, Answers!Init, Asked
<1>2. TypeInv /\ RoundInv /\ [Next]_vars => [Answers!Next]_Answers!vars
  <2> SUFFICES ASSUME TypeInv, RoundInv, [Next]_vars
               PROVE  Answers!Next \/ UNCHANGED Answers!vars
    OBVIOUS
  <2>1. ASSUME /\ Asked' = Asked /\ Silent' = Silent
               /\ stop_reason' = "COUNT" <=> stop_reason = "COUNT"
        PROVE  UNCHANGED Answers!vars
    BY <2>1 DEF Answers!vars, Asked, Silent
  <2>2. ASSUME /\ Asked' = Asked /\ Silent' = Silent /\ Given
               /\ stop_reason' = "COUNT"
        PROVE  Answers!Complete
    <3>1. ASSUME NEW p \in Silent
          PROVE  Asked[p] = Probes
      <4>1. p \in Ports /\ active[p] /\ retry[p] = 0 /\ p \in selected
        BY <2>2 DEF Silent, Given, RoundInv
      <4> QED BY <4>1, ScannerAssumption DEF Asked
    <3> QED BY <2>2, <3>1 DEF Answers!Complete, Asked, Silent
  <2>3. ASSUME NEW p \in Ports, NEW ok \in BOOLEAN, SendProbe(p, ok)
        PROVE  Answers!Ask(p) /\ p \in Silent
    <3>1. /\ round <= Probes /\ retry[p] = Probes - round + 1 /\ p \in selected
          /\ stop_reason = "NONE" /\ active[p]
      BY <2>3, ProbeInRound
    <3>2. /\ round \in Nat \ {0} /\ Probes \in Nat
          /\ retry \in [Ports -> 0 .. Probes]
      BY ScannerAssumption DEF TypeInv, TypeOK
    <3>3. /\ retry' = [retry EXCEPT ![p] = @ - 1] /\ Silent' = Silent
          /\ selected' = selected /\ stop_reason' # "COUNT"
      BY <2>3, <3>1 DEF SendProbe, Silent
    <3>4. Asked[p] < Probes
      BY <3>1, <3>2 DEF Asked
    <3>5. ASSUME NEW q \in Silent
          PROVE  Asked[p] <= Asked[q]
      <4>1. q \in Ports /\ active[q] /\ q \in selected /\ retry[q] = Left(q)
        BY DEF Silent, RoundInv
      <4>2. retry[q] <= retry[p]
        BY <3>1, <3>2, <4>1 DEF Left
      <4> QED BY <3>1, <3>2, <4>1, <4>2 DEF Asked
    <3>6. Asked' = [Asked EXCEPT ![p] = @ + 1]
      <4>1. ASSUME NEW q \in Ports
            PROVE  (IF q \in selected THEN Probes - retry'[q] ELSE 0)
                     = [Asked EXCEPT ![p] = @ + 1][q]
        <5>1. CASE q = p
          <6>1. retry'[q] = retry[p] - 1 /\ Asked[p] = Probes - retry[p]
            BY <3>1, <3>2, <3>3, <5>1 DEF Asked
          <6>2. [Asked EXCEPT ![p] = @ + 1][q] = Asked[p] + 1
            BY <5>1 DEF Asked
          <6> QED BY <3>1, <3>2, <5>1, <6>1, <6>2
        <5>2. CASE q # p
          <6>1. retry'[q] = retry[q]
            BY <3>2, <3>3, <5>2
          <6> QED BY <5>2, <6>1 DEF Asked
        <5> QED BY <5>1, <5>2
      <4> QED BY <3>3, <4>1 DEF Asked
    <3> QED
      BY <3>1, <3>3, <3>4, <3>5, <3>6 DEF Answers!Ask, Asked, Silent
  <2>4. ASSUME NEW p \in Ports, ReadReply(p)
        PROVE  Answers!Answer(p) /\ p \in Silent
    <3>1. /\ active[p] /\ active' = [active EXCEPT ![p] = FALSE]
          /\ stop_reason # "COUNT" /\ UNCHANGED <<selected, retry, stop_reason>>
      BY <2>4 DEF ReadReply, RoundInv
    <3>2. Silent' = Silent \ {p}
      BY <3>1 DEF Silent, TypeInv, TypeOK
    <3> QED BY <3>1, <3>2 DEF Answers!Answer, Silent
  <2>5. CASE LastRound \/ Finish
    <3>1. CASE stop_reason' = "COUNT"
      <4>1. Given
        BY <2>5, NothingLeft DEF LastRound, Finish, RoundInv
      <4> QED
        BY <2>2, <2>5, <3>1, <4>1 DEF LastRound, Finish, Asked, Silent, Answers!Next
    <3>2. CASE stop_reason' # "COUNT"
      BY <2>1, <2>5, <3>2 DEF LastRound, Finish, RoundOver, Due, Asked, Silent
    <3> QED BY <3>1, <3>2
  <2>6. CASE Leave \/ NotDue \/ NextRound
    BY <2>1, <2>6 DEF Leave, NotDue, NextRound, Asked, Silent
  <2>7. CASE PollFrame \/ PollNoFrame \/ PollError \/ ReadOther \/ ReadEnd
    BY <2>1, <2>7 DEF PollFrame, PollNoFrame, PollError, ReadOther, ReadEnd,
                      Wakes, Asked, Silent, RoundInv
  <2>8. CASE Tick \/ SignalStop \/ SignalTstp \/ UNCHANGED vars \/ Finished
    BY <2>1, <2>8 DEF Tick, SignalStop, SignalTstp, Finished, vars, Asked, Silent
  <2>9. ASSUME NEW p \in Silent, Answers!Ask(p) \/ Answers!Answer(p)
        PROVE  Answers!Next
    BY <2>9 DEF Answers!Next, Silent
  <2> QED
    BY <2>3, <2>4, <2>5, <2>6, <2>7, <2>8, <2>9 DEF Next, Loop
<1> QED
  BY <1>1, <1>2, RoundInvariant, PTL DEF Spec, SurveySpec, Answers!Spec

-----------------------------------------------------------------------------
(* The last chance.                                                        *)

\* While no reply has given an average, a port without probes left has had a
\* second, or is given the rest of it by the pause.
ChanceInv ==
  avrgtotal = 0 /\ round > Probes =>
    \A p \in Ports : active[p] =>
      age[p] >= Second \/ (pause # -1 /\ age[p] + pause >= Second)

(* A pause counts down as the ages count up.                               *)
LEMMA ChanceTick ==
  ASSUME TypeInv, RoundInv, ChanceInv, Tick
  PROVE  ChanceInv'
<1>1. /\ MaxAge \in Nat /\ Second \in Nat /\ MaxAge >= Second
      /\ Probes \in Nat /\ Probes >= 3
  BY ScannerAssumption
<1>2. /\ UNCHANGED <<selected, active, retry, round, avrgtotal>>
      /\ pause' = CountDown(pause) /\ pause \in Nat \cup {-1}
  BY DEF Tick, rounds, average, TypeInv, TypeOK
<1> SUFFICES ASSUME avrgtotal = 0, round > Probes, NEW p \in Ports, active[p]
             PROVE  \/ age'[p] >= Second
                    \/ pause' # -1 /\ age'[p] + pause' >= Second
  BY <1>2 DEF ChanceInv
<1>3. age[p] \in 0 .. MaxAge + 1
  BY DEF TypeInv, TypeOK
<1>4. Probed(p)
  BY <1>1 DEF RoundInv, Left, Probed
<1>5. age'[p] = Elapse(age[p], MaxAge + 1)
  BY <1>4 DEF Tick
<1>6. age[p] >= Second \/ (pause # -1 /\ age[p] + pause >= Second)
  BY DEF ChanceInv
<1> QED
  BY <1>1, <1>2, <1>3, <1>5, <1>6 DEF Elapse, CountDown

(* The average only loses its zero.                                        *)
LEMMA AverageGrows ==
  ASSUME TypeInv, NEW p \in Ports, ReplyTcp(p), avrgtotal' = 0
  PROVE  avrgtotal = 0
<1>1. Rtt(p) \in Nat
  <2>1. age[p] \in Nat /\ Milli \in Nat \ {0} /\ Uptime \in Nat
    BY ScannerAssumption DEF TypeInv, TypeOK
  <2> QED BY <2>1, DivisionType DEF Rtt
<1> DEFINE n == avrgcount + 1
<1>2. n \in Nat \ {0} /\ avrgtotal \in Nat
  BY DEF TypeInv, TypeOK
<1>3. n * (Rtt(p) \div n) \in Nat
  <2> HIDE DEF n
  <2> QED BY <1>1, <1>2, DivisionType, ProductType
<1> QED BY <1>2, <1>3 DEF ReplyTcp

(* The chance is kept by every step.                                       *)
LEMMA ChanceStep ==
  ASSUME TypeInv, RoundInv, ChanceInv, [Next]_vars
  PROVE  ChanceInv'
<1> USE DEF table, rounds, timers, average, signals, Stop, Running
<1>1. ASSUME NEW p \in Ports, NEW ok \in BOOLEAN, SendProbe(p, ok)
      PROVE  ChanceInv'
  <2>1. round \in Nat /\ Probes \in Nat /\ round <= Probes /\ round' = round
    BY <1>1, ProbeInRound, ScannerAssumption DEF SendProbe, TypeInv, TypeOK
  <2> QED BY <2>1 DEF ChanceInv
<1>2. CASE NextRound
  <2>1. /\ round \in Nat /\ Probes \in Nat /\ Probes >= 3 /\ Second \in Nat \ {0}
        /\ age \in [Ports -> 0 .. MaxAge + 1] /\ MaxAge \in Nat
    BY ScannerAssumption DEF TypeInv, TypeOK
  <2>2. /\ pause' = RoundPause /\ round' = round + 1
        /\ UNCHANGED <<age, active, avrgtotal>>
    BY <1>2 DEF NextRound
  <2>3. ASSUME avrgtotal = 0, round' > Probes
        PROVE  pause' = Second
    BY <2>1, <2>2, <2>3 DEF RoundPause
  <2>4. ASSUME NEW p \in Ports
        PROVE  age[p] + Second >= Second /\ Second # -1
    BY <2>1
  <2> QED BY <2>2, <2>3, <2>4 DEF ChanceInv
<1>3. CASE LastRound
  <2>1. /\ pause \in Nat \cup {-1} /\ pause <= 0 /\ Second \in Nat
        /\ age \in [Ports -> 0 .. MaxAge + 1] /\ MaxAge \in Nat
    BY <1>3, ScannerAssumption DEF LastRound, RoundOver, Due, TypeInv, TypeOK
  <2>2. UNCHANGED <<age, active, avrgtotal, round>>
    BY <1>3 DEF LastRound
  <2>3. ASSUME NEW p \in Ports, avrgtotal = 0, round > Probes, active[p]
        PROVE  age[p] >= Second
    BY <2>1, <2>3 DEF ChanceInv
  <2> QED BY <2>2, <2>3 DEF ChanceInv
<1>4. CASE NotDue \/ Finish
  <2>1. /\ pause \in Nat \cup {-1} /\ Second \in Nat
        /\ age \in [Ports -> 0 .. MaxAge + 1] /\ MaxAge \in Nat
        /\ UNCHANGED <<age, active, avrgtotal, round>>
        /\ pause' = pause \/ pause <= 0
    BY <1>4, ScannerAssumption DEF NotDue, Finish, TypeInv, TypeOK
  <2> QED BY <2>1 DEF ChanceInv
<1>5. ASSUME NEW p \in Ports, ReadReply(p)
      PROVE  ChanceInv'
  <2>1. /\ \A q \in Ports : active'[q] => active[q]
        /\ UNCHANGED <<age, round, pause>>
        /\ avrgtotal' = 0 => avrgtotal = 0
    BY <1>5, AverageGrows DEF ReadReply, TypeInv, TypeOK
  <2> QED BY <2>1 DEF ChanceInv
<1>6. CASE Leave \/ PollFrame \/ PollNoFrame \/ PollError \/ ReadOther \/ ReadEnd
  BY <1>6 DEF Leave, PollFrame, PollNoFrame, PollError, ReadOther, ReadEnd, Wakes,
              ChanceInv
<1>7. CASE SignalStop \/ SignalTstp \/ UNCHANGED vars \/ Finished
  BY <1>7 DEF SignalStop, SignalTstp, Finished, vars, ChanceInv
<1> QED
  BY <1>1, <1>2, <1>3, <1>4, <1>5, <1>6, <1>7, ChanceTick DEF Next, Loop

(* A scan is complete only after the last chance.                          *)
LEMMA CompleteStep ==
  ASSUME TypeInv, RoundInv, ChanceInv, LastChance, [Next]_vars
  PROVE  LastChance'
<1> USE DEF table, rounds, timers, average, signals, Stop, Running
<1>1. ASSUME pause <= 0, Given, UNCHANGED <<selected, active, retry, age, avrgtotal>>
      PROVE  LastChance'
  <2> SUFFICES ASSUME NEW p \in selected, active[p]
               PROVE  retry[p] = 0 /\ (avrgtotal = 0 => age[p] >= Second)
    BY <1>1 DEF LastChance
  <2>1. /\ pause \in Nat \cup {-1} /\ age[p] \in Nat /\ Second \in Nat
        /\ p \in Ports
    BY ScannerAssumption DEF TypeInv, TypeOK
  <2>2. retry[p] = 0 /\ round > Probes
    BY <1>1, <2>1 DEF Given
  <2> QED BY <1>1, <2>1, <2>2 DEF ChanceInv
<1>2. CASE Finish \/ LastRound
  <2>1. Given
    BY <1>2, NothingLeft DEF Finish, LastRound, RoundInv
  <2>2. pause <= 0
    BY <1>2 DEF Finish, LastRound, RoundOver, Due
  <2> QED BY <1>1, <1>2, <2>1, <2>2 DEF Finish, LastRound
<1>3. ASSUME stop_reason' # "COUNT"
      PROVE  LastChance'
  BY <1>3 DEF LastChance
<1>4. CASE stop_reason = "COUNT" /\ ~ (Finish \/ LastRound)
  <2>1. pc = "done"
    BY <1>4 DEF RoundInv
  <2>2. UNCHANGED vars
    <3>1. ~ Loop
      BY <2>1 DEF Loop, Leave, NotDue, Finish, NextRound, LastRound, RoundOver, Due,
                  SendProbe, ReadReply, PollFrame, PollNoFrame, PollError, Wakes,
                  ReadOther, ReadEnd
    <3> QED
      BY <2>1, <3>1 DEF Next, Tick, SignalStop, SignalTstp, Finished
  <2> QED BY <2>2 DEF vars, LastChance
<1>5. CASE stop_reason # "COUNT" /\ ~ (Finish \/ LastRound)
  <2>1. ASSUME NEW p \in Ports, NEW ok \in BOOLEAN, SendProbe(p, ok)
        PROVE  stop_reason' # "COUNT"
    BY <1>5, <2>1 DEF SendProbe
  <2>2. ASSUME NEW p \in Ports, ReadReply(p)
        PROVE  stop_reason' # "COUNT"
    BY <1>5, <2>2 DEF ReadReply
  <2>3. CASE Leave \/ NotDue \/ NextRound
    BY <1>3, <1>5, <2>3 DEF Leave, NotDue, NextRound
  <2>4. CASE PollFrame \/ PollNoFrame \/ PollError \/ ReadOther \/ ReadEnd
    BY <1>3, <1>5, <2>4 DEF PollFrame, PollNoFrame, PollError, ReadOther, ReadEnd,
                            Wakes
  <2>5. CASE Tick \/ SignalStop \/ SignalTstp \/ UNCHANGED vars \/ Finished
    BY <1>3, <1>5, <2>5 DEF Tick, SignalStop, SignalTstp, Finished, vars
  <2> QED BY <1>3, <1>5, <2>1, <2>2, <2>3, <2>4, <2>5 DEF Next, Loop
<1> QED BY <1>2, <1>4, <1>5

(***************************************************************************)
(* No port is reported as silent before all its probes were sent and, when *)
(* no reply gave an average, a second has passed since the last of them.   *)
(***************************************************************************)
THEOREM EveryPortHasItsChance == Spec => []LastChance
<1>1. Init => ChanceInv /\ LastChance
  BY ScannerAssumption DEF Init, ChanceInv, LastChance
<1>2. TypeInv /\ RoundInv /\ ChanceInv /\ LastChance /\ [Next]_vars
        => ChanceInv' /\ LastChance'
  BY ChanceStep, CompleteStep
<1> QED BY <1>1, <1>2, RoundInvariant, PTL DEF Spec
=============================================================================
