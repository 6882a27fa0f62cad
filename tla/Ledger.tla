------------------------------- MODULE Ledger -------------------------------
(***************************************************************************)
(* What the reply accounting promises, without slots, ports or sequence    *)
(* numbers: every answer is known by the probe it belongs to.  The last    *)
(* Window probes are open to be answered; the first answer of an open      *)
(* probe counts as one more probe answered, a further one as a duplicate,  *)
(* and the answer to anything else as unmatched (globals.h, struct         *)
(* hping_stats).                                                           *)
(***************************************************************************)
EXTENDS Integers, Sequences

CONSTANTS
  Window,     \* how many probes are remembered
  MaxCopies   \* how many answers one probe may get

VARIABLES
  issued,     \* probes recorded so far
  mail,       \* per datagram: its probe, answers left, answered before
  tally       \* received, duplicates, unmatched

vars == <<issued, mail, tally>>

Init ==
  /\ issued = 0
  /\ \A i \in DOMAIN mail :
       mail[i] = [probe |-> 0, copies |-> MaxCopies, answered |-> FALSE]
  /\ tally = [received |-> 0, duplicates |-> 0, unmatched |-> 0]

\* A datagram leaves; it is recorded (or is of a kind nobody records).
Issue(recorded, copies) ==
  /\ issued' = IF recorded THEN issued + 1 ELSE issued
  /\ mail' = Append(mail, [probe |-> IF recorded THEN issued + 1 ELSE 0,
                           copies |-> copies, answered |-> FALSE])
  /\ UNCHANGED tally

Remembered(p) == p > 0 /\ p > issued - Window

Take(i) == mail[i].copies > 0 /\ UNCHANGED issued

Counted(duplicates, unmatched) ==
  [received   |-> tally.received + 1,
   duplicates |-> tally.duplicates + duplicates,
   unmatched  |-> tally.unmatched + unmatched]

First(i) ==
  /\ Remembered(mail[i].probe) /\ ~ mail[i].answered
  /\ tally' = Counted(0, 0)

Duplicate(i) ==
  /\ Remembered(mail[i].probe) /\ mail[i].answered
  /\ tally' = Counted(1, 0)

Unmatched(i) ==
  /\ ~ Remembered(mail[i].probe)
  /\ tally' = Counted(0, 1)

Answer(i) ==
  /\ Take(i)
  /\ mail' = [mail EXCEPT ![i].copies = @ - 1, ![i].answered = TRUE]
  /\ First(i) \/ Duplicate(i) \/ Unmatched(i)

\* An answer that does not concern us.
Ignore(i) ==
  /\ Take(i)
  /\ mail' = [mail EXCEPT ![i].copies = @ - 1]
  /\ UNCHANGED tally

Next ==
  \/ \E recorded \in BOOLEAN, copies \in {0, MaxCopies} : Issue(recorded, copies)
  \/ \E i \in DOMAIN mail : Answer(i) \/ Ignore(i)

Spec == Init /\ [][Next]_vars
=============================================================================
