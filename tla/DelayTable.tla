----------------------------- MODULE DelayTable -----------------------------
(***************************************************************************)
(* The replies delay table (src/src/rtt.c) and the reply counters          *)
(* (src/src/statistics.c).                                                 *)
(*                                                                         *)
(* The table is a ring of TABLESIZE slots.  A sender records every probe   *)
(* in the next slot; a receiver looks a reply up, learns whether the probe *)
(* was still open, and closes it.  The time stamp sent_us of a slot is     *)
(* abstracted to the ordinal of the entry (1 for the first probe that was  *)
(* recorded, 0 for a slot that was never written): two stamps differ       *)
(* exactly when they belong to different probes, so the ordinal says whose *)
(* round trip time a reply is measured against.                            *)
(***************************************************************************)
EXTENDS Integers, FiniteSets

CONSTANTS
  TableSize,   \* TABLESIZE of hping2.h (400)
  IntMax       \* INT_MAX, the limit of ctx.delaytable_index

ASSUME TableSizeAssumption == TableSize \in Nat \ {0}
ASSUME IntMaxAssumption == IntMax \in Nat \ {0}

VARIABLES
  delaytable,        \* ctx.delaytable
  delaytable_index,  \* ctx.delaytable_index
  stats              \* struct hping_stats, the counters of replies

tableVars == <<delaytable, delaytable_index, stats>>

S_SENT    == "S_SENT"
S_RECV    == "S_RECV"
S_UNKNOWN == "S_UNKNOWN"

Slots == 0 .. TableSize - 1

Element == [seq : Int, src : Int, stamp : Int, status : {S_SENT, S_RECV}]

Counters == [sent : Nat, received : Nat, duplicates : Nat, unmatched : Nat]

\* hping_context_init(): seq is -1, everything else is zeroed.
EmptyElement == [seq |-> -1, src |-> 0, stamp |-> 0, status |-> S_SENT]

TableInit ==
  /\ delaytable = [s \in Slots |-> EmptyElement]
  /\ delaytable_index = 0
  /\ stats = [sent |-> 0, received |-> 0, duplicates |-> 0, unmatched |-> 0]

-----------------------------------------------------------------------------
(* C integer arithmetic on the index.                                      *)

\* index++ on an int.  Past INT_MAX this is undefined; the builds wrap.
Increment(n) == IF n = IntMax THEN - IntMax - 1 ELSE n + 1

\* The C remainder takes the sign of the dividend.
Remainder(n, m) == IF n >= 0 THEN n % m ELSE - ((- n) % m)

\* The slot delaytable_add() writes next.
NextSlot == Remainder(delaytable_index, TableSize)

-----------------------------------------------------------------------------
(* delaytable_add(): a slot that is not one of the table's is a write      *)
(* outside the array, which leaves the table itself alone.                 *)

delaytable_add(seq, src) ==
  /\ delaytable' =
       [s \in Slots |->
          IF s = NextSlot
          THEN [seq |-> seq, src |-> src, stamp |-> delaytable_index + 1,
                status |-> S_SENT]
          ELSE delaytable[s]]
  /\ delaytable_index' = Increment(delaytable_index)

(***************************************************************************)
(* rtt(): a nonzero sequence number is searched in the seq column, a zero  *)
(* one means "unknown" and the port is searched in the src column; the     *)
(* first slot that matches wins.                                           *)
(***************************************************************************)
Matching(seq, port) ==
  {s \in Slots : IF seq # 0 THEN delaytable[s].seq = seq
                            ELSE delaytable[s].src = port}

First(S) == CHOOSE s \in S : \A t \in S : s <= t

RttStatus(seq, port) ==
  IF Matching(seq, port) = {} THEN S_UNKNOWN
  ELSE delaytable[First(Matching(seq, port))].status

\* A bug: the entry stays open, so that every further reply is a first one.
RttTable_StaysOpen(seq, port) ==
  IF Matching(seq, port) = {} THEN delaytable
  ELSE [delaytable EXCEPT ![First(Matching(seq, port))].status = S_SENT]

\* The table after rtt(): the entry that was found is closed.
RttTable(seq, port) ==
  IF Matching(seq, port) = {} THEN delaytable
  ELSE [delaytable EXCEPT ![First(Matching(seq, port))].status = S_RECV]

\* The stamp the round trip time is computed from (0 when there is none).
RttStamp(seq, port) ==
  IF Matching(seq, port) = {} THEN 0
  ELSE delaytable[First(Matching(seq, port))].stamp

-----------------------------------------------------------------------------
(* Counters.                                                               *)

\* A bug: a reply nobody waits for is a duplicate as well.
OnReply_NotFirst(st, status) ==
  [st EXCEPT !.received = @ + 1,
             !.duplicates = IF status # S_SENT THEN @ + 1 ELSE @,
             !.unmatched = IF status = S_UNKNOWN THEN @ + 1 ELSE @]

\* hping_stats_on_reply() as a function of the counters.
OnReply(st, status) ==
  [st EXCEPT !.received = @ + 1,
             !.duplicates = IF status = S_RECV THEN @ + 1 ELSE @,
             !.unmatched = IF status = S_UNKNOWN THEN @ + 1 ELSE @]

OnSent(st) == [st EXCEPT !.sent = @ + 1]

\* hping_stats_unique()
Unique(st) ==
  LET other == st.duplicates + st.unmatched
  IN  IF st.received > other THEN st.received - other ELSE 0

TableTypeOK ==
  /\ delaytable \in [Slots -> Element]
  /\ delaytable_index \in Int
  /\ stats \in Counters
=============================================================================
