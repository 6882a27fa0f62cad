---------------------------- MODULE SafeTransfer ----------------------------
(***************************************************************************)
(* The "almost safe" file transfer: a sender (--file --sign --safe), whose *)
(* datagrams carry the data of datafiller() under the IP id cfg.src_id, a  *)
(* listener (--listen --safe), which accepts them in the order of their    *)
(* ids and asks for a restart otherwise (HCMP), and the network between    *)
(* them, which loses, delays, reorders and duplicates both.                *)
(*                                                                         *)
(* The file is a number of blocks of data_size - signlen bytes; its data   *)
(* are the numbers of the blocks.                                          *)
(***************************************************************************)
EXTENDS Integers, FiniteSets, Sequences

CONSTANTS
  Blocks,      \* the length of the file
  Short,       \* its last block is not full
  IdMod,       \* 65536: the IP id has 16 bits
  Ends,        \* values of --end
  FileFails,   \* open() and read() of the file may fail
  Window,      \* bound: messages under way in each direction
  MaxReceived  \* bound: blocks the listener writes

ASSUME TransferAssumption ==
  /\ Blocks \in Nat \ {0} /\ IdMod \in Nat /\ MaxReceived \in Nat
  /\ Blocks < IdMod /\ MaxReceived < IdMod
  /\ Window \in Nat \ {0}
  /\ Ends \subseteq BOOLEAN /\ FileFails \in BOOLEAN /\ Short \in BOOLEAN

Ids == 0 .. IdMod - 1

\* What a datagram carries: a block of the file (padded when it is short),
\* nothing but padding, or the filling of a failure.
Padding == 0
Junk == -1
Data == (1 .. Blocks) \cup {Padding, Junk}

VARIABLES
  opt_end,      \* --end, which no action changes
  sending,      \* the sender runs
  open, pos,    \* fd, and the block it stands at
  eof_reached,
  src_id,       \* the 16 bits of cfg.src_id that are sent
  in_place,     \* history: since the start, or the last restart, the ids have
                \* counted the blocks: no failure, end of file or turn of ids
  wire,         \* datagrams under way; "sure" is in_place when it was sent
  requests,     \* HCMP_RESTART messages under way
  listening,    \* the listener runs
  exp_id,
  received      \* what the listener has written, in order

file     == <<open, pos, eof_reached>>
sender   == <<sending, file, src_id, in_place>>
listener == <<listening, exp_id, received>>
vars == <<opt_end, sender, wire, requests, listener>>

Datagrams == [id : Ids, data : Data, sure : BOOLEAN]

Init ==
  /\ opt_end \in Ends
  /\ sending = TRUE
  /\ open = FALSE /\ pos = 0 /\ eof_reached = FALSE
  /\ src_id = 1 /\ in_place = TRUE
  /\ wire = {} /\ requests = {}
  /\ listening = TRUE /\ exp_id = 1 /\ received = << >>

\* A message joins those under way, if need be instead of an older one.
Join(S, m) ==
  {T \cup {m} : T \in IF Cardinality(S) < Window THEN {S} ELSE {S \ {o} : o \in S}}

-----------------------------------------------------------------------------
(* The sender: data_handler(), datafiller() and send_ip().                 *)

\* Where the next read() starts: the file is opened when it is not open.
Position == IF open THEN pos ELSE 0

\* The id stands still once the end of the file was reached.
NextId(ended) == IF ended THEN src_id ELSE (src_id + 1) % IdMod

\* The datagram goes out with the data and arrives or not.
Emit(data, arrives) ==
  LET m == [id |-> src_id, data |-> data, sure |-> in_place /\ data # Junk]
  IN  /\ IF arrives THEN wire' \in Join(wire, m) ELSE UNCHANGED wire
      /\ src_id' = NextId(eof_reached')
      /\ in_place' = (in_place /\ ~ eof_reached' /\ data # Junk /\ src_id' # 0)
      /\ UNCHANGED <<opt_end, sending, requests, listener>>

Full(p) == p < Blocks /\ ~ (Short /\ p = Blocks - 1)

\* read() fills the packet.
SendFull(arrives) ==
  /\ sending /\ Full(Position)
  /\ open' = TRUE /\ pos' = Position + 1 /\ UNCHANGED eof_reached
  /\ Emit(Position + 1, arrives)

\* read() gives the short end of the file, or nothing under --end: padding,
\* and back to the beginning.
SendLast(arrives) ==
  /\ sending /\ ~ Full(Position) /\ (Position < Blocks \/ opt_end)
  /\ open' = TRUE /\ pos' = 0 /\ eof_reached' = (eof_reached \/ opt_end)
  /\ Emit(IF Position < Blocks THEN Position + 1 ELSE Padding, arrives)

\* read() gives nothing and is repeated at the beginning.
SendAgain(arrives) ==
  /\ sending /\ Position >= Blocks /\ ~ opt_end
  /\ open' = TRUE /\ pos' = IF Full(0) THEN 1 ELSE 0
  /\ UNCHANGED eof_reached
  /\ Emit(1, arrives)

\* open() or read() fails: the packet is filled with X, the file is closed.
SendJunk(arrives) ==
  /\ sending /\ FileFails
  /\ open' = FALSE /\ pos' = 0 /\ UNCHANGED eof_reached
  /\ Emit(Junk, arrives)

Send(arrives) ==
  SendFull(arrives) \/ SendLast(arrives) \/ SendAgain(arrives) \/ SendJunk(arrives)

\* A bug: the seek is one block too far.
Seek_Next(seq) == IF seq < Blocks THEN seq ELSE Blocks

\* lseek() in datafiller(NULL, seq).  The product is unsigned, so that for 0
\* the file stands far behind its end.
Seek(seq) == IF seq \in 1 .. Blocks THEN seq - 1 ELSE Blocks

\* handle_hcmp().  A file that cannot be opened is then filled through a NULL
\* pointer: the sender is gone, unless there is nothing to fill.
Restart(seq, again) ==
  /\ sending /\ seq \in requests
  /\ requests' = IF again THEN requests ELSE requests \ {seq}
  /\ src_id' = seq
  /\ \/ /\ open' = TRUE /\ pos' = Seek(seq) /\ in_place' = (seq # 0)
        /\ UNCHANGED sending
     \/ /\ ~ open /\ FileFails
        /\ sending' = (seq = 0) /\ in_place' = FALSE /\ UNCHANGED <<open, pos>>
  /\ UNCHANGED <<opt_end, eof_reached, wire, listener>>

-----------------------------------------------------------------------------
(* The listener: listen_run() and send_hcmp().                             *)

InSequence(id) == id = exp_id

\* A bug: exp_id is an int, which the ids leave behind.
NextExpected_Int == exp_id + 1

NextExpected == (exp_id + 1) % IdMod

Takes(m, again) ==
  /\ listening /\ m \in wire
  /\ wire' = IF again THEN wire ELSE wire \ {m}
  /\ UNCHANGED <<opt_end, sender>>

\* A failing write() stops the listener, after the id was counted.
Accept(m, again, written) ==
  /\ Takes(m, again)
  /\ InSequence(m.id) /\ Len(received) < MaxReceived
  /\ exp_id' = NextExpected
  /\ IF written THEN /\ received' = Append(received, m)
                     /\ UNCHANGED listening
                ELSE /\ listening' = FALSE
                     /\ UNCHANGED received
  /\ UNCHANGED requests

\* A bug: the listener asks for the datagram after the one it waits for.
Asked_Next == (exp_id + 1) % IdMod

Asked == exp_id

Reject(m, again, arrives) ==
  /\ Takes(m, again)
  /\ ~ InSequence(m.id)
  /\ IF arrives THEN requests' \in Join(requests, Asked) ELSE UNCHANGED requests
  /\ UNCHANGED listener

-----------------------------------------------------------------------------
(* The rest of the world.                                                  *)

Lose ==
  /\ \/ \E m \in wire : wire' = wire \ {m} /\ UNCHANGED requests
     \/ \E r \in requests : requests' = requests \ {r} /\ UNCHANGED wire
  /\ UNCHANGED <<opt_end, sender, listener>>

\* A side quits: sendto() or the capture fails, or the session is stopped.
Quit ==
  /\ \/ sending' = FALSE /\ UNCHANGED listening
     \/ listening' = FALSE /\ UNCHANGED sending
  /\ UNCHANGED <<opt_end, file, src_id, in_place, wire, requests, exp_id, received>>

Next ==
  \/ \E b \in BOOLEAN :
       \/ Send(b)
       \/ \E seq \in requests : Restart(seq, b)
       \/ \E m \in wire, c \in BOOLEAN : Accept(m, b, c) \/ Reject(m, b, c)
  \/ Lose
  \/ Quit

Spec == Init /\ [][Next]_vars

\* The sender sends, the listener reads; what is sent again and again comes
\* through, and is read.
Fairness ==
  /\ WF_vars(\E b \in BOOLEAN : Send(b))
  /\ SF_vars(src_id = exp_id /\ Send(TRUE))
  /\ SF_vars(src_id # exp_id /\ Send(TRUE))
  /\ SF_vars(\E m \in wire, b \in BOOLEAN : Accept(m, b, TRUE))
  /\ SF_vars(\E m \in wire, b \in BOOLEAN : Reject(m, b, TRUE))
  /\ SF_vars(\E b \in BOOLEAN : Restart(exp_id, b))

FairSpec == Spec /\ Fairness

-----------------------------------------------------------------------------
(* Correctness.                                                            *)

\* The types of listen.c and datafiller.c: ids have 16 bits, the file stands
\* nowhere behind its end, and the listener counts what it writes.
TypeOK ==
  /\ opt_end \in BOOLEAN /\ sending \in BOOLEAN
  /\ open \in BOOLEAN /\ pos \in 0 .. Blocks /\ eof_reached \in BOOLEAN
  /\ src_id \in Ids /\ in_place \in BOOLEAN
  /\ wire \subseteq Datagrams /\ requests \subseteq Ids
  /\ listening \in BOOLEAN /\ exp_id \in Ids
  /\ received \in Seq(Datagrams) /\ Len(received) <= MaxReceived

(***************************************************************************)
(* The listener writes the file: in whatever order datagrams and restart   *)
(* requests of any age arrive, what it takes as block i, and what was sent *)
(* while the ids counted the blocks, is block i.                           *)
(***************************************************************************)
WritesFile ==
  \A i \in 1 .. Len(received) :
    i <= Blocks /\ received[i].sure => received[i].data = i

\* The restart requests keep the transfer going: unless a side quits, the
\* listener gets as many blocks as the file has.
Delivered == <>(Len(received) >= Blocks \/ ~ sending \/ ~ listening)

=============================================================================
