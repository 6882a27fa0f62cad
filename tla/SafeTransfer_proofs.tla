------------------------ MODULE SafeTransfer_proofs ------------------------
(***************************************************************************)
(* Proofs about SafeTransfer, for every file, every id space larger than   *)
(* the file, and every network.                                            *)
(***************************************************************************)
EXTENDS SafeTransfer, TLAPS

(* The id after an id.                                                     *)
LEMMA IdAfter ==
  ASSUME NEW i \in Ids
  PROVE  /\ (i + 1) % IdMod \in Ids
         /\ (i + 1) % IdMod = IF i = IdMod - 1 THEN 0 ELSE i + 1
<1>1. IdMod \in Nat \ {0} /\ i \in Nat /\ i < IdMod
  BY TransferAssumption DEF Ids
<1>2. CASE i = IdMod - 1
  <2>1. IdMod % IdMod = 0
    BY <1>1
  <2> QED BY <1>1, <1>2, <2>1 DEF Ids
<1>3. CASE i # IdMod - 1
  <2>1. i + 1 \in 0 .. IdMod - 1
    BY <1>1, <1>3
  <2>2. (i + 1) % IdMod = i + 1
    BY <1>1, <2>1
  <2> QED BY <1>3, <2>1, <2>2 DEF Ids
<1> QED BY <1>2, <1>3

(* A message joins others and brings none but itself.                      *)
LEMMA JoinAdds ==
  ASSUME NEW S, NEW m, NEW T \in Join(S, m)
  PROVE  T \subseteq S \cup {m}
BY DEF Join

(* Full blocks lie in the file.                                            *)
LEMMA FileTypes ==
  ASSUME TypeOK
  PROVE  /\ Position \in 0 .. Blocks
         /\ Full(Position) => Position + 1 \in 1 .. Blocks
         /\ Position < Blocks => Position + 1 \in 1 .. Blocks
         /\ Blocks \in Nat \ {0}
BY TransferAssumption DEF TypeOK, Position, Full

(* What a sent datagram changes.                                           *)
LEMMA EmitType ==
  ASSUME TypeOK, NEW data \in Data, NEW arrives \in BOOLEAN, Emit(data, arrives),
         open' \in BOOLEAN, pos' \in 0 .. Blocks, eof_reached' \in BOOLEAN
  PROVE  TypeOK'
<1>1. src_id' \in Ids
  BY IdAfter DEF TypeOK, Emit, NextId
<1>2. in_place' \in BOOLEAN
  BY DEF Emit
<1> DEFINE m == [id |-> src_id, data |-> data, sure |-> in_place /\ data # Junk]
<1>3. m \in Datagrams
  BY DEF Datagrams, TypeOK
<1>4. wire' \subseteq Datagrams
  <2>1. CASE arrives
    <3>1. wire' \in Join(wire, m)
      BY <2>1 DEF Emit
    <3> HIDE DEF m
    <3> QED BY <1>3, <3>1, JoinAdds DEF TypeOK
  <2>2. CASE ~ arrives
    BY <2>2 DEF Emit, TypeOK
  <2> QED BY <2>1, <2>2
<1> QED BY <1>1, <1>2, <1>4 DEF Emit, TypeOK, listener

(* The types are kept by every step.                                       *)
LEMMA TypeStep ==
  ASSUME TypeOK, [Next]_vars
  PROVE  TypeOK'
<1> USE DEF file, sender, listener
<1>1. ASSUME NEW arrives \in BOOLEAN, Send(arrives)
      PROVE  TypeOK'
  <2> USE FileTypes
  <2>1. CASE SendFull(arrives)
    <3>1. Position + 1 \in Data /\ pos' \in 0 .. Blocks /\ open' \in BOOLEAN
      BY <2>1 DEF SendFull, Data
    <3> QED BY <1>1, <2>1, <3>1, EmitType DEF SendFull, TypeOK
  <2>2. CASE SendLast(arrives)
    <3> DEFINE d == IF Position < Blocks THEN Position + 1 ELSE Padding
    <3>1. d \in Data /\ pos' \in 0 .. Blocks /\ open' \in BOOLEAN
          /\ eof_reached' \in BOOLEAN
      BY <2>2 DEF SendLast, Data, TypeOK
    <3>2. Emit(d, arrives)
      BY <2>2 DEF SendLast
    <3> HIDE DEF d
    <3> QED BY <1>1, <3>1, <3>2, EmitType
  <2>3. CASE SendAgain(arrives)
    <3>1. 1 \in Data /\ pos' \in 0 .. Blocks /\ open' \in BOOLEAN
      BY <2>3 DEF SendAgain, Data
    <3> QED BY <1>1, <2>3, <3>1, EmitType DEF SendAgain, TypeOK
  <2>4. CASE SendJunk(arrives)
    <3>1. Junk \in Data /\ open' \in BOOLEAN
      BY <2>4 DEF SendJunk, Data
    <3>2. pos' \in 0 .. Blocks
      <4>1. pos' = 0
        BY <2>4 DEF SendJunk
      <4> QED BY <4>1
    <3> QED BY <1>1, <2>4, <3>1, <3>2, EmitType DEF SendJunk, TypeOK
  <2> QED BY <1>1, <2>1, <2>2, <2>3, <2>4 DEF Send
<1>2. ASSUME NEW seq \in requests, NEW b \in BOOLEAN, Restart(seq, b)
      PROVE  TypeOK'
  <2>1. seq \in Ids /\ Seek(seq) \in 0 .. Blocks
    BY TransferAssumption DEF TypeOK, Seek
  <2> QED BY <1>2, <2>1 DEF Restart, TypeOK
<1>3. ASSUME NEW m \in wire, NEW b \in BOOLEAN, NEW c \in BOOLEAN, Accept(m, b, c)
      PROVE  TypeOK'
  <2>1. exp_id' \in Ids /\ wire' \subseteq Datagrams
    BY <1>3, IdAfter DEF Accept, Takes, NextExpected, TypeOK
  <2>2. received' \in Seq(Datagrams) /\ Len(received') <= MaxReceived
    BY <1>3, TransferAssumption DEF Accept, TypeOK
  <2> QED BY <1>3, <2>1, <2>2 DEF Accept, Takes, TypeOK
<1>4. ASSUME NEW m \in wire, NEW b \in BOOLEAN, NEW c \in BOOLEAN, Reject(m, b, c)
      PROVE  TypeOK'
  <2>1. requests' \subseteq Ids
    BY <1>4, JoinAdds DEF Reject, Asked, TypeOK
  <2> QED BY <1>4, <2>1 DEF Reject, Takes, TypeOK
<1>5. CASE Lose
  BY <1>5 DEF Lose, TypeOK
<1>6. CASE Quit
  BY <1>6 DEF Quit, TypeOK
<1>7. CASE UNCHANGED vars
  BY <1>7 DEF vars, TypeOK
<1> QED BY <1>1, <1>2, <1>3, <1>4, <1>5, <1>6, <1>7 DEF Next

(***************************************************************************)
(* The ids of sender and listener keep their 16 bits, the file its bounds. *)
(***************************************************************************)
THEOREM TransferTypeCorrect == Spec => []TypeOK
<1>1. Init => TypeOK
  <2> SUFFICES ASSUME Init PROVE TypeOK
    OBVIOUS
  <2>1. 1 \in Ids /\ 0 \in 0 .. Blocks
    BY TransferAssumption DEF Ids
  <2>2. << >> \in Seq(Datagrams) /\ Len(<< >>) <= MaxReceived
    BY TransferAssumption
  <2> QED BY <2>1, <2>2, TransferAssumption DEF Init, TypeOK
<1>2. TypeOK /\ [Next]_vars => TypeOK'
  BY TypeStep
<1> QED BY <1>1, <1>2, PTL DEF Spec

-----------------------------------------------------------------------------
(* The file is written.                                                    *)

Right(m) == m.sure /\ m.id \in 1 .. Blocks => m.data = m.id

\* While the ids count the blocks, the file stands at the block of the id;
\* hence every sure datagram carries it, and the listener has counted.
FileInv ==
  /\ in_place => src_id # 0
  /\ in_place /\ src_id <= Blocks => Position = src_id - 1
  /\ \A m \in wire : Right(m)
  /\ \A i \in 1 .. Len(received) : received[i].id = i /\ Right(received[i])
  /\ listening => exp_id = (Len(received) + 1) % IdMod

(* A sent datagram is right, and so is the place of the next.              *)
LEMMA EmitRight ==
  ASSUME TypeOK, FileInv, NEW data \in Data, NEW arrives \in BOOLEAN,
         Emit(data, arrives),
         in_place /\ src_id <= Blocks /\ data # Junk =>
           /\ data = src_id
           /\ src_id < Blocks => Position' = src_id
  PROVE  FileInv'
<1>1. /\ src_id \in Nat /\ src_id < IdMod /\ Blocks \in Nat /\ IdMod \in Nat
      /\ src_id \in Ids
  BY TransferAssumption DEF TypeOK, Ids
<1>2. src_id' = src_id \/ src_id' = (src_id + 1) % IdMod
  BY DEF Emit, NextId
<1>3. in_place' => /\ in_place /\ data # Junk /\ src_id' # 0
                   /\ src_id' = src_id + 1
  BY <1>1, IdAfter DEF Emit, NextId
<1>4. in_place' /\ src_id' <= Blocks => Position' = src_id' - 1
  BY <1>1, <1>3
<1> DEFINE m == [id |-> src_id, data |-> data, sure |-> in_place /\ data # Junk]
<1>5. Right(m)
  <2>1. /\ m.id = src_id /\ m.data = data
        /\ m.sure <=> in_place /\ data # Junk
    OBVIOUS
  <2> HIDE DEF m
  <2>2. m.sure /\ m.id \in 1 .. Blocks => in_place /\ src_id <= Blocks /\ data # Junk
    BY <1>1, <2>1
  <2>3. m.sure /\ m.id \in 1 .. Blocks => m.data = m.id
    BY <2>1, <2>2
  <2> QED BY <2>3 DEF Right
<1>6. \A x \in wire' : Right(x)
  <2>1. CASE arrives
    <3>1. wire' \in Join(wire, m)
      BY <2>1 DEF Emit
    <3> HIDE DEF m
    <3> QED BY <1>5, <3>1, JoinAdds DEF FileInv
  <2>2. CASE ~ arrives
    BY <2>2 DEF Emit, FileInv
  <2> QED BY <2>1, <2>2
<1> QED BY <1>3, <1>4, <1>6 DEF Emit, FileInv, listener

(* Every step keeps the file in its place.                                 *)
LEMMA FileStep ==
  ASSUME TypeOK, FileInv, [Next]_vars
  PROVE  FileInv'
<1> USE DEF file, sender, listener
<1>1. ASSUME NEW arrives \in BOOLEAN, Send(arrives)
      PROVE  FileInv'
  <2> USE FileTypes
  <2>0. /\ src_id \in Nat /\ Blocks \in Nat
        /\ in_place /\ src_id <= Blocks => Position = src_id - 1 /\ src_id # 0
    BY TransferAssumption DEF TypeOK, Ids, FileInv
  <2>1. CASE SendFull(arrives)
    <3>1. Position + 1 \in Data /\ Position' = Position + 1
      BY <2>1 DEF SendFull, Data, Position
    <3> QED BY <2>0, <2>1, <3>1, EmitRight DEF SendFull
  <2>2. CASE SendLast(arrives)
    <3> DEFINE d == IF Position < Blocks THEN Position + 1 ELSE Padding
    <3>1. d \in Data /\ Emit(d, arrives)
      BY <2>2 DEF SendLast, Data
    <3>2. in_place /\ src_id <= Blocks => d = src_id /\ ~ (src_id < Blocks)
      BY <2>0, <2>2 DEF SendLast, Full
    <3> HIDE DEF d
    <3> QED BY <3>1, <3>2, EmitRight
  <2>3. CASE SendAgain(arrives)
    <3>1. 1 \in Data
      BY DEF Data
    <3>2. ~ (in_place /\ src_id <= Blocks)
      BY <2>0, <2>3 DEF SendAgain
    <3> QED BY <2>3, <3>1, <3>2, EmitRight DEF SendAgain
  <2>4. CASE SendJunk(arrives)
    <3>1. Junk \in Data
      BY DEF Data
    <3> QED BY <2>4, <3>1, EmitRight DEF SendJunk
  <2> QED BY <1>1, <2>1, <2>2, <2>3, <2>4 DEF Send
<1>2. ASSUME NEW seq \in requests, NEW b \in BOOLEAN, Restart(seq, b)
      PROVE  FileInv'
  <2>1. seq \in Nat /\ Blocks \in Nat
    BY TransferAssumption DEF TypeOK, Ids
  <2>2. in_place' => src_id' # 0
    BY <1>2 DEF Restart
  <2>3. in_place' /\ src_id' <= Blocks => Position' = src_id' - 1
    <3>1. CASE open' = TRUE /\ pos' = Seek(seq) /\ in_place' = (seq # 0)
      <4>1. src_id' = seq /\ Position' = Seek(seq)
        BY <1>2, <3>1 DEF Restart, Position
      <4>2. seq # 0 /\ seq <= Blocks => Seek(seq) = seq - 1
        BY <2>1 DEF Seek
      <4> QED BY <3>1, <4>1, <4>2
    <3>2. CASE in_place' = FALSE
      BY <3>2
    <3> QED BY <1>2, <3>1, <3>2 DEF Restart
  <2> QED BY <1>2, <2>2, <2>3 DEF Restart, FileInv
<1>3. ASSUME NEW m \in wire, NEW b \in BOOLEAN, NEW c \in BOOLEAN, Accept(m, b, c)
      PROVE  FileInv'
  <2>1. /\ Len(received) \in Nat /\ Len(received) + 1 < IdMod /\ IdMod \in Nat
        /\ received \in Seq(Datagrams) /\ m \in Datagrams
    BY <1>3, TransferAssumption DEF Accept, TypeOK
  <2>2. m.id = Len(received) + 1 /\ exp_id = Len(received) + 1
    <3>1. exp_id = (Len(received) + 1) % IdMod /\ m.id = exp_id
      BY <1>3 DEF Accept, Takes, InSequence, FileInv
    <3>2. Len(received) \in Ids /\ Len(received) # IdMod - 1
      BY <2>1 DEF Ids
    <3> QED BY <3>1, <3>2, IdAfter
  <2>3. Right(m) /\ \A x \in wire' : Right(x)
    BY <1>3 DEF Accept, Takes, FileInv
  <2>4. UNCHANGED sender
    BY <1>3 DEF Accept, Takes
  <2>5. CASE c
    <3>1. /\ received' = Append(received, m) /\ Len(received') = Len(received) + 1
          /\ received'[Len(received) + 1] = m
          /\ \A i \in 1 .. Len(received) : received'[i] = received[i]
      BY <1>3, <2>1, <2>5 DEF Accept
    <3>2. \A i \in 1 .. Len(received') : received'[i].id = i /\ Right(received'[i])
      BY <2>1, <2>2, <2>3, <3>1 DEF FileInv
    <3>3. exp_id' = (Len(received') + 1) % IdMod
      BY <1>3, <2>2, <3>1 DEF Accept, NextExpected
    <3> QED BY <2>3, <2>4, <3>2, <3>3 DEF FileInv, Position
  <2>6. CASE ~ c
    BY <1>3, <2>3, <2>4, <2>6 DEF Accept, FileInv, Position
  <2> QED BY <2>5, <2>6
<1>4. ASSUME NEW m \in wire, NEW b \in BOOLEAN, NEW c \in BOOLEAN, Reject(m, b, c)
      PROVE  FileInv'
  BY <1>4 DEF Reject, Takes, FileInv, Position
<1>5. CASE Lose
  BY <1>5 DEF Lose, FileInv, Position
<1>6. CASE Quit
  BY <1>6 DEF Quit, FileInv, Position
<1>7. CASE UNCHANGED vars
  BY <1>7 DEF vars, FileInv, Position
<1> QED BY <1>1, <1>2, <1>3, <1>4, <1>5, <1>6, <1>7 DEF Next

(***************************************************************************)
(* Whatever is lost, late, repeated or out of order, and however often the *)
(* file fails: a block that was sent while the ids counted the blocks is   *)
(* written in its place.                                                   *)
(***************************************************************************)
THEOREM FileIsWritten == Spec => []WritesFile
<1>1. Init => FileInv
  <2> SUFFICES ASSUME Init PROVE FileInv
    OBVIOUS
  <2>1. Blocks \in Nat \ {0} /\ IdMod \in Nat /\ Blocks < IdMod
    BY TransferAssumption
  <2>2. 1 % IdMod = 1
    BY <2>1
  <2> QED BY <2>1, <2>2 DEF Init, FileInv, Position
<1>2. TypeOK /\ FileInv /\ [Next]_vars => FileInv'
  BY FileStep
<1>3. TypeOK /\ FileInv => WritesFile
  BY TransferAssumption DEF FileInv, WritesFile, Right, TypeOK
<1> QED BY <1>1, <1>2, <1>3, TransferTypeCorrect, PTL DEF Spec
=============================================================================
