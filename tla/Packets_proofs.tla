---------------------------- MODULE Packets_proofs ----------------------------
(***************************************************************************)
(* The packet engine.                                                      *)
(*                                                                         *)
(* The dissector reads every capture to its end without losing a byte.     *)
(* First the sequences and loops that the packet engine is built of, then  *)
(* its layers, then one lemma per handler: what the handler adds to the    *)
(* packet is what it consumed.  Proved for every sequence of bytes that a  *)
(* capture may hold and every limit on the number of layers.               *)
(*                                                                         *)
(* The Internet checksum: what ars_multi_cksum() makes of the layers of a  *)
(* packet is the checksum of its bytes, no single byte can change without  *)
(* being noticed, and what the compilers of IP, ICMP, UDP, TCP and ICMPv6  *)
(* store is what the dissector's checks accept.  For buffers and packets   *)
(* of every content, and of every length where no length is named.         *)
(*                                                                         *)
(* The life of a packet: the parser, one lemma per keyword, the compilers, *)
(* the handlers and the describer keep a stack of layers with whole        *)
(* headers, for every description, padding, link header, cut and damage.   *)
(***************************************************************************)
EXTENDS Packets, SequenceTheorems, WellFoundedInduction, FiniteSetTheorems, TLAPS

-----------------------------------------------------------------------------
(* Loops and sequences.                                                    *)

\* Induction on the naturals, for a set of numbers.
LEMMA NatInduct ==
  ASSUME NEW S \in SUBSET Nat, 0 \in S, \A n \in S : n + 1 \in S
  PROVE  S = Nat
<1>1. SUFFICES ASSUME Nat \ S # {} PROVE FALSE
  OBVIOUS
<1>2. PICK x \in Nat \ S : \A y \in Nat \ S : ~ (<<y, x>> \in OpToRel(<, Nat))
  BY <1>1, NatLessThanWellFounded, WFMin
<1>3. \A y \in Nat : y < x => y \in S
  BY <1>2 DEF OpToRel
<1>4. x \in Nat /\ x # 0
  OBVIOUS
<1>5. x - 1 \in Nat /\ x - 1 < x
  BY <1>4
<1>6. x - 1 \in S
  BY <1>3, <1>5
<1>7. (x - 1) + 1 \in S
  BY <1>6
<1>8. (x - 1) + 1 = x
  BY <1>4
<1> QED
  BY <1>7, <1>8

\* The same up to a bound: what a loop over 0 .. n establishes.
LEMMA UpTo ==
  ASSUME NEW n \in Nat, NEW S, 0 \in S, \A i \in 0 .. n - 1 : i \in S => i + 1 \in S
  PROVE  \A i \in 0 .. n : i \in S
<1> DEFINE R == {i \in Nat : i <= n => i \in S}
<1>1. 0 \in R
  OBVIOUS
<1>2. ASSUME NEW i \in R PROVE i + 1 \in R
  OBVIOUS
<1>3. R = Nat
  <2> HIDE DEF R
  <2>1. R \in SUBSET Nat
    BY DEF R
  <2> QED
    BY <1>1, <1>2, <2>1, NatInduct
<1> QED
  BY <1>3

\* f is the history of a loop that starts at base and applies step[i].
Iterates(f, base, n, step) ==
  f[0] = base /\ \A i \in 1 .. n : f[i] = step[i][f[i - 1]]

\* A loop of n steps has a history, from its initial value on.
LEMMA Recursion ==
  ASSUME NEW V, NEW base \in V, NEW n \in Nat, NEW step \in [1 .. n -> [V -> V]]
  PROVE  \E f \in [0 .. n -> V] : Iterates(f, base, n, step)
<1> DEFINE R(f, m) == Iterates(f, base, m, step)
           S == {m \in Nat : \E f \in [0 .. m -> V] : R(f, m)}
<1>1. 0 \in S
  <2> DEFINE f == [i \in 0 .. 0 |-> base]
  <2>1. f \in [0 .. 0 -> V] /\ R(f, 0)
    BY DEF Iterates
  <2> QED
    BY <2>1
<1>2. ASSUME NEW m \in 0 .. n - 1, m \in S PROVE m + 1 \in S
  <2>1. PICK f \in [0 .. m -> V] : R(f, m)
    BY <1>2
  <2>2. m + 1 \in 1 .. n /\ f[m] \in V
    OBVIOUS
  <2>3. step[m + 1] \in [V -> V]
    BY <2>2
  <2>4. step[m + 1][f[m]] \in V
    BY <2>2, <2>3
  <2> DEFINE g == [i \in 0 .. m + 1 |-> IF i <= m THEN f[i] ELSE step[m + 1][f[m]]]
  <2>5. g \in [0 .. m + 1 -> V]
    BY <2>4
  <2>6. g[0] = f[0] /\ \A i \in 0 .. m : g[i] = f[i]
    OBVIOUS
  <2>7. g[m + 1] = step[m + 1][g[m]]
    OBVIOUS
  <2>8. ASSUME NEW i \in 1 .. m + 1 PROVE g[i] = step[i][g[i - 1]]
    <3>1. CASE i = m + 1
      <4>1. i - 1 = m
        BY <3>1
      <4> QED
        BY <3>1, <4>1, <2>7
    <3>2. CASE i <= m
      <4>1. g[i] = f[i] /\ g[i - 1] = f[i - 1]
        BY <3>2, <2>6
      <4> QED
        BY <3>2, <4>1, <2>1 DEF Iterates
    <3> QED
      BY <3>1, <3>2
  <2>9. R(g, m + 1)
    BY <2>1, <2>6, <2>8 DEF Iterates
  <2> HIDE DEF g, R
  <2> QED
    BY <2>5, <2>9
<1>3. \A m \in 0 .. n : m \in S
  <2> HIDE DEF S
  <2> QED
    BY <1>1, <1>2, UpTo
<1>4. n \in S
  BY <1>3
<1> QED
  BY <1>4

\* Flattening a packet (ars_build_packet(), ars.c:1053-1074) is a loop: each
\* chunk is appended to what the ones before it gave.
LEMMA FlattenFunction ==
  ASSUME NEW T, NEW seqs \in Seq(Seq(T)), seqs # << >>
  PROVE  \E f \in [0 .. Len(seqs) -> Seq(T)] :
           /\ f[0] = << >>
           /\ \A i \in 1 .. Len(seqs) : f[i] = f[i - 1] \o seqs[i]
           /\ FlattenSeq(seqs) = f[Len(seqs)]
<1> DEFINE n == Len(seqs)
           step == [i \in 1 .. n |-> [s \in Seq(T) |-> s \o seqs[i]]]
<1>1. n \in Nat /\ n # 0 /\ \A i \in 1 .. n : seqs[i] \in Seq(T)
  BY EmptySeq, LenProperties, ElementOfSeq
<1>2. \A i \in 1 .. n : [s \in Seq(T) |-> s \o seqs[i]] \in [Seq(T) -> Seq(T)]
  BY <1>1, ConcatProperties
<1>3. step \in [1 .. n -> [Seq(T) -> Seq(T)]]
  BY <1>2
<1>4. << >> \in Seq(T)
  BY EmptySeq
<1>5. PICK g \in [0 .. n -> Seq(T)] : g[0] = << >> /\ \A i \in 1 .. n : g[i] = step[i][g[i - 1]]
  <2> DEFINE V == Seq(T)
             empty == << >>
  <2>1. n \in Nat /\ empty \in V /\ step \in [1 .. n -> [V -> V]]
    BY <1>1, <1>3, <1>4
  <2> HIDE DEF n, step, V, empty
  <2>2. \E g \in [0 .. n -> V] : Iterates(g, empty, n, step)
    BY <2>1, Recursion
  <2> QED
    BY <2>2 DEF V, empty, Iterates
<1>6. ASSUME NEW i \in 1 .. n PROVE g[i] = g[i - 1] \o seqs[i]
  <2>1. i - 1 \in 0 .. n
    BY <1>1
  <2>2. g[i - 1] \in Seq(T)
    BY <2>1, <1>5
  <2>3. step[i] = [s \in Seq(T) |-> s \o seqs[i]]
    OBVIOUS
  <2>4. step[i][g[i - 1]] = g[i - 1] \o seqs[i]
    BY <2>2, <2>3
  <2> QED
    BY <2>4, <1>5
<1> DEFINE Eqn(f) == f = [i \in 1 .. n |-> IF i = 1 THEN seqs[i] ELSE f[i - 1] \o seqs[i]]
           G == [i \in 1 .. n |-> g[i]]
           F == CHOOSE f : Eqn(f)
<1>7. g[1] = seqs[1]
  <2>1. 1 \in 1 .. n /\ 1 - 1 = 0
    BY <1>1
  <2>2. g[1] = g[0] \o seqs[1]
    BY <1>6, <2>1
  <2> QED
    BY <2>1, <2>2, <1>1, <1>5, ConcatEmptySeq
<1>8. Eqn(G)
  <2>1. ASSUME NEW i \in 1 .. n PROVE G[i] = IF i = 1 THEN seqs[i] ELSE G[i - 1] \o seqs[i]
    <3>1. CASE i = 1
      BY <3>1, <1>7
    <3>2. CASE i # 1
      <4>1. i - 1 \in 1 .. n
        BY <3>2, <1>1
      <4>2. G[i] = g[i] /\ G[i - 1] = g[i - 1]
        BY <4>1
      <4> QED
        BY <3>2, <4>2, <1>6
    <3> QED
      BY <3>1, <3>2
  <2> HIDE DEF n
  <2> QED
    BY <2>1
<1>9. Eqn(F)
  <2> HIDE DEF Eqn
  <2> QED
    BY <1>8
<1>10. FlattenSeq(seqs) = F[n]
  BY <1>1 DEF FlattenSeq
<1>11. /\ F[1] = seqs[1]
       /\ \A i \in 1 .. n : i # 1 => F[i] = F[i - 1] \o seqs[i]
  <2>1. ASSUME NEW i \in 1 .. n PROVE F[i] = IF i = 1 THEN seqs[i] ELSE F[i - 1] \o seqs[i]
    <3> HIDE DEF F, n
    <3> QED
      BY <1>9
  <2> HIDE DEF F
  <2>2. 1 \in 1 .. n
    BY <1>1
  <2> QED
    BY <2>1, <2>2
<1>12. \A k \in 0 .. n : k # 0 => F[k] = g[k]
  <2> HIDE DEF F
  <2> DEFINE S == {k \in Nat : k # 0 => F[k] = g[k]}
  <2>1. 0 \in S
    OBVIOUS
  <2>2. ASSUME NEW k \in 0 .. n - 1, k \in S PROVE k + 1 \in S
    <3>1. k + 1 \in 1 .. n /\ k + 1 \in Nat /\ (k + 1) - 1 = k
      BY <1>1
    <3>2. CASE k = 0
      <4>1. k + 1 = 1
        BY <3>2
      <4> QED
        BY <4>1, <1>11, <1>7
    <3>3. CASE k # 0
      <4>1. F[k] = g[k]
        BY <2>2, <3>3
      <4>2. F[k + 1] = F[(k + 1) - 1] \o seqs[k + 1]
        <5>1. k + 1 # 1
          BY <3>3
        <5> QED
          BY <3>1, <5>1, <1>11
      <4>3. g[k + 1] = g[k] \o seqs[k + 1]
        BY <3>1, <1>6
      <4> QED
        BY <4>1, <4>2, <4>3, <3>1
    <3> QED
      BY <3>2, <3>3
  <2> HIDE DEF S, n
  <2>3. \A i \in 0 .. n : i \in S
    BY <2>1, <2>2, <1>1, UpTo
  <2> QED
    BY <2>3 DEF S
<1> HIDE DEF F
<1>13. F[n] = g[n]
  BY <1>12, <1>1
<1> QED
  BY <1>5, <1>6, <1>10, <1>13

\* A packet without chunks has no bytes.
LEMMA FlattenEmpty == FlattenSeq(<< >>) = << >>
BY DEF FlattenSeq

\* One more chunk appends its bytes (ars_build_packet()).
LEMMA FlattenAppend ==
  ASSUME NEW T, NEW seqs \in Seq(Seq(T)), NEW s \in Seq(T)
  PROVE  /\ FlattenSeq(seqs) \in Seq(T)
         /\ FlattenSeq(Append(seqs, s)) = FlattenSeq(seqs) \o s
<1> DEFINE n == Len(seqs)
           longer == Append(seqs, s)
<1>1. n \in Nat
  BY LenProperties
<1>2. /\ longer \in Seq(Seq(T)) /\ longer # << >> /\ Len(longer) = n + 1
      /\ longer[n + 1] = s /\ \A i \in 1 .. n : longer[i] = seqs[i]
  BY AppendProperties
<1>3. PICK f \in [0 .. Len(longer) -> Seq(T)] :
        /\ f[0] = << >>
        /\ \A i \in 1 .. Len(longer) : f[i] = f[i - 1] \o longer[i]
        /\ FlattenSeq(longer) = f[Len(longer)]
  <2> HIDE DEF longer
  <2> QED
    BY <1>2, FlattenFunction
<1> HIDE DEF longer
<1>4. FlattenSeq(longer) = f[n] \o s
  <2>1. n + 1 \in 1 .. Len(longer) /\ (n + 1) - 1 = n
    BY <1>1, <1>2
  <2> QED
    BY <2>1, <1>2, <1>3
<1>5. CASE seqs = << >>
  <2>1. n = 0
    BY <1>5
  <2>2. FlattenSeq(seqs) = f[n]
    BY <2>1, <1>3, <1>5, FlattenEmpty
  <2>3. f[n] \in Seq(T)
    BY <2>1, <1>2, <1>3
  <2> QED
    BY <2>2, <2>3, <1>4 DEF longer
<1>6. CASE seqs # << >>
  <2>1. PICK g \in [0 .. n -> Seq(T)] :
          /\ g[0] = << >>
          /\ \A i \in 1 .. n : g[i] = g[i - 1] \o seqs[i]
          /\ FlattenSeq(seqs) = g[n]
    BY <1>6, FlattenFunction
  <2>2. \A k \in 0 .. n : f[k] = g[k]
    <3> DEFINE S == {k \in Nat : k <= n => f[k] = g[k]}
    <3>1. 0 \in S
      BY <1>3, <2>1
    <3>2. ASSUME NEW k \in 0 .. n - 1, k \in S PROVE k + 1 \in S
      <4>1. k + 1 \in 1 .. n /\ k + 1 \in 1 .. Len(longer) /\ (k + 1) - 1 = k /\ k + 1 \in Nat
        BY <1>1, <1>2
      <4>2. f[k] = g[k]
        BY <3>2, <1>1
      <4>3. f[k + 1] = f[k] \o longer[k + 1]
        BY <4>1, <1>3
      <4>4. g[k + 1] = g[k] \o seqs[k + 1]
        BY <4>1, <2>1
      <4>5. longer[k + 1] = seqs[k + 1]
        BY <4>1, <1>2
      <4> QED
        BY <4>1, <4>2, <4>3, <4>4, <4>5
    <3> HIDE DEF S
    <3>3. \A k \in 0 .. n : k \in S
      BY <3>1, <3>2, <1>1, UpTo
    <3> QED
      BY <3>3 DEF S
  <2>3. f[n] = g[n] /\ g[n] \in Seq(T)
    BY <2>1, <2>2, <1>1
  <2> QED
    BY <2>1, <2>3, <1>4 DEF longer
<1> QED
  BY <1>5, <1>6

-----------------------------------------------------------------------------
(* Bytes and layers.                                                       *)

\* The types, the flags of ars_set_flags() and of the dissector, the layers.
LayerTypes == {"NULL", "IP", "IPOPT", "ICMP", "UDP", "TCP", "TCPOPT", "IGRP", "IGRPENTRY",
               "DATA", "IP6", "ICMP6"}
LayerFlags == {FTRUNC, FBADCKSUM, "VERSION", "HDRLEN", "TOTLEN", "PROTOCOL", "CKSUM",
               "PAYLOADLEN", "NEXTHDR", "LEN", "PTR"}

Layer == {l \in [type : LayerTypes, size : Nat, flags : SUBSET LayerFlags, data : Seq(Byte)] :
            l.size <= Len(l.data)}

\* n bytes are a header of type t, if the type has one (ars_add_*(), ars.c).
Whole(t, n) ==
  /\ t = "IP" => n = 20
  /\ t = "IP6" => n = 40
  /\ t \in {"ICMP", "ICMP6", "UDP"} => n = 8
  /\ t = "TCP" => n = 20
  /\ t = "IGRP" => n = 12
  /\ t = "IGRPENTRY" => n = 14

\* What a layer is made of.
LEMMA LayerType ==
  ASSUME NEW type \in LayerTypes, NEW size \in Nat, NEW flags \in SUBSET LayerFlags,
         NEW data \in Seq(Byte), size <= Len(data)
  PROVE  [type |-> type, size |-> size, flags |-> flags, data |-> data] \in Layer
BY DEF Layer

\* The bytes in use are bytes, l_size of them.
LEMMA BytesType ==
  ASSUME NEW l \in Layer
  PROVE  Bytes(l) \in Seq(Byte) /\ Len(Bytes(l)) = l.size
BY SubSeqProperties, LenProperties DEF Layer, Bytes

\* A new layer appends its bytes to the ones of the packet.
LEMMA LayerBytesAppend ==
  ASSUME NEW p \in Seq(Layer), NEW l \in Layer
  PROVE  /\ LayerBytes(p) \in Seq(Byte)
         /\ LayerBytes(Append(p, l)) = LayerBytes(p) \o Bytes(l)
<1> DEFINE n == Len(p)
           parts == [k \in 1 .. n |-> Bytes(p[k])]
           q == Append(p, l)
           more == [k \in 1 .. Len(q) |-> Bytes(q[k])]
<1>1. n \in Nat /\ \A k \in 1 .. n : p[k] \in Layer
  BY LenProperties, ElementOfSeq
<1>2. parts \in Seq(Seq(Byte)) /\ Len(parts) = n
  BY <1>1, BytesType
<1>3. Len(q) = n + 1 /\ q[n + 1] = l /\ \A k \in 1 .. n : q[k] = p[k]
  BY AppendProperties
<1>4. Bytes(l) \in Seq(Byte)
  BY BytesType
<1>5. more = Append(parts, Bytes(l))
  <2> DEFINE r == Append(parts, Bytes(l))
  <2>1. /\ r \in Seq(Seq(Byte)) /\ Len(r) = n + 1 /\ r[n + 1] = Bytes(l)
        /\ \A k \in 1 .. n : r[k] = parts[k]
    <3> HIDE DEF parts
    <3> QED
      BY <1>2, <1>4, AppendProperties
  <2>2. r = [k \in 1 .. n + 1 |-> r[k]]
    <3> HIDE DEF r
    <3> QED
      BY <2>1, LenProperties
  <2>3. ASSUME NEW k \in 1 .. n + 1 PROVE r[k] = Bytes(q[k])
    <3>1. CASE k = n + 1
      <4> HIDE DEF q, r
      <4> QED
        BY <3>1, <2>1, <1>3
    <3>2. CASE k \in 1 .. n
      <4>1. parts[k] = Bytes(p[k])
        BY <3>2
      <4> HIDE DEF q, r, parts
      <4> QED
        BY <3>2, <4>1, <2>1, <1>3
    <3> QED
      BY <3>1, <3>2, <1>1
  <2> HIDE DEF r, q
  <2> QED
    BY <2>2, <2>3, <1>3
<1> HIDE DEF parts, q, more
<1>6. FlattenSeq(parts) \in Seq(Byte) /\ FlattenSeq(Append(parts, Bytes(l))) = FlattenSeq(parts) \o Bytes(l)
  BY <1>2, <1>4, FlattenAppend
<1> QED
  BY <1>5, <1>6 DEF LayerBytes, parts, q, more

\* The bytes of a packet are bytes.
LEMMA LayersBytes ==
  ASSUME NEW p \in Seq(Layer)
  PROVE  LayerBytes(p) \in Seq(Byte)
<1> DEFINE type == "DATA"
           size == 0
           flags == {}
           data == << >>
           l == [type |-> type, size |-> size, flags |-> flags, data |-> data]
<1>1. /\ type \in LayerTypes /\ size \in Nat /\ flags \in SUBSET LayerFlags
      /\ data \in Seq(Byte) /\ size <= Len(data)
  BY DEF LayerTypes
<1> HIDE DEF type, size, flags, data
<1>2. l \in Layer
  BY <1>1, LayerType
<1> QED
  BY <1>2, LayerBytesAppend

\* A zeroed buffer (ars_add_generic(), ars.c:123-149).
LEMMA ZeroType ==
  ASSUME NEW n \in Nat
  PROVE  Zero(n) \in Seq(Byte) /\ Len(Zero(n)) = n
<1>1. Zero(n) \in [1 .. n -> Byte]
  BY DEF Zero, Byte
<1>2. Zero(n) \in Seq(Byte)
  BY <1>1, IsASeq
<1> QED
  BY <1>2 DEF Zero

\* Writing into a buffer never changes its length.
LEMMA PutType ==
  ASSUME NEW d \in Seq(Byte), NEW off \in Int, NEW bytes \in Seq(Byte)
  PROVE  Put(d, off, bytes) \in Seq(Byte) /\ Len(Put(d, off, bytes)) = Len(d)
<1>1. ASSUME NEW k \in 1 .. Len(d)
      PROVE  (IF k - off \in 1 .. Len(bytes) THEN bytes[k - off] ELSE d[k]) \in Byte
  <2>1. CASE k - off \in 1 .. Len(bytes)
    BY <2>1, ElementOfSeq
  <2>2. CASE ~ (k - off \in 1 .. Len(bytes))
    BY <2>2, ElementOfSeq
  <2> QED
    BY <2>1, <2>2
<1>2. Put(d, off, bytes) \in [1 .. Len(d) -> Byte]
  BY <1>1 DEF Put
<1>3. Len(d) \in Nat
  BY LenProperties
<1>4. Put(d, off, bytes) \in Seq(Byte)
  BY <1>2, <1>3, IsASeq
<1> QED
  BY <1>4, <1>3 DEF Put

\* The same of a single byte.
LEMMA PutOne ==
  ASSUME NEW d \in Seq(Byte), NEW off \in Int, NEW x \in Byte
  PROVE  Put(d, off, <<x>>) \in Seq(Byte) /\ Len(Put(d, off, <<x>>)) = Len(d)
<1> DEFINE bytes == <<x>>
<1>1. bytes \in Seq(Byte)
  OBVIOUS
<1> HIDE DEF bytes
<1>2. Put(d, off, bytes) \in Seq(Byte) /\ Len(Put(d, off, bytes)) = Len(d)
  BY <1>1, PutType
<1> QED
  BY <1>2 DEF bytes

\* memcpy() to the front of a buffer: what is copied can be read back.
LEMMA PutFront ==
  ASSUME NEW d \in Seq(Byte), NEW bytes \in Seq(Byte), Len(bytes) <= Len(d)
  PROVE  SubSeq(Put(d, 0, bytes), 1, Len(bytes)) = bytes
<1> DEFINE q == Put(d, 0, bytes)
<1>1. q \in Seq(Byte) /\ Len(q) = Len(d)
  BY PutType
<1>2. Len(bytes) \in Nat /\ Len(d) \in Nat
  BY LenProperties
<1>3. \A k \in 1 .. Len(bytes) : q[k] = bytes[k]
  BY <1>2 DEF Put
<1> HIDE DEF q
<1>4. /\ SubSeq(q, 1, Len(bytes)) \in Seq(Byte)
      /\ Len(SubSeq(q, 1, Len(bytes))) = Len(bytes)
      /\ \A k \in 1 .. Len(bytes) : SubSeq(q, 1, Len(bytes))[k] = q[k]
  BY <1>1, <1>2, SubSeqProperties
<1>5. SubSeq(q, 1, Len(bytes)) = bytes
  BY <1>2, <1>3, <1>4, SeqEqual
<1> QED
  BY <1>5 DEF q

\* The smaller of two numbers.
LEMMA MinOfTwo ==
  ASSUME NEW a \in Int, NEW y \in Int
  PROVE  Min({a, y}) = IF a <= y THEN a ELSE y
BY DEF Min

\* The larger of two numbers.
LEMMA MaxOfTwo ==
  ASSUME NEW a \in Int, NEW y \in Int
  PROVE  Max({a, y}) = IF a >= y THEN a ELSE y
BY DEF Max

\* A set of naturals that is not empty has a least one.
LEMMA MinIn ==
  ASSUME NEW S \in SUBSET Nat, S # {}
  PROVE  Min(S) \in S /\ \A n \in S : Min(S) <= n
<1>1. S \subseteq Nat
  OBVIOUS
<1>2. PICK x \in S : \A y \in S : ~ (<<y, x>> \in OpToRel(<, Nat))
  BY <1>1, NatLessThanWellFounded, WFMin
<1>3. ASSUME NEW y \in S PROVE x <= y
  <2>1. x \in Nat /\ y \in Nat
    BY <1>1
  <2>2. ~ (y < x)
    BY <1>2, <2>1 DEF OpToRel
  <2> QED
    BY <2>1, <2>2
<1> QED
  BY <1>1, <1>3 DEF Min

\* Updating one field of a layer.
LEMMA LayerExcept ==
  ASSUME NEW t, NEW n, NEW f, NEW d, NEW x
  PROVE  /\ [[type |-> t, size |-> n, flags |-> f, data |-> d] EXCEPT !.data = x]
              = [type |-> t, size |-> n, flags |-> f, data |-> x]
         /\ [[type |-> t, size |-> n, flags |-> f, data |-> d] EXCEPT !.flags = x]
              = [type |-> t, size |-> n, flags |-> x, data |-> d]
OBVIOUS

\* A header that is received: the bytes there are, in front of the preset.
HeaderLayer(type, d, s, len, flags) ==
  [type |-> type, size |-> Len(d), flags |-> flags, data |-> Put(d, 0, SubSeq(s, 1, len))]

\* Writing to the layer that was just added.
LEMMA ReplaceLast ==
  ASSUME NEW p \in Seq(Layer), NEW old \in Layer, NEW l \in Layer
  PROVE  [Append(p, old) EXCEPT ![Len(p) + 1] = l] = Append(p, l)
<1> DEFINE n == Len(p)
           q == Append(p, old)
           u == [q EXCEPT ![n + 1] = l]
           v == Append(p, l)
<1>1. n \in Nat /\ Len(q) = n + 1 /\ q[n + 1] = old /\ q \in Seq(Layer)
  BY AppendProperties, LenProperties
<1>2. u \in Seq(Layer) /\ Len(u) = n + 1 /\ u[n + 1] = l /\ \A k \in 1 .. n : u[k] = q[k]
  <2> HIDE DEF q
  <2> QED
    BY <1>1, ExceptSeq
<1>3. v \in Seq(Layer) /\ Len(v) = n + 1 /\ v[n + 1] = l /\ \A k \in 1 .. n : v[k] = p[k]
  BY AppendProperties
<1>4. \A k \in 1 .. n : q[k] = p[k]
  BY AppendProperties
<1>5. ASSUME NEW k \in 1 .. n + 1 PROVE u[k] = v[k]
  <2> HIDE DEF u, v, q, n
  <2>1. CASE k = n + 1
    BY <2>1, <1>2, <1>3
  <2>2. CASE k \in 1 .. n
    BY <2>2, <1>2, <1>3, <1>4
  <2> QED
    BY <2>1, <2>2, <1>1
<1> HIDE DEF u, v
<1>6. u = v
  BY <1>2, <1>3, <1>5, SeqEqual
<1> QED
  BY <1>6 DEF u, v

\* Receiving a header appended the layer l, which holds what was received.
IsReceived(p, type, d, s, len, flags, l) ==
  /\ l \in Layer
  /\ Received(ars_add_generic(p, type, d), s, len, flags) = Append(p, l)
  /\ l.type = type /\ l.flags = flags
  /\ l.size = Len(d) /\ Len(l.data) = Len(d)
  /\ SubSeq(l.data, 1, len) = SubSeq(s, 1, len)

\* What the header handlers do first (split.c:348-353): a zeroed or preset
\* header is added and as many bytes as there are overwrite its front.
LEMMA ReceivedHeader ==
  ASSUME NEW p \in Seq(Layer), NEW type \in LayerTypes, NEW d \in Seq(Byte),
         NEW s \in Seq(Byte), NEW flags \in SUBSET LayerFlags, NEW len \in Nat,
         len <= Len(s), len <= Len(d)
  PROVE  IsReceived(p, type, d, s, len, flags, HeaderLayer(type, d, s, len, flags))
<1> DEFINE front == SubSeq(s, 1, len)
           data == Put(d, 0, front)
           l == [type |-> type, size |-> Len(d), flags |-> flags, data |-> data]
           old == [type |-> type, size |-> Len(d), flags |-> {}, data |-> d]
           n == Len(p)
           q == Append(p, old)
<1>1. front \in Seq(Byte) /\ Len(front) = len
  BY SubSeqProperties, LenProperties
<1>2. data \in Seq(Byte) /\ Len(data) = Len(d) /\ SubSeq(data, 1, len) = front
  <2> HIDE DEF front
  <2>1. data \in Seq(Byte) /\ Len(data) = Len(d)
    BY <1>1, PutType
  <2>2. SubSeq(Put(d, 0, front), 1, Len(front)) = front
    BY <1>1, PutFront
  <2> QED
    BY <2>1, <2>2, <1>1
<1>3. l \in Layer /\ old \in Layer
  BY <1>2, LenProperties DEF Layer
<1>4. ars_add_generic(p, type, d) = q
  BY DEF ars_add_generic
<1>5. n \in Nat /\ Len(q) = n + 1 /\ q[n + 1] = old /\ q \in Seq(Layer)
  BY <1>3, AppendProperties, LenProperties
<1>6. /\ Received(q, s, len, flags) = [q EXCEPT ![n + 1] = l]
  <2>1. Received(q, s, len, flags) =
          [q EXCEPT ![n + 1].data = Put(@, 0, front), ![n + 1].flags = flags]
    <3> HIDE DEF q
    <3> QED
      BY <1>5 DEF Received
  <2>2. [q EXCEPT ![n + 1].data = Put(@, 0, front), ![n + 1].flags = flags]
          = [q EXCEPT ![n + 1] = [[q[n + 1] EXCEPT !.data = Put(@, 0, front)] EXCEPT !.flags = flags]]
    <3> HIDE DEF q, front
    <3> QED
      BY <1>5
  <2>3. [[old EXCEPT !.data = Put(@, 0, front)] EXCEPT !.flags = flags] = l
    <3> DEFINE mid == [type |-> type, size |-> Len(d), flags |-> {}, data |-> data]
    <3>1. [old EXCEPT !.data = Put(@, 0, front)] = [old EXCEPT !.data = data]
      <4> HIDE DEF front
      <4> QED
        OBVIOUS
    <3> HIDE DEF data
    <3>2. [old EXCEPT !.data = data] = mid
      <4> DEFINE size == Len(d)
                 none == {}
      <4> HIDE DEF size, none
      <4>1. [[type |-> type, size |-> size, flags |-> none, data |-> d] EXCEPT !.data = data]
              = [type |-> type, size |-> size, flags |-> none, data |-> data]
        BY LayerExcept
      <4> QED
        BY <4>1 DEF size, none
    <3>3. [mid EXCEPT !.flags = flags] = l
      BY LayerExcept
    <3> HIDE DEF old, mid, l
    <3> QED
      BY <3>1, <3>2, <3>3
  <2> HIDE DEF q, old, l, front
  <2> QED
    BY <2>1, <2>2, <2>3, <1>5
<1>7. [q EXCEPT ![n + 1] = l] = Append(p, l)
  <2> HIDE DEF l, old
  <2> QED
    BY <1>3, ReplaceLast
<1> HIDE DEF data, front
<1> QED
  BY <1>2, <1>3, <1>4, <1>6, <1>7 DEF front, data, HeaderLayer, IsReceived

-----------------------------------------------------------------------------
(* The handlers of the dissector.                                          *)

\* The states of the dissector, and the ones that count option bytes in aux.
OptStates == {"GET_IPOPT", "GET_TCPOPT"}
States == OptStates \cup {"GET_IP", "GET_ICMP", "GET_UDP", "GET_TCP", "GET_IGRP",
                         "GET_IGRPENTRY", "GET_DATA", "GET_IP6", "GET_ICMP6"}

\* What a handler that goes on has data with the bytes s: the first r.len of
\* them, one at least if there are any, are in front of a new last layer.
\* The layer holds more only if s ended before the header did.
TakesLayer(p, s, r, l) ==
  /\ r.p = Append(p, l)
  /\ r.len \in 0 .. Len(s) /\ (s # << >> => r.len # 0)
  /\ l.size = Len(l.data) /\ r.len <= Len(l.data)
  /\ SubSeq(l.data, 1, r.len) = SubSeq(s, 1, r.len)
  /\ Len(l.data) > r.len => r.len = Len(s) /\ FTRUNC \in l.flags
  /\ Whole(l.type, Len(l.data))
  /\ r.state \in States \/ (r.state = "DONE" /\ r.len = Len(s))
  /\ r.state \in OptStates => r.aux \in Nat \ {0}

Takes(p, s, r) == \E l \in Layer : TakesLayer(p, s, r, l)

\* A handler that adds such a header takes what it was given.
LEMMA HeaderStep ==
  ASSUME NEW p \in Seq(Layer), NEW type \in LayerTypes, NEW d \in Seq(Byte), Len(d) > 0,
         NEW s \in Seq(Byte), NEW flags \in SUBSET LayerFlags, NEW len \in Nat,
         len <= Len(s), len <= Len(d), len = Len(s) \/ len = Len(d),
         Len(s) < Len(d) => FTRUNC \in flags,
         Whole(type, Len(d)),
         NEW state \in States, NEW aux, NEW proto,
         state \in OptStates => aux \in Nat \ {0}
  PROVE  Takes(p, s, Step(Received(ars_add_generic(p, type, d), s, len, flags),
                          len, state, aux, proto))
<1> DEFINE q == Received(ars_add_generic(p, type, d), s, len, flags)
           r == Step(q, len, state, aux, proto)
<1>1. Len(s) \in Nat /\ Len(d) \in Nat /\ (s # << >> => Len(s) # 0)
  BY LenProperties, EmptySeq
<1> HIDE DEF q
<1> DEFINE l == HeaderLayer(type, d, s, len, flags)
<1> HIDE DEF l
<1>3. /\ l \in Layer
      /\ q = Append(p, l)
      /\ l.type = type /\ l.flags = flags
      /\ l.size = Len(d) /\ Len(l.data) = Len(d)
      /\ SubSeq(l.data, 1, len) = SubSeq(s, 1, len)
  <2>1. IsReceived(p, type, d, s, len, flags, HeaderLayer(type, d, s, len, flags))
    BY ReceivedHeader
  <2>2. IsReceived(p, type, d, s, len, flags, l)
    BY <2>1 DEF l
  <2> QED
    BY <2>2 DEF q, IsReceived
<1>4. r.p = q /\ r.len = len /\ r.state = state /\ r.aux = aux
  BY DEF Step
<1> HIDE DEF r
<1>5. r.p = Append(p, l) /\ SubSeq(l.data, 1, r.len) = SubSeq(s, 1, r.len)
  BY <1>3, <1>4
<1>6. /\ r.len \in 0 .. Len(s) /\ (s # << >> => r.len # 0) /\ r.len <= Len(l.data)
      /\ Len(l.data) > r.len => r.len = Len(s) /\ FTRUNC \in l.flags
  BY <1>1, <1>3, <1>4
<1>7. /\ l.size = Len(l.data)
      /\ Whole(l.type, Len(l.data))
  BY <1>3
<1>8. r.state \in States /\ (r.state \in OptStates => r.aux \in Nat \ {0})
  BY <1>4
<1>9. Takes(p, s, r)
  BY <1>3, <1>5, <1>6, <1>7, <1>8 DEF Takes, TakesLayer
<1> QED
  BY <1>9 DEF r, q

\* The same of a header of n bytes, of which the capture may lack some.
LEMMA HeaderTaken ==
  ASSUME NEW p \in Seq(Layer), NEW type \in LayerTypes, NEW d \in Seq(Byte),
         NEW n \in Nat, n > 0, Len(d) = n,
         NEW s \in Seq(Byte), NEW flags \in SUBSET LayerFlags,
         Len(s) < n => FTRUNC \in flags,
         Whole(type, n),
         NEW state \in States, NEW aux, NEW proto,
         state \in OptStates => aux \in Nat \ {0}
  PROVE  Takes(p, s, Step(Received(ars_add_generic(p, type, d), s, Min({Len(s), n}), flags),
                          Min({Len(s), n}), state, aux, proto))
<1> DEFINE len == Min({Len(s), n})
<1>1. Len(s) \in Nat
  BY LenProperties
<1>2. len = IF Len(s) <= n THEN Len(s) ELSE n
  BY <1>1, MinOfTwo
<1> HIDE DEF len
<1>3. /\ len \in Nat /\ len <= Len(s) /\ len <= Len(d)
      /\ len = Len(s) \/ len = Len(d)
      /\ Len(s) < Len(d) => FTRUNC \in flags
      /\ Len(d) > 0
  BY <1>1, <1>2
<1>4. Takes(p, s, Step(Received(ars_add_generic(p, type, d), s, len, flags),
                       len, state, aux, proto))
  BY <1>3, HeaderStep
<1> QED
  BY <1>4 DEF len

\* A layer that is just the bytes: options and data.
LEMMA GenericStep ==
  ASSUME NEW p \in Seq(Layer), NEW type \in {"IPOPT", "TCPOPT", "DATA"},
         NEW s \in Seq(Byte), NEW len \in 1 .. Len(s), NEW flags \in SUBSET LayerFlags,
         NEW state, NEW aux, NEW proto,
         state \in States \/ (state = "DONE" /\ len = Len(s)),
         state \in OptStates => aux \in Nat \ {0},
         NEW l, l = [type |-> type, size |-> len, flags |-> flags, data |-> SubSeq(s, 1, len)]
  PROVE  Takes(p, s, Step(Append(p, l), len, state, aux, proto))
<1> DEFINE r == Step(Append(p, l), len, state, aux, proto)
<1>1. SubSeq(s, 1, len) \in Seq(Byte) /\ Len(SubSeq(s, 1, len)) = len /\ len \in Nat
  BY SubSeqProperties, LenProperties
<1>2. l \in Layer /\ l.size = Len(l.data) /\ Len(l.data) = len /\ l.type = type
  BY <1>1 DEF Layer, LayerTypes
<1>3. SubSeq(l.data, 1, len) = SubSeq(s, 1, len)
  BY <1>1, SubSeqFull
<1>4. r.p = Append(p, l) /\ r.len = len /\ r.state = state /\ r.aux = aux
  BY DEF Step
<1>5. Len(s) \in Nat
  BY LenProperties
<1> HIDE DEF r
<1>6. TakesLayer(p, s, r, l)
  BY <1>1, <1>2, <1>3, <1>4, <1>5 DEF TakesLayer, Whole
<1>7. Takes(p, s, r)
  BY <1>2, <1>6 DEF Takes
<1> QED
  BY <1>7 DEF r

\* The protocol tables of IPv4 and IPv6 name handlers that need no option
\* length (split.c:202-243).
LEMMA NextStates ==
  ASSUME NEW x
  PROVE  /\ ars_ip_next_state(x) \in States \ OptStates
         /\ ars_ip6_next_state(x) \in States \ OptStates
BY DEF ars_ip_next_state, ars_ip6_next_state, States, OptStates

\* The buffers that the ars_add_*() operations start from (ars.c:152-389).
LEMMA Presets ==
  /\ Zero(20) \in Seq(Byte) /\ Len(Zero(20)) = 20
  /\ Zero(8) \in Seq(Byte) /\ Len(Zero(8)) = 8
  /\ Zero(12) \in Seq(Byte) /\ Len(Zero(12)) = 12
  /\ Zero(14) \in Seq(Byte) /\ Len(Zero(14)) = 14
  /\ Put(Zero(8), 0, <<8>>) \in Seq(Byte) /\ Len(Put(Zero(8), 0, <<8>>)) = 8
  /\ Put(Zero(8), 0, <<128>>) \in Seq(Byte) /\ Len(Put(Zero(8), 0, <<128>>)) = 8
  /\ Put(Put(Zero(40), 0, <<96>>), 7, <<64>>) \in Seq(Byte)
  /\ Len(Put(Put(Zero(40), 0, <<96>>), 7, <<64>>)) = 40
<1>1. 96 \in Byte /\ 64 \in Byte /\ 8 \in Byte /\ 128 \in Byte
  BY DEF Byte
<1>2. /\ Zero(40) \in Seq(Byte) /\ Len(Zero(40)) = 40
      /\ Zero(8) \in Seq(Byte) /\ Len(Zero(8)) = 8
  BY ZeroType
<1>3. /\ Put(Zero(40), 0, <<96>>) \in Seq(Byte)
      /\ Len(Put(Zero(40), 0, <<96>>)) = 40
  BY <1>1, <1>2, PutOne
<1>4. /\ Put(Put(Zero(40), 0, <<96>>), 7, <<64>>) \in Seq(Byte)
      /\ Len(Put(Put(Zero(40), 0, <<96>>), 7, <<64>>)) = 40
  <2> DEFINE d == Put(Zero(40), 0, <<96>>)
  <2> HIDE DEF d
  <2>1. d \in Seq(Byte) /\ Len(d) = 40
    BY <1>3 DEF d
  <2>2. Put(d, 7, <<64>>) \in Seq(Byte) /\ Len(Put(d, 7, <<64>>)) = Len(d)
    BY <1>1, <2>1, PutOne
  <2> QED
    BY <2>1, <2>2 DEF d
<1>5. ASSUME NEW x \in Byte
      PROVE  Put(Zero(8), 0, <<x>>) \in Seq(Byte) /\ Len(Put(Zero(8), 0, <<x>>)) = 8
  BY <1>2, PutOne
<1>6. /\ Put(Zero(8), 0, <<8>>) \in Seq(Byte) /\ Len(Put(Zero(8), 0, <<8>>)) = 8
      /\ Put(Zero(8), 0, <<128>>) \in Seq(Byte) /\ Len(Put(Zero(8), 0, <<128>>)) = 8
  BY <1>1, <1>5
<1> QED
  BY <1>4, <1>6, ZeroType

\* The halves of a byte.
LEMMA Nibbles ==
  ASSUME NEW b1 \in Byte
  PROVE  High(b1) \in 0 .. 15 /\ Low(b1) \in 0 .. 15
BY DEF Byte, High, Low

\* The IPv4 handler, which goes on to the options only if ihl leaves room
\* for them (split.c:320-370).
LEMMA SplitIp ==
  ASSUME NEW p \in Seq(Layer), NEW s \in Seq(Byte), NEW aux, NEW proto,
         ars_split_ip(p, s, aux, proto).err = "OK"
  PROVE  Takes(p, s, ars_split_ip(p, s, aux, proto))
<1> DEFINE n == Len(s)
           ihl == Low(s[1])
           flags == CASE n < 20 -> {FTRUNC}
                      [] n >= 20 /\ ihl < 5 -> {FTRUNC, FBADCKSUM}
                      [] n >= 20 /\ ihl >= 5 /\ n < 4 * ihl -> {FTRUNC}
                      [] OTHER -> IF ars_check_ip_cksum(s) THEN {} ELSE {FBADCKSUM}
           len == Min({n, 20})
           q == Received(ars_add_iphdr(p), s, len, flags)
           r == ars_split_ip(p, s, aux, proto)
<1>1. n \in Nat
  BY LenProperties
<1>2. ASSUME n >= 20 PROVE ihl \in 0 .. 15
  <2>1. 1 \in 1 .. Len(s)
    BY <1>1, <1>2
  <2>2. s[1] \in Byte
    BY <2>1, ElementOfSeq
  <2> QED
    BY <2>2, Nibbles
<1>3. n < 20 => FTRUNC \in flags
  OBVIOUS
<1>4. flags \in SUBSET LayerFlags
  <2> HIDE DEF ihl, n
  <2> QED
    BY <1>1, <1>2 DEF LayerFlags
<1>5. r = CASE ars_nospace(p) -> Nospace(p, "NOMEM")
            [] ~ ars_nospace(p) /\ FTRUNC \in flags -> Step(q, len, "GET_DATA", aux, proto)
            [] ~ ars_nospace(p) /\ FTRUNC \notin flags /\ ihl > 5 ->
                 Step(q, len, "GET_IPOPT", 4 * (ihl - 5), s[10])
            [] OTHER -> Step(q, len, ars_ip_next_state(s[10]), aux, proto)
  BY DEF ars_split_ip
<1>6. ASSUME NEW state \in States, NEW a, NEW x, state \in OptStates => a \in Nat \ {0}
      PROVE  Takes(p, s, Step(q, len, state, a, x))
  <2> DEFINE d == Zero(20)
             type == "IP"
             size == 20
  <2> HIDE DEF flags
  <2>1. /\ d \in Seq(Byte) /\ size \in Nat /\ size > 0 /\ Len(d) = size
        /\ type \in LayerTypes
        /\ Whole(type, size)
    BY Presets DEF LayerTypes, Whole
  <2>2. Len(s) < size => FTRUNC \in flags
    BY <1>3
  <2>3. q = Received(ars_add_generic(p, type, d), s, Min({Len(s), size}), flags)
    BY DEF ars_add_iphdr
  <2>4. len = Min({Len(s), size})
    OBVIOUS
  <2> HIDE DEF len, q, d, type, size
  <2>5. Takes(p, s, Step(Received(ars_add_generic(p, type, d), s, Min({Len(s), size}), flags),
                         Min({Len(s), size}), state, a, x))
    BY <2>1, <2>2, <1>4, <1>6, HeaderTaken
  <2> QED
    BY <2>3, <2>4, <2>5
<1> HIDE DEF flags, q, len, ihl
<1>7. r.err = "OK"
  OBVIOUS
<1> HIDE DEF r
<1>8. ~ ars_nospace(p)
  BY <1>5, <1>7 DEF Nospace
<1>9. CASE FTRUNC \in flags
  <2>1. r = Step(q, len, "GET_DATA", aux, proto)
    BY <1>5, <1>8, <1>9
  <2> QED
    BY <2>1, <1>6 DEF States, OptStates, r
<1>10. CASE FTRUNC \notin flags /\ ihl > 5
  <2>1. r = Step(q, len, "GET_IPOPT", 4 * (ihl - 5), s[10])
    BY <1>5, <1>8, <1>10
  <2>2. n >= 20
    BY <1>1, <1>3, <1>10
  <2>3. 4 * (ihl - 5) \in Nat \ {0}
    BY <1>2, <2>2, <1>10
  <2> QED
    BY <2>1, <2>3, <1>6 DEF States, OptStates, r
<1>11. CASE FTRUNC \notin flags /\ ~ (ihl > 5)
  <2>1. r = Step(q, len, ars_ip_next_state(s[10]), aux, proto)
    BY <1>5, <1>8, <1>11
  <2> QED
    BY <2>1, <1>6, NextStates DEF r
<1> QED
  BY <1>9, <1>10, <1>11

\* The IPv6 handler (split.c:246-271).
LEMMA SplitIp6 ==
  ASSUME NEW p \in Seq(Layer), NEW s \in Seq(Byte), NEW aux, NEW proto,
         ars_split_ip6(p, s, aux, proto).err = "OK"
  PROVE  Takes(p, s, ars_split_ip6(p, s, aux, proto))
<1> DEFINE n == Len(s)
           flags == IF n < 40 THEN {FTRUNC} ELSE {}
           len == Min({n, 40})
           q == Received(ars_add_ip6hdr(p), s, len, flags)
           r == ars_split_ip6(p, s, aux, proto)
<1>1. n \in Nat
  BY LenProperties
<1>2. n < 40 => FTRUNC \in flags
  OBVIOUS
<1>3. flags \in SUBSET LayerFlags
  BY DEF LayerFlags
<1>4. ASSUME NEW state \in States, NEW a, NEW x, state \in OptStates => a \in Nat \ {0}
      PROVE  Takes(p, s, Step(q, len, state, a, x))
  <2> DEFINE d == Put(Put(Zero(40), 0, <<96>>), 7, <<64>>)
             type == "IP6"
             size == 40
  <2> HIDE DEF flags
  <2>1. /\ d \in Seq(Byte) /\ size \in Nat /\ size > 0 /\ Len(d) = size
        /\ type \in LayerTypes
        /\ Whole(type, size)
    BY Presets DEF LayerTypes, Whole
  <2>2. Len(s) < size => FTRUNC \in flags
    BY <1>2
  <2>3. q = Received(ars_add_generic(p, type, d), s, Min({Len(s), size}), flags)
    BY DEF ars_add_ip6hdr
  <2>4. len = Min({Len(s), size})
    OBVIOUS
  <2> HIDE DEF len, q, d, type, size
  <2>5. Takes(p, s, Step(Received(ars_add_generic(p, type, d), s, Min({Len(s), size}), flags),
                         Min({Len(s), size}), state, a, x))
    BY <2>1, <2>2, <1>3, <1>4, HeaderTaken
  <2> QED
    BY <2>3, <2>4, <2>5
<1>5. r.err = "OK"
  OBVIOUS
<1>6. ars_nospace(p) => r = Nospace(p, "NOMEM")
  BY DEF ars_split_ip6
<1>7. ~ ars_nospace(p) =>
        r = Step(q, len, IF flags # {} THEN "GET_DATA" ELSE ars_ip6_next_state(s[7]), aux, proto)
  BY DEF ars_split_ip6
<1> HIDE DEF flags, q, len, r
<1>8. ~ ars_nospace(p)
  BY <1>5, <1>6 DEF Nospace
<1> DEFINE state == IF flags # {} THEN "GET_DATA" ELSE ars_ip6_next_state(s[7])
<1>9. state \in States \ OptStates
  BY NextStates DEF States, OptStates
<1> HIDE DEF state
<1> QED
  BY <1>4, <1>7, <1>8, <1>9 DEF r, state

\* The ICMP handler (split.c:422-465).
LEMMA SplitIcmp ==
  ASSUME NEW p \in Seq(Layer), NEW s \in Seq(Byte), NEW aux, NEW proto,
         ars_split_icmp(p, s, aux, proto).err = "OK"
  PROVE  Takes(p, s, ars_split_icmp(p, s, aux, proto))
<1> DEFINE n == Len(s)
           flags == CASE n < 8 -> {FTRUNC}
                      [] OTHER -> IF ars_check_icmp_cksum(s) THEN {} ELSE {FBADCKSUM}
           len == Min({n, 8})
           q == Received(ars_add_icmphdr(p), s, len, flags)
           r == ars_split_icmp(p, s, aux, proto)
<1>1. n \in Nat
  BY LenProperties
<1>2. n < 8 => FTRUNC \in flags
  OBVIOUS
<1>3. flags \in SUBSET LayerFlags
  BY DEF LayerFlags
<1>4. ASSUME NEW state \in States, NEW a, NEW x, state \in OptStates => a \in Nat \ {0}
      PROVE  Takes(p, s, Step(q, len, state, a, x))
  <2> DEFINE d == Put(Zero(8), 0, <<8>>)
             type == "ICMP"
             size == 8
  <2> HIDE DEF flags
  <2>1. /\ d \in Seq(Byte) /\ size \in Nat /\ size > 0 /\ Len(d) = size
        /\ type \in LayerTypes
        /\ Whole(type, size)
    BY Presets DEF LayerTypes, Whole
  <2>2. Len(s) < size => FTRUNC \in flags
    BY <1>2
  <2>3. q = Received(ars_add_generic(p, type, d), s, Min({Len(s), size}), flags)
    BY DEF ars_add_icmphdr
  <2>4. len = Min({Len(s), size})
    OBVIOUS
  <2> HIDE DEF len, q, d, type, size
  <2>5. Takes(p, s, Step(Received(ars_add_generic(p, type, d), s, Min({Len(s), size}), flags),
                         Min({Len(s), size}), state, a, x))
    BY <2>1, <2>2, <1>3, <1>4, HeaderTaken
  <2> QED
    BY <2>3, <2>4, <2>5
<1>5. r.err = "OK"
  OBVIOUS
<1>6. r = CASE ars_nospace(p) -> Nospace(p, "NOMEM")
            [] ~ ars_nospace(p) /\ (FTRUNC \in flags \/ s[1] \in {0, 8, 13, 14, 15, 16}) ->
                 Step(q, len, "GET_DATA", aux, proto)
            [] OTHER -> Step(q, len, "GET_IP", aux, proto)
  BY DEF ars_split_icmp
<1> HIDE DEF flags, q, len, r
<1>7. ~ ars_nospace(p)
  BY <1>5, <1>6 DEF Nospace
<1>8. \E state \in {"GET_DATA", "GET_IP"} : r = Step(q, len, state, aux, proto)
  BY <1>6, <1>7
<1>9. {"GET_DATA", "GET_IP"} \subseteq States \ OptStates
  BY DEF States, OptStates
<1> QED
  BY <1>4, <1>8, <1>9 DEF r

\* The ICMPv6 handler (split.c:275-318).
LEMMA SplitIcmp6 ==
  ASSUME NEW p \in Seq(Layer), NEW s \in Seq(Byte), NEW aux, NEW proto,
         ars_split_icmp6(p, s, aux, proto).err = "OK"
  PROVE  Takes(p, s, ars_split_icmp6(p, s, aux, proto))
<1> DEFINE n == Len(s)
           cksum == TempCksum(p, "ICMP6", s, 2)
           flags == CASE n < 8 -> {FTRUNC}
                      [] OTHER -> IF cksum \in {-1, Get16(s, 2)} THEN {} ELSE {FBADCKSUM}
           len == Min({n, 8})
           q == Received(ars_add_icmp6hdr(p), s, len, flags)
           r == ars_split_icmp6(p, s, aux, proto)
<1>1. n \in Nat
  BY LenProperties
<1>2. n < 8 => FTRUNC \in flags
  OBVIOUS
<1>3. flags \in SUBSET LayerFlags
  BY DEF LayerFlags
<1>4. ASSUME NEW state \in States, NEW a, NEW x, state \in OptStates => a \in Nat \ {0}
      PROVE  Takes(p, s, Step(q, len, state, a, x))
  <2> DEFINE d == Put(Zero(8), 0, <<128>>)
             type == "ICMP6"
             size == 8
  <2> HIDE DEF flags
  <2>1. /\ d \in Seq(Byte) /\ size \in Nat /\ size > 0 /\ Len(d) = size
        /\ type \in LayerTypes
        /\ Whole(type, size)
    BY Presets DEF LayerTypes, Whole
  <2>2. Len(s) < size => FTRUNC \in flags
    BY <1>2
  <2>3. q = Received(ars_add_generic(p, type, d), s, Min({Len(s), size}), flags)
    BY DEF ars_add_icmp6hdr
  <2>4. len = Min({Len(s), size})
    OBVIOUS
  <2> HIDE DEF len, q, d, type, size
  <2>5. Takes(p, s, Step(Received(ars_add_generic(p, type, d), s, Min({Len(s), size}), flags),
                         Min({Len(s), size}), state, a, x))
    BY <2>1, <2>2, <1>3, <1>4, HeaderTaken
  <2> QED
    BY <2>3, <2>4, <2>5
<1>5. r.err = "OK"
  OBVIOUS
<1>6. /\ ars_nospace(p) => r = Nospace(p, IF n < 8 THEN "NOMEM" ELSE "NOSPACE")
      /\ ~ ars_nospace(p) => r = Step(q, len, "GET_DATA", aux, proto)
  BY DEF ars_split_icmp6
<1> HIDE DEF flags, q, len, r
<1>7. ~ ars_nospace(p)
  BY <1>5, <1>6 DEF Nospace
<1>8. "GET_DATA" \in States \ OptStates
  BY DEF States, OptStates
<1> QED
  BY <1>4, <1>6, <1>7, <1>8 DEF r

\* The UDP handler (split.c:481-531).
LEMMA SplitUdp ==
  ASSUME NEW p \in Seq(Layer), NEW s \in Seq(Byte), NEW aux, NEW proto,
         ars_split_udp(p, s, aux, proto).err = "OK"
  PROVE  Takes(p, s, ars_split_udp(p, s, aux, proto))
<1> DEFINE n == Len(s)
           cksum == TempCksum(p, "UDP", s, 6)
           flags == CASE n < 8 -> {FTRUNC}
                      [] OTHER -> IF cksum = Get16(s, 6) THEN {} ELSE {FBADCKSUM}
           len == Min({n, 8})
           q == Received(ars_add_udphdr(p), s, len, flags)
           r == ars_split_udp(p, s, aux, proto)
<1>1. n \in Nat
  BY LenProperties
<1>2. n < 8 => FTRUNC \in flags
  OBVIOUS
<1>3. flags \in SUBSET LayerFlags
  BY DEF LayerFlags
<1>4. ASSUME NEW state \in States, NEW a, NEW x, state \in OptStates => a \in Nat \ {0}
      PROVE  Takes(p, s, Step(q, len, state, a, x))
  <2> DEFINE d == Zero(8)
             type == "UDP"
             size == 8
  <2> HIDE DEF flags
  <2>1. /\ d \in Seq(Byte) /\ size \in Nat /\ size > 0 /\ Len(d) = size
        /\ type \in LayerTypes
        /\ Whole(type, size)
    BY Presets DEF LayerTypes, Whole
  <2>2. Len(s) < size => FTRUNC \in flags
    BY <1>2
  <2>3. q = Received(ars_add_generic(p, type, d), s, Min({Len(s), size}), flags)
    BY DEF ars_add_udphdr
  <2>4. len = Min({Len(s), size})
    OBVIOUS
  <2> HIDE DEF len, q, d, type, size
  <2>5. Takes(p, s, Step(Received(ars_add_generic(p, type, d), s, Min({Len(s), size}), flags),
                         Min({Len(s), size}), state, a, x))
    BY <2>1, <2>2, <1>3, <1>4, HeaderTaken
  <2> QED
    BY <2>3, <2>4, <2>5
<1>5. r.err = "OK"
  OBVIOUS
<1>6. r = CASE ars_nospace(p) -> Nospace(p, IF n < 8 THEN "NOMEM" ELSE "NOSPACE")
            [] ~ ars_nospace(p) /\ n >= 8 /\ cksum = -1 ->
                 Nospace(ars_add_generic(p, "UDP", Put(s, 6, <<0, 0>>)), "INVALID")
            [] OTHER -> Step(q, len, "GET_DATA", aux, proto)
  BY DEF ars_split_udp
<1> HIDE DEF flags, q, len, r, cksum
<1>7. ~ ars_nospace(p) /\ ~ (n >= 8 /\ cksum = -1)
  BY <1>5, <1>6 DEF Nospace
<1>8. r = Step(q, len, "GET_DATA", aux, proto)
  BY <1>6, <1>7
<1>9. "GET_DATA" \in States \ OptStates
  BY DEF States, OptStates
<1> QED
  BY <1>4, <1>8, <1>9 DEF r

\* The TCP handler, which goes on to the options as IPv4 does (split.c:533-604).
LEMMA SplitTcp ==
  ASSUME NEW p \in Seq(Layer), NEW s \in Seq(Byte), NEW aux, NEW proto,
         ars_split_tcp(p, s, aux, proto).err = "OK"
  PROVE  Takes(p, s, ars_split_tcp(p, s, aux, proto))
<1> DEFINE n == Len(s)
           off == High(s[13])
           cksum == TempCksum(p, "TCP", s, 16)
           flags == CASE n < 20 -> {FTRUNC}
                      [] n >= 20 /\ off < 5 -> {FBADCKSUM}
                      [] n >= 20 /\ off >= 5 /\ n < 4 * off -> {FTRUNC}
                      [] OTHER -> IF cksum = Get16(s, 16) THEN {} ELSE {FBADCKSUM}
           len == Min({n, 20})
           q == Received(ars_add_tcphdr(p), s, len, flags)
           r == ars_split_tcp(p, s, aux, proto)
<1>1. n \in Nat
  BY LenProperties
<1>2. n < 20 => FTRUNC \in flags
  OBVIOUS
<1>3. flags \in SUBSET LayerFlags
  BY DEF LayerFlags
<1>4. ASSUME NEW state \in States, NEW a, NEW x, state \in OptStates => a \in Nat \ {0}
      PROVE  Takes(p, s, Step(q, len, state, a, x))
  <2> DEFINE d == Zero(20)
             type == "TCP"
             size == 20
  <2> HIDE DEF flags
  <2>1. /\ d \in Seq(Byte) /\ size \in Nat /\ size > 0 /\ Len(d) = size
        /\ type \in LayerTypes
        /\ Whole(type, size)
    BY Presets DEF LayerTypes, Whole
  <2>2. Len(s) < size => FTRUNC \in flags
    BY <1>2
  <2>3. q = Received(ars_add_generic(p, type, d), s, Min({Len(s), size}), flags)
    BY DEF ars_add_tcphdr
  <2>4. len = Min({Len(s), size})
    OBVIOUS
  <2> HIDE DEF len, q, d, type, size
  <2>5. Takes(p, s, Step(Received(ars_add_generic(p, type, d), s, Min({Len(s), size}), flags),
                         Min({Len(s), size}), state, a, x))
    BY <2>1, <2>2, <1>3, <1>4, HeaderTaken
  <2> QED
    BY <2>3, <2>4, <2>5
<1>5. r.err = "OK"
  OBVIOUS
<1>6. r = CASE ars_nospace(p) -> Nospace(p, IF n < 20 THEN "NOMEM" ELSE "NOSPACE")
            [] ~ ars_nospace(p) /\ n >= 20 /\ cksum = -1 ->
                 Nospace(ars_add_generic(p, "TCP", Put(s, 16, <<0, 0>>)), "INVALID")
            [] ~ ars_nospace(p) /\ n >= 20 /\ off > 5 /\ cksum # -1 ->
                 Step(q, len, "GET_TCPOPT", 4 * (off - 5), proto)
            [] OTHER -> Step(q, len, "GET_DATA", aux, proto)
  BY DEF ars_split_tcp
<1>7. ASSUME n >= 20 PROVE off \in 0 .. 15
  <2>1. 13 \in 1 .. Len(s)
    BY <1>1, <1>7
  <2>2. s[13] \in Byte
    BY <2>1, ElementOfSeq
  <2> QED
    BY <2>2, Nibbles
<1> HIDE DEF flags, q, len, r, cksum, off, n
<1>8. ~ ars_nospace(p) /\ ~ (n >= 20 /\ cksum = -1)
  BY <1>5, <1>6 DEF Nospace
<1>9. CASE n >= 20 /\ off > 5
  <2>1. r = Step(q, len, "GET_TCPOPT", 4 * (off - 5), proto)
    BY <1>6, <1>8, <1>9
  <2>2. 4 * (off - 5) \in Nat \ {0}
    <3>1. off \in 0 .. 15 /\ off > 5
      BY <1>7, <1>9
    <3> QED
      BY <3>1
  <2>3. "GET_TCPOPT" \in States
    BY DEF States, OptStates
  <2> QED
    BY <1>4, <2>1, <2>2, <2>3 DEF r
<1>10. CASE ~ (n >= 20 /\ off > 5)
  <2>1. r = Step(q, len, "GET_DATA", aux, proto)
    BY <1>6, <1>8, <1>10
  <2>2. "GET_DATA" \in States \ OptStates
    BY DEF States, OptStates
  <2> QED
    BY <1>4, <2>1, <2>2 DEF r
<1> QED
  BY <1>9, <1>10

\* The IGRP handler (split.c:656-675).
LEMMA SplitIgrp ==
  ASSUME NEW p \in Seq(Layer), NEW s \in Seq(Byte), NEW aux, NEW proto,
         ars_split_igrp(p, s, aux, proto).err = "OK"
  PROVE  Takes(p, s, ars_split_igrp(p, s, aux, proto))
<1> DEFINE n == Len(s)
           flags == IF n < 12 THEN {FTRUNC} ELSE {}
           len == Min({n, 12})
           q == Received(ars_add_generic(p, "IGRP", Zero(12)), s, len, flags)
           r == ars_split_igrp(p, s, aux, proto)
<1>1. n \in Nat
  BY LenProperties
<1>2. n < 12 => FTRUNC \in flags
  OBVIOUS
<1>3. flags \in SUBSET LayerFlags
  BY DEF LayerFlags
<1>4. ASSUME NEW state \in States, NEW a, NEW x, state \in OptStates => a \in Nat \ {0}
      PROVE  Takes(p, s, Step(q, len, state, a, x))
  <2> DEFINE d == Zero(12)
             type == "IGRP"
             size == 12
  <2> HIDE DEF flags
  <2>1. /\ d \in Seq(Byte) /\ size \in Nat /\ size > 0 /\ Len(d) = size
        /\ type \in LayerTypes
        /\ Whole(type, size)
    BY Presets DEF LayerTypes, Whole
  <2>2. Len(s) < size => FTRUNC \in flags
    BY <1>2
  <2>3. q = Received(ars_add_generic(p, type, d), s, Min({Len(s), size}), flags)
    OBVIOUS
  <2>4. len = Min({Len(s), size})
    OBVIOUS
  <2> HIDE DEF len, q, d, type, size
  <2>5. Takes(p, s, Step(Received(ars_add_generic(p, type, d), s, Min({Len(s), size}), flags),
                         Min({Len(s), size}), state, a, x))
    BY <2>1, <2>2, <1>3, <1>4, HeaderTaken
  <2> QED
    BY <2>3, <2>4, <2>5
<1>5. r.err = "OK"
  OBVIOUS
<1>6. /\ ars_nospace(p) => r = Nospace(p, "NOSPACE")
      /\ ~ ars_nospace(p) => r = Step(q, len, "GET_IGRPENTRY", aux, proto)
  BY DEF ars_split_igrp, IgrpStep
<1> HIDE DEF flags, q, len, r
<1>7. ~ ars_nospace(p)
  BY <1>5, <1>6 DEF Nospace
<1>8. "GET_IGRPENTRY" \in States \ OptStates
  BY DEF States, OptStates
<1> QED
  BY <1>4, <1>6, <1>7, <1>8 DEF r

\* The handler of IGRP entries (split.c:677-695).
LEMMA SplitIgrpentry ==
  ASSUME NEW p \in Seq(Layer), NEW s \in Seq(Byte), NEW aux, NEW proto,
         ars_split_igrpentry(p, s, aux, proto).err = "OK"
  PROVE  Takes(p, s, ars_split_igrpentry(p, s, aux, proto))
<1> DEFINE n == Len(s)
           flags == IF n < 14 THEN {FTRUNC} ELSE {}
           len == Min({n, 14})
           q == Received(ars_add_generic(p, "IGRPENTRY", Zero(14)), s, len, flags)
           r == ars_split_igrpentry(p, s, aux, proto)
<1>1. n \in Nat
  BY LenProperties
<1>2. n < 14 => FTRUNC \in flags
  OBVIOUS
<1>3. flags \in SUBSET LayerFlags
  BY DEF LayerFlags
<1>4. ASSUME NEW state \in States, NEW a, NEW x, state \in OptStates => a \in Nat \ {0}
      PROVE  Takes(p, s, Step(q, len, state, a, x))
  <2> DEFINE d == Zero(14)
             type == "IGRPENTRY"
             size == 14
  <2> HIDE DEF flags
  <2>1. /\ d \in Seq(Byte) /\ size \in Nat /\ size > 0 /\ Len(d) = size
        /\ type \in LayerTypes
        /\ Whole(type, size)
    BY Presets DEF LayerTypes, Whole
  <2>2. Len(s) < size => FTRUNC \in flags
    BY <1>2
  <2>3. q = Received(ars_add_generic(p, type, d), s, Min({Len(s), size}), flags)
    OBVIOUS
  <2>4. len = Min({Len(s), size})
    OBVIOUS
  <2> HIDE DEF len, q, d, type, size
  <2>5. Takes(p, s, Step(Received(ars_add_generic(p, type, d), s, Min({Len(s), size}), flags),
                         Min({Len(s), size}), state, a, x))
    BY <2>1, <2>2, <1>3, <1>4, HeaderTaken
  <2> QED
    BY <2>3, <2>4, <2>5
<1>5. r.err = "OK"
  OBVIOUS
<1>6. /\ ars_nospace(p) => r = Nospace(p, "NOSPACE")
      /\ ~ ars_nospace(p) => r = Step(q, len, "GET_IGRPENTRY", aux, proto)
  BY DEF ars_split_igrpentry, IgrpStep
<1> HIDE DEF flags, q, len, r
<1>7. ~ ars_nospace(p)
  BY <1>5, <1>6 DEF Nospace
<1>8. "GET_IGRPENTRY" \in States \ OptStates
  BY DEF States, OptStates
<1> QED
  BY <1>4, <1>6, <1>7, <1>8 DEF r

\* Bytes as bounded numbers.
LEMMA ByteRange ==
  ASSUME NEW x \in Byte
  PROVE  x \in Nat /\ x <= 255
BY DEF Byte

\* Two bytes make a number of 16 bits.
LEMMA WordRange ==
  ASSUME NEW d \in Seq(Byte), NEW off \in Nat, off + 2 <= Len(d)
  PROVE  Get16(d, off) \in Nat /\ Get16(d, off) <= 65535
<1>1. Len(d) \in Nat
  BY LenProperties
<1>2. off + 1 \in 1 .. Len(d) /\ off + 2 \in 1 .. Len(d)
  BY <1>1
<1>3. d[off + 1] \in Byte /\ d[off + 2] \in Byte
  BY <1>2, ElementOfSeq
<1>4. /\ d[off + 1] \in Nat /\ d[off + 1] <= 255
      /\ d[off + 2] \in Nat /\ d[off + 2] <= 255
  BY <1>3, ByteRange
<1>5. Get16(d, off) = 256 * d[off + 1] + d[off + 2]
  BY DEF Get16
<1> QED
  BY <1>4, <1>5

\* An option takes at least one byte and at most the ones there are, be its
\* length byte 0 or too large (split.c:387-402).
LEMMA OptionSizeBound ==
  ASSUME NEW s \in Seq(Byte), s # << >>
  PROVE  OptionSize(s) \in 1 .. Len(s)
<1> DEFINE n == Len(s)
           want == IF s[1] \in {0, 1} \/ n < 2 THEN 1 ELSE Max({1, s[2]})
<1>1. n \in Nat /\ n >= 1
  BY LenProperties, EmptySeq
<1>2. want \in Nat /\ want >= 1
  <2>1. CASE s[1] \in {0, 1} \/ n < 2
    BY <2>1
  <2>2. CASE ~ (s[1] \in {0, 1} \/ n < 2)
    <3>1. 2 \in 1 .. Len(s)
      BY <2>2, <1>1
    <3>2. s[2] \in Nat
      <4>1. s[2] \in Byte
        BY <3>1, ElementOfSeq
      <4> QED
        BY <4>1, ByteRange
    <3>3. want = Max({1, s[2]})
      BY <2>2
    <3>4. Max({1, s[2]}) = IF 1 >= s[2] THEN 1 ELSE s[2]
      BY <3>2, MaxOfTwo
    <3> QED
      BY <3>2, <3>3, <3>4
  <2> QED
    BY <2>1, <2>2
<1>3. OptionSize(s) = Min({n, want})
  BY DEF OptionSize
<1> HIDE DEF n, want
<1>4. Min({n, want}) = IF n <= want THEN n ELSE want
  BY <1>1, <1>2, MinOfTwo
<1> QED
  BY <1>1, <1>2, <1>3, <1>4 DEF n

\* The front of a front.
LEMMA PrefixOfPrefix ==
  ASSUME NEW T, NEW s \in Seq(T), NEW m \in 0 .. Len(s), NEW k \in 0 .. m
  PROVE  /\ SubSeq(s, 1, m) \in Seq(T) /\ Len(SubSeq(s, 1, m)) = m
         /\ SubSeq(SubSeq(s, 1, m), 1, k) = SubSeq(s, 1, k)
<1> DEFINE t == SubSeq(s, 1, m)
           u == SubSeq(t, 1, k)
           v == SubSeq(s, 1, k)
<1>1. Len(s) \in Nat
  BY LenProperties
<1>2. t \in Seq(T) /\ Len(t) = m /\ \A i \in 1 .. m : t[i] = s[i]
  BY <1>1, SubSeqProperties
<1>3. u \in Seq(T) /\ Len(u) = k /\ \A i \in 1 .. k : u[i] = t[i]
  <2> HIDE DEF t
  <2> QED
    BY <1>1, <1>2, SubSeqProperties
<1>4. v \in Seq(T) /\ Len(v) = k /\ \A i \in 1 .. k : v[i] = s[i]
  BY <1>1, SubSeqProperties
<1> HIDE DEF t, u, v
<1>5. ASSUME NEW i \in 1 .. k PROVE u[i] = v[i]
  BY <1>2, <1>3, <1>4
<1>6. u = v
  BY <1>3, <1>4, <1>5, SeqEqual
<1> QED
  BY <1>2, <1>6 DEF t, u, v

\* Adding an option appends a layer of its bytes (split.c:404-412).
LEMMA OptionAdded ==
  ASSUME NEW p \in Seq(Layer), NEW type \in {"IPOPT", "TCPOPT"}, NEW s \in Seq(Byte), s # << >>,
         NEW l, l = [type |-> type, size |-> OptionSize(s), flags |-> OptionFlags(s),
                     data |-> SubSeq(s, 1, OptionSize(s))]
  PROVE  AddOption(p, type, s) = Append(p, l) /\ OptionFlags(s) \in SUBSET LayerFlags
<1> DEFINE data == SubSeq(s, 1, OptionSize(s))
           flags == OptionFlags(s)
           size == Len(data)
           none == {}
           old == [type |-> type, size |-> size, flags |-> none, data |-> data]
           q == Append(p, old)
           n == Len(p) + 1
<1>1. data \in Seq(Byte) /\ size = OptionSize(s) /\ size \in Nat
  <2> DEFINE m == OptionSize(s)
             t == SubSeq(s, 1, m)
  <2>1. m \in 1 .. Len(s)
    BY OptionSizeBound
  <2> HIDE DEF m
  <2>2. m \in 0 .. Len(s) /\ 0 \in 0 .. m /\ m \in Nat
    BY <2>1, LenProperties
  <2>3. t \in Seq(Byte) /\ Len(t) = m
    BY <2>2, SubSeqProperties
  <2> QED
    BY <2>2, <2>3 DEF m
<1>2. flags \in SUBSET LayerFlags
  BY DEF OptionFlags, LayerFlags
<1>3. l = [type |-> type, size |-> size, flags |-> flags, data |-> data]
  BY <1>1
<1>4. AddOption(p, type, s) = [q EXCEPT ![n].flags = flags]
  BY DEF AddOption, ars_set_flags, ars_add_generic
<1> HIDE DEF data, flags, size, none
<1>5. l \in Layer /\ old \in Layer
  <2>1. type \in LayerTypes
    BY DEF LayerTypes
  <2>2. size <= Len(data) /\ none \in SUBSET LayerFlags
    BY <1>1 DEF size, none
  <2> QED
    BY <1>1, <1>2, <1>3, <2>1, <2>2, LayerType
<1>6. [old EXCEPT !.flags = flags] = l
  <2>1. [[type |-> type, size |-> size, flags |-> none, data |-> data] EXCEPT !.flags = flags]
          = [type |-> type, size |-> size, flags |-> flags, data |-> data]
    BY LayerExcept
  <2> QED
    BY <1>3, <2>1
<1> HIDE DEF old
<1>7. q[n] = old /\ n \in DOMAIN q
  BY <1>5, AppendProperties, LenProperties
<1>8. [q EXCEPT ![n].flags = flags] = [q EXCEPT ![n] = l]
  <2> HIDE DEF q, n
  <2>1. [q EXCEPT ![n].flags = flags] = [q EXCEPT ![n] = [q[n] EXCEPT !.flags = flags]]
    OBVIOUS
  <2> QED
    BY <1>6, <1>7, <2>1
<1>9. [q EXCEPT ![n] = l] = Append(p, l)
  BY <1>5, ReplaceLast
<1> QED
  BY <1>2, <1>4, <1>8, <1>9 DEF flags

\* The next option of at most aux bytes.
LEMMA OptionTaken ==
  ASSUME NEW p \in Seq(Layer), NEW type \in {"IPOPT", "TCPOPT"}, NEW s \in Seq(Byte), s # << >>,
         NEW aux \in Nat \ {0}, NEW opts, opts = SubSeq(s, 1, Min({Len(s), aux})),
         NEW state \in States, NEW left, NEW proto,
         state \in OptStates => left \in Nat \ {0}
  PROVE  /\ opts # << >> /\ OptionSize(opts) \in 1 .. aux
         /\ Takes(p, s, Step(AddOption(p, type, opts), OptionSize(opts), state, left, proto))
<1> DEFINE m == Min({Len(s), aux})
           k == OptionSize(opts)
           l == [type |-> type, size |-> k, flags |-> OptionFlags(opts), data |-> SubSeq(opts, 1, k)]
<1>1. Len(s) \in Nat /\ Len(s) # 0
  BY LenProperties, EmptySeq
<1>2. m = IF Len(s) <= aux THEN Len(s) ELSE aux
  BY <1>1, MinOfTwo
<1> HIDE DEF m
<1>3. m \in 0 .. Len(s) /\ m # 0 /\ m <= aux /\ m \in Nat
  BY <1>1, <1>2
<1>4. opts \in Seq(Byte) /\ Len(opts) = m
  <2>1. SubSeq(s, 1, m) \in Seq(Byte) /\ Len(SubSeq(s, 1, m)) = m
    BY <1>1, <1>3, SubSeqProperties
  <2>2. opts = SubSeq(s, 1, m)
    BY DEF m
  <2> QED
    BY <2>1, <2>2
<1>5. opts # << >>
  BY <1>3, <1>4, EmptySeq
<1>6. k \in 1 .. m
  BY <1>4, <1>5, OptionSizeBound
<1>7. AddOption(p, type, opts) = Append(p, l) /\ OptionFlags(opts) \in SUBSET LayerFlags
  <2>1. l = [type |-> type, size |-> OptionSize(opts), flags |-> OptionFlags(opts),
             data |-> SubSeq(opts, 1, OptionSize(opts))]
    OBVIOUS
  <2> HIDE DEF l, k
  <2> QED
    BY <1>4, <1>5, <2>1, OptionAdded
<1> HIDE DEF k
<1>8. SubSeq(opts, 1, k) = SubSeq(s, 1, k)
  <2>1. k \in 0 .. m
    BY <1>6
  <2>2. m \in 0 .. Len(s)
    BY <1>3
  <2>3. SubSeq(SubSeq(s, 1, m), 1, k) = SubSeq(s, 1, k)
    BY <2>1, <2>2, PrefixOfPrefix
  <2> QED
    BY <2>3 DEF m
<1>9. l = [type |-> type, size |-> k, flags |-> OptionFlags(opts), data |-> SubSeq(s, 1, k)]
  BY <1>8
<1>10. k \in 1 .. Len(s) /\ k \in 1 .. aux
  BY <1>1, <1>3, <1>6
<1>11. type \in {"IPOPT", "TCPOPT", "DATA"}
  OBVIOUS
<1> HIDE DEF l
<1>12. Takes(p, s, Step(Append(p, l), k, state, left, proto))
  <2> DEFINE flags == OptionFlags(opts)
  <2>1. flags \in SUBSET LayerFlags /\ l = [type |-> type, size |-> k, flags |-> flags, data |-> SubSeq(s, 1, k)]
    BY <1>7, <1>9
  <2> HIDE DEF flags
  <2> QED
    BY <2>1, <1>10, <1>11, GenericStep
<1> QED
  BY <1>5, <1>7, <1>10, <1>12 DEF k

\* The handler of one IP option (split.c:372-420).
LEMMA SplitIpopt ==
  ASSUME NEW p \in Seq(Layer), NEW s \in Seq(Byte), s # << >>, NEW aux \in Nat \ {0}, NEW proto,
         ars_split_ipopt(p, s, aux, proto).err = "OK"
  PROVE  Takes(p, s, ars_split_ipopt(p, s, aux, proto))
<1> DEFINE opts == SubSeq(s, 1, Min({Len(s), aux}))
           left == aux - OptionSize(opts)
           state == IF left > 0 THEN "GET_IPOPT" ELSE ars_ip_next_state(proto)
           type == "IPOPT"
           r == ars_split_ipopt(p, s, aux, proto)
<1>1. r = CASE opts = << >> -> Step(p, 0, "GET_DATA", aux, proto)
            [] opts # << >> /\ ars_nospace(p) -> Nospace(p, "NOSPACE")
            [] OTHER -> Step(AddOption(p, type, opts), OptionSize(opts), state, left, proto)
  BY DEF ars_split_ipopt
<1>2. type \in {"IPOPT", "TCPOPT"} /\ "GET_DATA" \in States
  BY DEF States, OptStates
<1> HIDE DEF opts, type
<1>3. opts # << >> /\ OptionSize(opts) \in 1 .. aux
  <2> DEFINE data == "GET_DATA"
  <2>1. data \in States /\ (data \in OptStates => 1 \in Nat \ {0})
    BY <1>2
  <2>2. opts = SubSeq(s, 1, Min({Len(s), aux}))
    BY DEF opts
  <2> HIDE DEF data
  <2> QED
    BY <1>2, <2>1, <2>2, OptionTaken
<1>4. state \in States /\ (state \in OptStates => left \in Nat \ {0})
  <2>1. left \in Int /\ (left > 0 => left \in Nat \ {0})
    BY <1>3
  <2> HIDE DEF left
  <2>2. CASE left > 0
    BY <2>1, <2>2 DEF States, OptStates
  <2>3. CASE ~ (left > 0)
    BY <2>3, NextStates
  <2> QED
    BY <2>2, <2>3
<1>5. opts = SubSeq(s, 1, Min({Len(s), aux}))
  BY DEF opts
<1>6. r.err = "OK"
  OBVIOUS
<1> HIDE DEF r, state, left
<1>7. r = Step(AddOption(p, type, opts), OptionSize(opts), state, left, proto)
  BY <1>1, <1>3, <1>6 DEF Nospace
<1>8. Takes(p, s, Step(AddOption(p, type, opts), OptionSize(opts), state, left, proto))
  BY <1>2, <1>4, <1>5, OptionTaken
<1> QED
  BY <1>7, <1>8 DEF r

\* The handler of one TCP option (split.c:606-654).
LEMMA SplitTcpopt ==
  ASSUME NEW p \in Seq(Layer), NEW s \in Seq(Byte), s # << >>, NEW aux \in Nat \ {0}, NEW proto,
         ars_split_tcpopt(p, s, aux, proto).err = "OK"
  PROVE  Takes(p, s, ars_split_tcpopt(p, s, aux, proto))
<1> DEFINE opts == SubSeq(s, 1, Min({Len(s), aux}))
           left == aux - OptionSize(opts)
           state == IF left > 0 THEN "GET_TCPOPT" ELSE "GET_DATA"
           type == "TCPOPT"
           r == ars_split_tcpopt(p, s, aux, proto)
<1>1. r = CASE opts = << >> -> Step(p, 0, "GET_DATA", aux, proto)
            [] opts # << >> /\ ars_nospace(p) -> Nospace(p, "NOSPACE")
            [] OTHER -> Step(AddOption(p, type, opts), OptionSize(opts), state, left, proto)
  BY DEF ars_split_tcpopt
<1>2. type \in {"IPOPT", "TCPOPT"} /\ "GET_DATA" \in States
  BY DEF States, OptStates
<1> HIDE DEF opts, type
<1>3. opts # << >> /\ OptionSize(opts) \in 1 .. aux
  <2> DEFINE data == "GET_DATA"
  <2>1. data \in States /\ (data \in OptStates => 1 \in Nat \ {0})
    BY <1>2
  <2>2. opts = SubSeq(s, 1, Min({Len(s), aux}))
    BY DEF opts
  <2> HIDE DEF data
  <2> QED
    BY <1>2, <2>1, <2>2, OptionTaken
<1>4. state \in States /\ (state \in OptStates => left \in Nat \ {0})
  <2>1. left \in Int /\ (left > 0 => left \in Nat \ {0})
    BY <1>3
  <2> HIDE DEF left
  <2> QED
    BY <2>1 DEF States, OptStates
<1>5. opts = SubSeq(s, 1, Min({Len(s), aux}))
  BY DEF opts
<1>6. r.err = "OK"
  OBVIOUS
<1> HIDE DEF r, state, left
<1>7. r = Step(AddOption(p, type, opts), OptionSize(opts), state, left, proto)
  BY <1>1, <1>3, <1>6 DEF Nospace
<1>8. Takes(p, s, Step(AddOption(p, type, opts), OptionSize(opts), state, left, proto))
  BY <1>2, <1>4, <1>5, OptionTaken
<1> QED
  BY <1>7, <1>8 DEF r

\* The rest of the datagram is data (split.c:467-479).
LEMMA SplitData ==
  ASSUME NEW p \in Seq(Layer), NEW s \in Seq(Byte), s # << >>, NEW aux, NEW proto,
         ars_split_data(p, s, aux, proto).err = "OK"
  PROVE  Takes(p, s, ars_split_data(p, s, aux, proto))
<1> DEFINE type == "DATA"
           state == "DONE"
           n == Len(s)
           flags == {}
           l == [type |-> type, size |-> n, flags |-> flags, data |-> SubSeq(s, 1, n)]
           r == ars_split_data(p, s, aux, proto)
<1>1. n \in 1 .. Len(s)
  BY LenProperties, EmptySeq
<1>2. SubSeq(s, 1, n) = s
  BY SubSeqFull
<1>3. /\ ars_nospace(p) => r = Nospace(p, "NOMEM")
      /\ ~ ars_nospace(p) => r = Step(Append(p, l), n, state, aux, proto)
  BY <1>2 DEF ars_split_data, ars_add_generic
<1>4. r.err = "OK"
  OBVIOUS
<1>5. /\ type \in {"IPOPT", "TCPOPT", "DATA"} /\ flags \in SUBSET LayerFlags
      /\ state \in States \/ (state = "DONE" /\ n = Len(s))
      /\ state \in OptStates => aux \in Nat \ {0}
  BY DEF LayerTypes, States, OptStates
<1>6. l = [type |-> type, size |-> n, flags |-> flags, data |-> SubSeq(s, 1, n)]
  OBVIOUS
<1> HIDE DEF r, l, type, state, n, flags
<1>7. r = Step(Append(p, l), n, state, aux, proto)
  BY <1>3, <1>4 DEF Nospace
<1>8. Takes(p, s, Step(Append(p, l), n, state, aux, proto))
  BY <1>1, <1>5, <1>6, GenericStep
<1> QED
  BY <1>7, <1>8 DEF r

\* Which states may find nothing to read, and what the option states need.
Feeds(state, s, aux) ==
  /\ state \in States
  /\ state # "GET_IP" => s # << >>
  /\ state \in OptStates => aux \in Nat \ {0}

\* Every handler of ars_split_state_handler() (split.c:90-138) that does not
\* fail takes what it was given.
LEMMA HandlerTakes ==
  ASSUME NEW p \in Seq(Layer), NEW s \in Seq(Byte), NEW aux, NEW proto,
         NEW state, Feeds(state, s, aux),
         ars_split_state_handler(state, p, s, aux, proto).err = "OK"
  PROVE  Takes(p, s, ars_split_state_handler(state, p, s, aux, proto))
<1> DEFINE r == ars_split_state_handler(state, p, s, aux, proto)
<1>1. /\ state = "GET_IP" => r = ars_split_ip(p, s, aux, proto)
      /\ state = "GET_IPOPT" => r = ars_split_ipopt(p, s, aux, proto)
      /\ state = "GET_ICMP" => r = ars_split_icmp(p, s, aux, proto)
      /\ state = "GET_UDP" => r = ars_split_udp(p, s, aux, proto)
      /\ state = "GET_TCP" => r = ars_split_tcp(p, s, aux, proto)
      /\ state = "GET_TCPOPT" => r = ars_split_tcpopt(p, s, aux, proto)
      /\ state = "GET_IGRP" => r = ars_split_igrp(p, s, aux, proto)
      /\ state = "GET_IGRPENTRY" => r = ars_split_igrpentry(p, s, aux, proto)
      /\ state = "GET_DATA" => r = ars_split_data(p, s, aux, proto)
      /\ state = "GET_IP6" => r = ars_split_ip6(p, s, aux, proto)
      /\ state = "GET_ICMP6" => r = ars_split_icmp6(p, s, aux, proto)
  BY DEF ars_split_state_handler
<1>2. r.err = "OK"
  OBVIOUS
<1> HIDE DEF r
<1>3. CASE state \in {"GET_IPOPT", "GET_TCPOPT", "GET_DATA"}
  <2>1. s # << >> /\ (state # "GET_DATA" => aux \in Nat \ {0})
    BY <1>3 DEF Feeds, OptStates
  <2> QED
    BY <1>1, <1>2, <1>3, <2>1, SplitIpopt, SplitTcpopt, SplitData DEF r
<1>4. CASE state \in {"GET_IP", "GET_IP6", "GET_ICMP", "GET_ICMP6"}
  BY <1>1, <1>2, <1>4, SplitIp, SplitIp6, SplitIcmp, SplitIcmp6 DEF r
<1>5. CASE state \in {"GET_UDP", "GET_TCP", "GET_IGRP", "GET_IGRPENTRY"}
  BY <1>1, <1>2, <1>5, SplitUdp, SplitTcp, SplitIgrp, SplitIgrpentry DEF r
<1> QED
  BY <1>3, <1>4, <1>5 DEF Feeds, States, OptStates

-----------------------------------------------------------------------------
(* The dissector.                                                          *)

\* What is left of the datagram after a handler is at most what was left
\* before, and at least nothing.
LEMMA Window ==
  ASSUME NEW p \in Seq(Layer), NEW s \in Seq(Byte), NEW r, NEW l \in Layer, TakesLayer(p, s, r, l)
  PROVE  WithinDatagram(r.p, Len(s), r.len) \in r.len .. Len(s)
<1> DEFINE n == Len(s)
           len == r.len
           q == r.p
<1>1. n \in Nat /\ len \in 0 .. n /\ q = Append(p, l)
  BY LenProperties DEF TakesLayer
<1>2. Len(q) = 1 => q[1] = l
  <2>1. Len(Append(p, l)) = Len(p) + 1 /\ Append(p, l)[Len(p) + 1] = l
    BY AppendProperties
  <2>2. Len(p) \in Nat
    BY LenProperties
  <2> DEFINE k == Len(p)
  <2>3. k \in Nat /\ Len(q) = k + 1 /\ q[k + 1] = l
    BY <1>1, <2>1, <2>2
  <2> HIDE DEF q, k
  <2> QED
    BY <2>3
<1>3. l.data \in Seq(Byte)
  BY DEF Layer
<1>4. /\ l.type = "IP" => Get16(l.data, 2) \in Nat
      /\ l.type = "IP6" => Get16(l.data, 4) \in Nat
  <2> DEFINE d == l.data
  <2>1. d \in Seq(Byte)
    BY <1>3
  <2>2. CASE l.type = "IP"
    <3>1. Len(d) = 20
      BY <2>2 DEF TakesLayer, Whole
    <3> HIDE DEF d
    <3>2. Get16(d, 2) \in Nat
      <4> DEFINE off == 2
      <4>1. off \in Nat /\ off + 2 <= Len(d)
        BY <3>1
      <4> HIDE DEF off
      <4>2. Get16(d, off) \in Nat
        BY <2>1, <4>1, WordRange
      <4> QED
        BY <4>2 DEF off
    <3> QED
      BY <2>2, <3>2 DEF d
  <2>3. CASE l.type = "IP6"
    <3>1. Len(d) = 40
      BY <2>3 DEF TakesLayer, Whole
    <3> HIDE DEF d
    <3>2. Get16(d, 4) \in Nat
      <4> DEFINE off == 4
      <4>1. off \in Nat /\ off + 2 <= Len(d)
        BY <3>1
      <4> HIDE DEF off
      <4>2. Get16(d, off) \in Nat
        BY <2>1, <4>1, WordRange
      <4> QED
        BY <4>2 DEF off
    <3> QED
      BY <2>3, <3>2 DEF d
  <2> QED
    BY <2>2, <2>3
<1>5. WithinDatagram(q, n, len) =
        CASE Len(q) = 1 /\ q[1].type = "IP"  -> Min({n, Max({len, Get16(q[1].data, 2)})})
          [] Len(q) = 1 /\ q[1].type = "IP6" -> Min({n, Get16(q[1].data, 4) + len})
          [] OTHER -> n
  BY DEF WithinDatagram
<1> HIDE DEF n, len, q
<1>6. CASE Len(q) = 1 /\ q[1].type = "IP"
  <2> DEFINE total == Get16(l.data, 2)
             top == Max({len, total})
  <2>1. q[1] = l /\ total \in Nat
    <3>1. q[1] = l
      BY <1>2, <1>6
    <3> QED
      BY <1>4, <1>6, <3>1
  <2>2. WithinDatagram(q, n, len) = Min({n, top})
    BY <1>5, <1>6, <2>1
  <2> HIDE DEF total
  <2>3. top = IF len >= total THEN len ELSE total
    BY <1>1, <2>1, MaxOfTwo
  <2> HIDE DEF top
  <2>4. top \in Nat /\ top >= len
    BY <1>1, <2>1, <2>3
  <2>5. Min({n, top}) = IF n <= top THEN n ELSE top
    BY <1>1, <2>4, MinOfTwo
  <2>6. WithinDatagram(q, n, len) \in len .. n
    BY <1>1, <2>2, <2>4, <2>5
  <2> QED
    BY <2>6 DEF q, n, len
<1>7. CASE Len(q) = 1 /\ q[1].type = "IP6"
  <2> DEFINE top == Get16(l.data, 4) + len
  <2>1. q[1] = l /\ Get16(l.data, 4) \in Nat
    <3>1. q[1] = l
      BY <1>2, <1>7
    <3> QED
      BY <1>4, <1>7, <3>1
  <2>2. WithinDatagram(q, n, len) = Min({n, top})
    BY <1>5, <1>7, <2>1
  <2>3. top \in Nat /\ top >= len
    BY <1>1, <2>1
  <2> HIDE DEF top
  <2>4. Min({n, top}) = IF n <= top THEN n ELSE top
    BY <1>1, <2>3, MinOfTwo
  <2>5. WithinDatagram(q, n, len) \in len .. n
    BY <1>1, <2>2, <2>3, <2>4
  <2> QED
    BY <2>5 DEF q, n, len
<1>8. CASE ~ (Len(q) = 1 /\ q[1].type \in {"IP", "IP6"})
  <2>1. WithinDatagram(q, n, len) = n
    BY <1>5, <1>8
  <2>2. WithinDatagram(q, n, len) \in len .. n
    BY <1>1, <2>1
  <2> QED
    BY <2>2 DEF q, n, len
<1> QED
  BY <1>6, <1>7, <1>8

\* The first k bytes of a sequence are kept by what is appended to it.
LEMMA PrefixOfConcat ==
  ASSUME NEW T, NEW s \in Seq(T), NEW t \in Seq(T), NEW k \in 0 .. Len(t)
  PROVE  /\ s \o t \in Seq(T) /\ Len(s \o t) = Len(s) + Len(t)
         /\ SubSeq(s \o t, 1, Len(s) + k) = s \o SubSeq(t, 1, k)
<1> DEFINE a == Len(s)
           c == Len(t)
           u == s \o t
           v == SubSeq(t, 1, k)
           w == SubSeq(u, 1, a + k)
           z == s \o v
<1>1. a \in Nat /\ c \in Nat /\ k \in Nat /\ k <= c
  BY LenProperties
<1>2. /\ u \in Seq(T) /\ Len(u) = a + c
      /\ \A i \in 1 .. a : u[i] = s[i]
      /\ \A i \in 1 .. c : u[a + i] = t[i]
  <2> HIDE DEF u
  <2>1. u = s \o t
    BY DEF u
  <2> QED
    BY <1>1, <2>1, ConcatProperties
<1>3. v \in Seq(T) /\ Len(v) = k /\ \A i \in 1 .. k : v[i] = t[i]
  BY <1>1, SubSeqProperties
<1> HIDE DEF u, v
<1>4. w \in Seq(T) /\ Len(w) = a + k /\ \A i \in 1 .. a + k : w[i] = u[i]
  <2>1. a + k \in Nat /\ a + k <= Len(u)
    BY <1>1, <1>2
  <2> DEFINE e == a + k
  <2> HIDE DEF e, a
  <2>2. SubSeq(u, 1, e) \in Seq(T) /\ Len(SubSeq(u, 1, e)) = e /\ \A i \in 1 .. e : SubSeq(u, 1, e)[i] = u[i]
    BY <1>2, <2>1, SubSeqProperties DEF e
  <2> QED
    BY <2>2 DEF e
<1>5. z \in Seq(T) /\ Len(z) = a + k /\ (\A i \in 1 .. a : z[i] = s[i]) /\ (\A i \in 1 .. k : z[a + i] = v[i])
  <2>1. /\ s \o v \in Seq(T)
        /\ Len(s \o v) = Len(s) + Len(v)
        /\ \A i \in 1 .. Len(s) + Len(v) : (s \o v)[i] = IF i <= Len(s) THEN s[i] ELSE v[i - Len(s)]
    BY <1>3, ConcatProperties
  <2> HIDE DEF z
  <2>2. z = s \o v
    BY DEF z
  <2> HIDE DEF a
  <2>3. a = Len(s)
    BY DEF a
  <2> QED
    BY <1>1, <1>3, <2>1, <2>2, <2>3
<1> HIDE DEF w, z, a, c
<1>6. ASSUME NEW i \in 1 .. a + k PROVE w[i] = z[i]
  <2>1. CASE i \in 1 .. a
    BY <2>1, <1>2, <1>4, <1>5
  <2>2. CASE i \notin 1 .. a
    <3>1. i - a \in 1 .. k /\ i = a + (i - a)
      BY <2>2, <1>1
    <3>2. w[i] = u[a + (i - a)] /\ z[i] = v[i - a]
      BY <3>1, <1>4, <1>5
    <3>3. u[a + (i - a)] = t[i - a] /\ v[i - a] = t[i - a]
      BY <3>1, <1>1, <1>2, <1>3
    <3> QED
      BY <3>2, <3>3
  <2> QED
    BY <2>1, <2>2
<1>7. w = z
  BY <1>4, <1>5, <1>6, SeqEqual
<1> QED
  BY <1>2, <1>7 DEF a, c, u, v, w, z

\* What the layers hold of what was read, before and after the last one.
AllKept ==
  LayerBytes(captured) = SubSeq(wire, cur.start + 1, cur.off)

CutShort ==
  LET n == cur.off - cur.start
      taken == LayerBytes(captured)
  IN  /\ cur.state = "DONE"
      /\ captured # << >> /\ FTRUNC \in Last(captured).flags
      /\ n < Len(taken)
      /\ SubSeq(taken, 1, n) = SubSeq(wire, cur.start + 1, cur.off)

\* Between two handlers: what is left to read follows what has been read, and
\* the layers hold what has been read; only at the end may one be cut short.
Reading ==
  /\ captured \in Seq(Layer)
  /\ cur.start \in Nat /\ cur.off \in Nat /\ cur.rest \in Seq(Byte)
  /\ cur.start <= cur.off /\ cur.off + Len(cur.rest) <= Len(wire)
  /\ cur.rest = SubSeq(wire, cur.off + 1, cur.off + Len(cur.rest))
  /\ IF cur.state = "DONE" THEN cur.rest = << >>
     ELSE Feeds(cur.state, cur.rest, cur.aux)
  /\ AllKept \/ CutShort

\* The inductive invariant.  SplitKeepsBytes alone is not: it does not say
\* that a handler with option bytes left to count is given some.
SplitInv ==
  /\ wire \in Seq(Byte)
  /\ pc = "capture" => captured = << >>
  /\ pc = "split" => Reading

\* The part of a sequence that begins at a and has n elements.
LEMMA Part ==
  ASSUME NEW T, NEW w \in Seq(T), NEW a \in Nat, NEW n \in Nat, a + n <= Len(w)
  PROVE  /\ SubSeq(w, a + 1, a + n) \in Seq(T)
         /\ Len(SubSeq(w, a + 1, a + n)) = n
         /\ \A i \in 1 .. n : SubSeq(w, a + 1, a + n)[i] = w[a + i]
<1> DEFINE m == a + 1
           e == a + n
           u == SubSeq(w, m, e)
<1>1. Len(w) \in Nat
  BY LenProperties
<1>2. m \in Int /\ e \in Int /\ e - m + 1 = n /\ (m <= e <=> n >= 1)
  OBVIOUS
<1>3. \A i \in m .. e : w[i] \in T
  BY <1>1, ElementOfSeq
<1>4. \A i \in 1 .. n : m + i - 1 = a + i
  OBVIOUS
<1> HIDE DEF m, e
<1>5. /\ u \in Seq(T)
      /\ Len(u) = IF m <= e THEN e - m + 1 ELSE 0
      /\ \A i \in 1 .. e - m + 1 : u[i] = w[m + i - 1]
  BY <1>2, <1>3, SubSeqProperties
<1> HIDE DEF u
<1>6. Len(u) = n
  BY <1>2, <1>5
<1>7. ASSUME NEW i \in 1 .. n PROVE u[i] = w[a + i]
  <2>1. i \in 1 .. e - m + 1
    BY <1>2
  <2> QED
    BY <2>1, <1>4, <1>5
<1> QED
  BY <1>5, <1>6, <1>7 DEF m, e, u

\* A part of a part.
LEMMA PartOfPart ==
  ASSUME NEW T, NEW w \in Seq(T), NEW a \in Nat, NEW n \in Nat, a + n <= Len(w),
         NEW k \in Nat, NEW m \in Nat, k + m <= n
  PROVE  SubSeq(SubSeq(w, a + 1, a + n), k + 1, k + m) = SubSeq(w, (a + k) + 1, (a + k) + m)
<1> DEFINE u == SubSeq(w, a + 1, a + n)
           v == SubSeq(u, k + 1, k + m)
           c == a + k
           z == SubSeq(w, c + 1, c + m)
<1>1. u \in Seq(T) /\ Len(u) = n /\ \A i \in 1 .. n : u[i] = w[a + i]
  BY Part
<1> HIDE DEF u
<1>2. v \in Seq(T) /\ Len(v) = m /\ \A i \in 1 .. m : v[i] = u[k + i]
  BY <1>1, Part
<1>3. Len(w) \in Nat
  BY LenProperties
<1>4. c \in Nat /\ c + m <= Len(w)
  BY <1>3
<1>5. \A i \in 1 .. m : k + i \in 1 .. n /\ a + (k + i) = c + i
  OBVIOUS
<1> HIDE DEF c
<1>6. z \in Seq(T) /\ Len(z) = m /\ \A i \in 1 .. m : z[i] = w[c + i]
  BY <1>4, Part
<1> HIDE DEF v, z
<1>7. ASSUME NEW i \in 1 .. m PROVE v[i] = z[i]
  <2>1. v[i] = u[k + i] /\ z[i] = w[c + i]
    BY <1>2, <1>6
  <2>2. u[k + i] = w[a + (k + i)]
    BY <1>1, <1>5
  <2> QED
    BY <1>5, <2>1, <2>2
<1>8. v = z
  BY <1>2, <1>6, <1>7, SeqEqual
<1> QED
  BY <1>8 DEF u, v, c, z

\* Parts that touch make one part.
LEMMA AdjacentParts ==
  ASSUME NEW T, NEW w \in Seq(T), NEW a \in Nat, NEW o \in Nat, a <= o,
         NEW k \in Nat, o + k <= Len(w)
  PROVE  SubSeq(w, a + 1, o) \o SubSeq(w, o + 1, o + k) = SubSeq(w, a + 1, o + k)
<1> DEFINE m == a + 1
           e == o + k
<1>1. Len(w) \in Nat
  BY LenProperties
<1>2. m \in 1 .. Len(w) + 1 /\ o \in m - 1 .. Len(w) /\ e \in o .. Len(w)
  BY <1>1
<1> HIDE DEF m, e
<1>3. SubSeq(w, m, o) \o SubSeq(w, o + 1, e) = SubSeq(w, m, e)
  BY <1>2, ConcatAdjacentSubSeq
<1> QED
  BY <1>3 DEF m, e

\* One turn of the dissector's loop.
LEMMA SplitStepReading ==
  ASSUME wire \in Seq(Byte), Reading, SplitStep, pc' = "split"
  PROVE  /\ Reading'
         /\ cur'.off > cur.off \/ (cur.rest = << >> /\ cur'.state = "DONE")
<1> DEFINE s == cur.rest
           r == ars_split_state_handler(cur.state, captured, cur.rest, cur.aux, cur.proto)
           n == WithinDatagram(r.p, Len(cur.rest), r.len)
           k == r.len
           m == n - k
           off == cur.off
           start == cur.start
           rest == SubSeq(cur.rest, r.len + 1, n)
           taken == LayerBytes(captured)
<1>1. /\ captured' = r.p /\ wire' = wire /\ r.err = "OK"
      /\ cur' = [start |-> start, off |-> off + k, rest |-> rest,
                 state |-> IF rest = << >> THEN "DONE" ELSE r.state,
                 aux |-> r.aux, proto |-> r.proto]
  BY DEF SplitStep
<1>2. /\ captured \in Seq(Layer) /\ Feeds(cur.state, s, cur.aux) /\ s \in Seq(Byte)
      /\ taken = SubSeq(wire, start + 1, off)
      /\ start \in Nat /\ off \in Nat /\ start <= off /\ off + Len(s) <= Len(wire)
      /\ s = SubSeq(wire, off + 1, off + Len(s))
  BY DEF SplitStep, Reading, AllKept, CutShort
<1>3. Takes(captured, s, r)
  BY <1>1, <1>2, HandlerTakes
<1>4. PICK l \in Layer : TakesLayer(captured, s, r, l)
  BY <1>3 DEF Takes
<1>5. n \in k .. Len(s)
  BY <1>2, <1>4, Window
<1>6. /\ r.p = Append(captured, l)
      /\ k \in 0 .. Len(s) /\ (s # << >> => k # 0)
      /\ l.size = Len(l.data) /\ k <= Len(l.data)
      /\ SubSeq(l.data, 1, k) = SubSeq(s, 1, k)
      /\ Len(l.data) > k => k = Len(s) /\ FTRUNC \in l.flags
      /\ r.state \in States \/ (r.state = "DONE" /\ k = Len(s))
      /\ r.state \in OptStates => r.aux \in Nat \ {0}
  BY <1>4 DEF TakesLayer
<1>7. Len(s) \in Nat /\ Len(wire) \in Nat
  BY <1>2, LenProperties
<1> HIDE DEF r, n, k, m, rest, off, start, s, taken
<1>8. k \in Nat /\ k <= Len(s) /\ n \in Nat /\ m \in Nat /\ k + m <= Len(s) /\ n = k + m
  BY <1>5, <1>6, <1>7 DEF m
<1>9. rest \in Seq(Byte) /\ Len(rest) = m
  <2>1. SubSeq(s, k + 1, k + m) \in Seq(Byte) /\ Len(SubSeq(s, k + 1, k + m)) = m
    BY <1>2, <1>8, Part
  <2>2. rest = SubSeq(s, k + 1, k + m)
    BY <1>8 DEF rest, s, k
  <2> QED
    BY <2>1, <2>2
<1>10. rest = SubSeq(wire, (off + k) + 1, (off + k) + m)
  <2> DEFINE e == Len(s)
             u == SubSeq(wire, off + 1, off + e)
  <2>1. e \in Nat /\ off + e <= Len(wire) /\ k + m <= e
    BY <1>2, <1>7, <1>8
  <2>2. rest = SubSeq(u, k + 1, k + m)
    BY <1>2, <1>8 DEF rest, s, k
  <2> HIDE DEF e
  <2>3. SubSeq(u, k + 1, k + m) = SubSeq(wire, (off + k) + 1, (off + k) + m)
    BY <1>2, <1>8, <2>1, PartOfPart
  <2> QED
    BY <2>2, <2>3
<1>11. rest = << >> \/ (k # Len(s) /\ m # 0)
  BY <1>7, <1>8, <1>9, EmptySeq
<1>12. /\ cur'.start = start /\ cur'.off = off + k /\ cur'.rest = rest /\ cur'.aux = r.aux
       /\ cur'.state = IF rest = << >> THEN "DONE" ELSE r.state
  BY <1>1
<1>13. off + k \in Nat /\ start <= off + k /\ (off + k) + Len(rest) <= Len(wire)
  BY <1>2, <1>7, <1>8, <1>9
<1>14. IF cur'.state = "DONE" THEN cur'.rest = << >>
       ELSE Feeds(cur'.state, cur'.rest, cur'.aux)
  BY <1>6, <1>11, <1>12 DEF Feeds, States, OptStates
<1>15. captured' \in Seq(Layer) /\ captured' # << >> /\ Last(captured') = l
  <2>1. captured' = Append(captured, l)
    BY <1>1, <1>6
  <2>2. /\ Append(captured, l) \in Seq(Layer) /\ Len(Append(captured, l)) = Len(captured) + 1
        /\ Append(captured, l)[Len(captured) + 1] = l
    BY <1>2, AppendProperties
  <2>3. Len(captured) \in Nat
    BY <1>2, LenProperties
  <2>4. Append(captured, l) # << >>
    BY <2>2, <2>3, EmptySeq
  <2> QED
    BY <2>1, <2>2, <2>4 DEF Last
<1>16. /\ l.data \in Seq(Byte) /\ Bytes(l) = l.data
       /\ LayerBytes(captured)' = taken \o l.data
  <2>1. l.data \in Seq(Byte)
    BY DEF Layer
  <2>2. Bytes(l) = l.data
    BY <1>6, <2>1, SubSeqFull DEF Bytes
  <2>3. LayerBytes(Append(captured, l)) = LayerBytes(captured) \o Bytes(l)
    BY <1>2, LayerBytesAppend
  <2> QED
    BY <1>1, <1>6, <2>1, <2>2, <2>3 DEF taken, LayerBytes
<1> DEFINE part == SubSeq(wire, start + 1, off)
           size == off - start
           front == SubSeq(l.data, 1, k)
           d == l.data
<1>17. part \in Seq(Byte) /\ Len(part) = size /\ size \in Nat
  <2>1. size \in Nat /\ start + size = off /\ start + size <= Len(wire)
    BY <1>2, <1>7
  <2> HIDE DEF size
  <2>2. SubSeq(wire, start + 1, start + size) \in Seq(Byte) /\ Len(SubSeq(wire, start + 1, start + size)) = size
    BY <1>2, <2>1, Part
  <2> QED
    BY <2>1, <2>2
<1>18. part \o front = SubSeq(wire, start + 1, off + k)
  <2>1. front = SubSeq(s, 1, k)
    BY <1>6
  <2>2. SubSeq(s, 1, k) = SubSeq(wire, off + 1, off + k)
    <3> DEFINE e == Len(s)
               zero == 0
    <3>1. e \in Nat /\ off + e <= Len(wire) /\ zero \in Nat /\ zero + k <= e
      BY <1>2, <1>7, <1>8
    <3>2. SubSeq(s, 1, k) = SubSeq(SubSeq(wire, off + 1, off + e), zero + 1, zero + k)
      <4>1. zero + 1 = 1 /\ zero + k = k
        BY <1>8
      <4>2. s = SubSeq(wire, off + 1, off + e)
        BY <1>2
      <4> HIDE DEF zero, e
      <4> QED
        BY <4>1, <4>2
    <3> HIDE DEF e, zero
    <3>3. SubSeq(SubSeq(wire, off + 1, off + e), zero + 1, zero + k)
            = SubSeq(wire, (off + zero) + 1, (off + zero) + k)
      BY <1>2, <1>8, <3>1, PartOfPart
    <3>4. off + zero = off
      BY <1>2 DEF zero
    <3> QED
      BY <3>2, <3>3, <3>4
  <2>3. off + k <= Len(wire)
    BY <1>2, <1>7, <1>8
  <2> HIDE DEF part
  <2>4. SubSeq(wire, start + 1, off) \o SubSeq(wire, off + 1, off + k) = SubSeq(wire, start + 1, off + k)
    BY <1>2, <1>8, <2>3, AdjacentParts
  <2> QED
    BY <2>1, <2>2, <2>4 DEF part
<1>19. /\ Len(taken \o d) = size + Len(d)
       /\ SubSeq(taken \o d, 1, size + k) = part \o front
  <2>1. Len(d) \in Nat /\ k \in 0 .. Len(d)
    BY <1>6, <1>8, <1>16, LenProperties
  <2>2. taken = part
    BY <1>2
  <2>3. d \in Seq(Byte)
    BY <1>16
  <2> HIDE DEF part, size, d
  <2>4. /\ Len(part \o d) = Len(part) + Len(d)
        /\ SubSeq(part \o d, 1, Len(part) + k) = part \o SubSeq(d, 1, k)
    BY <1>17, <2>1, <2>3, PrefixOfConcat
  <2> QED
    BY <1>17, <2>2, <2>4 DEF d
<1>20. ASSUME Len(d) = k PROVE AllKept'
  <2>1. front = d
    BY <1>16, <1>20, SubSeqFull
  <2>2. LayerBytes(captured)' = SubSeq(wire, start + 1, off + k)
    BY <1>2, <1>16, <1>18, <2>1
  <2> QED
    BY <1>1, <1>12, <2>2 DEF AllKept
<1>21. ASSUME Len(d) # k PROVE CutShort'
  <2>1. Len(d) \in Nat
    BY <1>16, LenProperties
  <2>2. Len(d) > k /\ k = Len(s) /\ FTRUNC \in l.flags
    BY <1>6, <1>8, <1>21, <2>1
  <2>3. rest = << >>
    BY <1>11, <2>2
  <2> DEFINE whole == LayerBytes(captured)'
             some == (off + k) - start
  <2>4. some = size + k /\ whole = taken \o d
    BY <1>2, <1>8, <1>16
  <2> HIDE DEF d, size, part, front
  <2>5. /\ some < Len(whole)
        /\ SubSeq(whole, 1, some) = SubSeq(wire, start + 1, off + k)
    <3>1. size + k < size + Len(d)
      BY <1>8, <1>17, <2>1, <2>2
    <3>2. whole = taken \o d
      BY <2>4
    <3> HIDE DEF whole, some
    <3> QED
      BY <1>18, <1>19, <2>4, <3>1, <3>2
  <2> QED
    BY <1>1, <1>12, <1>15, <2>2, <2>3, <2>5 DEF CutShort
<1>22. (AllKept \/ CutShort)'
  BY <1>20, <1>21
<1> HIDE DEF part, size, front, d
<1>23. Reading'
  <2>1. cur'.rest = SubSeq(wire', cur'.off + 1, cur'.off + Len(cur'.rest))
    BY <1>1, <1>9, <1>10, <1>12
  <2>2. /\ cur'.start \in Nat /\ cur'.off \in Nat /\ cur'.rest \in Seq(Byte)
        /\ cur'.start <= cur'.off /\ cur'.off + Len(cur'.rest) <= Len(wire')
    BY <1>1, <1>2, <1>9, <1>12, <1>13
  <2> QED
    BY <1>14, <1>15, <1>22, <2>1, <2>2 DEF Reading
<1>24. CASE s # << >>
  <2>1. cur'.off > off
    BY <1>2, <1>6, <1>8, <1>12, <1>24
  <2> QED
    BY <1>23, <2>1 DEF off
<1>25. CASE s = << >>
  <2>1. Len(s) = 0
    BY <1>25
  <2>2. rest = << >>
    BY <1>8, <1>11, <2>1
  <2> QED
    BY <1>12, <1>23, <1>25, <2>2 DEF s
<1> QED
  BY <1>24, <1>25

\* ars_split_packet() enters its loop at the offset it guessed or was given,
\* with nothing read (split.c:140-162).
LEMMA SplitStartReading ==
  ASSUME SplitInv, NEW detect \in BOOLEAN, SplitStart(detect)
  PROVE  SplitInv'
<1> DEFINE ipoff == IF detect THEN ars_guess_ipoff(wire) ELSE 0
           rest == SubSeq(wire, ipoff + 1, Len(wire))
<1>1. /\ wire' = wire /\ wire \in Seq(Byte) /\ captured' = captured /\ captured = << >>
      /\ pc' # "capture"
      /\ pc' = "split" =>
           /\ ipoff # -1
           /\ cur' = [start |-> ipoff, off |-> ipoff, rest |-> rest,
                      state |-> FirstState(rest), aux |-> 0, proto |-> 0]
  BY DEF SplitInv, SplitStart
<1>2. CASE pc' # "split"
  BY <1>1, <1>2 DEF SplitInv
<1>3. CASE pc' = "split"
  <2>1. Len(wire) \in Nat
    BY <1>1, LenProperties
  <2>2. ipoff \in Nat /\ ipoff <= Len(wire)
    <3>1. CASE detect
      <4> DEFINE hits == {k \in 0 .. Len(wire) - 20 : ars_seems_ip(SubSeq(wire, k + 1, Len(wire)))}
      <4>1. ipoff = IF hits = {} THEN -1 ELSE Min(hits)
        BY <3>1 DEF ars_guess_ipoff
      <4>2. hits # {} /\ ipoff = Min(hits)
        BY <1>1, <1>3, <4>1
      <4>3. hits \subseteq Nat /\ \A k \in hits : k <= Len(wire)
        BY <2>1
      <4> HIDE DEF hits
      <4>4. Min(hits) \in hits
        BY <4>2, <4>3, MinIn
      <4> QED
        BY <4>2, <4>3, <4>4
    <3>2. CASE ~ detect
      BY <2>1, <3>2
    <3> QED
      BY <3>1, <3>2
  <2> HIDE DEF ipoff
  <2> DEFINE n == Len(wire) - ipoff
  <2>3. n \in Nat /\ ipoff + n = Len(wire)
    BY <2>1, <2>2
  <2>4. rest \in Seq(Byte) /\ Len(rest) = n /\ rest = SubSeq(wire, ipoff + 1, ipoff + n)
    <3> HIDE DEF n
    <3>1. ipoff + n <= Len(wire)
      BY <2>1, <2>3
    <3>2. /\ SubSeq(wire, ipoff + 1, ipoff + n) \in Seq(Byte)
          /\ Len(SubSeq(wire, ipoff + 1, ipoff + n)) = n
      BY <1>1, <2>2, <2>3, <3>1, Part
    <3> QED
      BY <2>3, <3>2
  <2> HIDE DEF rest, n
  <2>5. /\ cur'.start = ipoff /\ cur'.off = ipoff /\ cur'.rest = rest
        /\ cur'.state = FirstState(rest) /\ cur'.aux = 0
    BY <1>1, <1>3
  <2>6. cur'.state # "DONE" /\ Feeds(cur'.state, cur'.rest, cur'.aux)
    <3>1. FirstState(rest) \in {"GET_IP", "GET_IP6"}
      BY DEF FirstState
    <3>2. FirstState(rest) = "GET_IP6" => rest # << >>
      <4>1. rest = << >> => Len(rest) = 0
        OBVIOUS
      <4> QED
        BY <4>1 DEF FirstState
    <3> QED
      BY <2>5, <3>1, <3>2 DEF Feeds, States, OptStates
  <2>7. AllKept'
    <3>1. LayerBytes(<< >>) = << >>
      <4> DEFINE f == [k \in 1 .. Len(<< >>) |-> Bytes(<< >>[k])]
      <4>1. f = << >>
        OBVIOUS
      <4> QED
        BY <4>1, FlattenEmpty DEF LayerBytes
    <3>2. LayerBytes(captured)' = << >>
      BY <1>1, <3>1
    <3>3. SubSeq(wire, ipoff + 1, ipoff) = << >>
      BY <2>2, SubSeqEmpty
    <3> QED
      BY <1>1, <2>5, <3>2, <3>3 DEF AllKept
  <2>8. captured' \in Seq(Layer)
    BY <1>1, EmptySeq
  <2>9. Reading'
    BY <1>1, <2>1, <2>2, <2>3, <2>4, <2>5, <2>6, <2>7, <2>8 DEF Reading
  <2> QED
    BY <1>1, <1>3, <2>9 DEF SplitInv
<1> QED
  BY <1>2, <1>3

\* The invariant is inductive.
LEMMA SplitInvStep ==
  ASSUME SplitInv, [SplitNext]_splitVars
  PROVE  SplitInv'
<1>1. CASE SplitStep
  <2>1. wire' = wire /\ pc = "split" /\ pc' # "capture"
    BY <1>1 DEF SplitStep
  <2>2. CASE pc' = "split"
    BY <1>1, <2>1, <2>2, SplitStepReading DEF SplitInv
  <2>3. CASE pc' # "split"
    BY <2>1, <2>3 DEF SplitInv
  <2> QED
    BY <2>2, <2>3
<1>2. CASE \E detect \in BOOLEAN : SplitStart(detect)
  BY <1>2, SplitStartReading
<1>3. CASE UNCHANGED splitVars
  BY <1>3 DEF splitVars, SplitInv, Reading, AllKept, CutShort, LayerBytes
<1> QED
  BY <1>1, <1>2, <1>3 DEF SplitNext

\* The invariant gives the property.
LEMMA SplitKeeps ==
  ASSUME SplitInv
  PROVE  SplitKeepsBytes
<1> DEFINE n == cur.off - cur.start
           taken == LayerBytes(captured)
           read == SubSeq(wire, cur.start + 1, Min({cur.off, Len(wire)}))
           after == SubSeq(wire, cur.off + 1, Len(wire))
<1>1. SUFFICES ASSUME pc = "split"
      PROVE  /\ cur.off <= Len(wire) /\ IsPrefix(read, taken)
             /\ Len(taken) > Len(read) => FTRUNC \in Last(captured).flags
             /\ IsPrefix(cur.rest, after)
             /\ Dissected => cur.rest = << >>
  BY DEF SplitKeepsBytes
<1>2. Reading /\ wire \in Seq(Byte)
  BY <1>1 DEF SplitInv
<1>3. /\ cur.start \in Nat /\ cur.off \in Nat /\ cur.start <= cur.off
      /\ cur.rest \in Seq(Byte) /\ cur.off + Len(cur.rest) <= Len(wire)
      /\ cur.rest = SubSeq(wire, cur.off + 1, cur.off + Len(cur.rest))
      /\ cur.state = "DONE" => cur.rest = << >>
  BY <1>2 DEF Reading
<1>4. Len(wire) \in Nat /\ Len(cur.rest) \in Nat
  BY <1>2, <1>3, LenProperties
<1>5. cur.off <= Len(wire)
  BY <1>3, <1>4
<1>6. read = SubSeq(wire, cur.start + 1, cur.off)
  <2>1. Min({cur.off, Len(wire)}) = cur.off
    <3> DEFINE a == cur.off
               e == Len(wire)
    <3>1. a \in Int /\ e \in Int /\ a <= e
      BY <1>3, <1>4, <1>5
    <3> HIDE DEF a, e
    <3>2. Min({a, e}) = a
      BY <3>1, MinOfTwo
    <3> QED
      BY <3>2 DEF a, e
  <2> QED
    BY <2>1
<1>7. read \in Seq(Byte) /\ Len(read) = n
  <2>1. n \in Nat /\ cur.start + n = cur.off
    BY <1>3
  <2> DEFINE start == cur.start
  <2>2. start \in Nat /\ start + n <= Len(wire)
    BY <1>3, <1>5, <2>1
  <2> HIDE DEF n, read, start
  <2>3. /\ SubSeq(wire, start + 1, start + n) \in Seq(Byte)
        /\ Len(SubSeq(wire, start + 1, start + n)) = n
    BY <1>2, <2>1, <2>2, Part
  <2> QED
    BY <1>6, <2>1, <2>3 DEF start
<1>8. IsPrefix(read, taken) /\ (Len(taken) > Len(read) => FTRUNC \in Last(captured).flags)
  <2> HIDE DEF read
  <2>1. CASE AllKept
    <3>1. taken = read
      BY <1>6, <2>1 DEF AllKept
    <3>2. Len(read) \in Nat
      BY <1>7, LenProperties
    <3> HIDE DEF taken
    <3> QED
      BY <3>1, <3>2 DEF IsPrefix
  <2>2. CASE CutShort
    <3>1. n < Len(taken) /\ FTRUNC \in Last(captured).flags /\ SubSeq(taken, 1, n) = read
      BY <1>6, <2>2 DEF CutShort
    <3>2. captured \in Seq(Layer)
      BY <1>2 DEF Reading
    <3>3. SubSeq(read, 1, n) = read
      BY <1>7, SubSeqFull
    <3>4. n \in Nat
      BY <1>3
    <3>5. n <= Len(taken)
      <4>1. taken \in Seq(Byte)
        BY <3>2, LayersBytes
      <4>2. Len(taken) \in Nat
        BY <4>1, LenProperties
      <4> QED
        BY <3>1, <3>4, <4>2
    <3> HIDE DEF taken, n
    <3> QED
      BY <1>7, <3>1, <3>3, <3>5 DEF IsPrefix
  <2> QED
    BY <1>2, <2>1, <2>2 DEF Reading
<1>9. IsPrefix(cur.rest, after)
  <2> DEFINE m == Len(cur.rest)
             off == cur.off
             a == Len(wire) - off
             zero == 0
  <2>1. m \in Nat /\ a \in Nat /\ off \in Nat /\ zero \in Nat /\ off + a = Len(wire) /\ off + a <= Len(wire) /\ zero + m <= a
    BY <1>3, <1>4, <1>5
  <2>2. cur.rest = SubSeq(wire, off + 1, off + m) /\ after = SubSeq(wire, off + 1, off + a)
    BY <1>3, <2>1
  <2> HIDE DEF m, off, a, zero, after
  <2>3. SubSeq(SubSeq(wire, off + 1, off + a), zero + 1, zero + m) = SubSeq(wire, (off + zero) + 1, (off + zero) + m)
    BY <1>2, <2>1, PartOfPart
  <2>4. zero + 1 = 1 /\ zero + m = m /\ off + zero = off
    BY <2>1 DEF zero
  <2>5. Len(after) = a
    BY <1>2, <2>1, <2>2, Part
  <2>6. m = Len(cur.rest)
    BY DEF m
  <2>7. SubSeq(cur.rest, 1, m) = cur.rest
    BY <1>3, <2>6, SubSeqFull
  <2>8. m <= a
    BY <2>1, <2>4
  <2>9. SubSeq(after, 1, m) = cur.rest
    BY <2>2, <2>3, <2>4
  <2> QED
    BY <2>5, <2>6, <2>7, <2>8, <2>9 DEF IsPrefix
<1> HIDE DEF read, taken, after
<1> QED
  BY <1>3, <1>5, <1>8, <1>9 DEF Dissected

\* Whatever the capture, the dissector neither loses nor invents bytes
\* (ars_split_packet(), split.c:140-199).
THEOREM DissectorKeepsBytes == SplitSpec => []SplitKeepsBytes
<1>1. SplitInit => SplitInv
  BY DEF SplitInit, SplitInv
<1>2. SplitInv /\ [SplitNext]_splitVars => SplitInv'
  BY SplitInvStep
<1>3. SplitInv => SplitKeepsBytes
  BY SplitKeeps
<1> QED
  BY <1>1, <1>2, <1>3, PTL DEF SplitSpec

\* Whatever the capture, every handler consumes a byte or the dissector
\* stops (split.c:174-199, 389-399, 623-633).
THEOREM DissectorProgresses == SplitSpec => SplitProgress
<1>1. SplitInit => SplitInv
  BY DEF SplitInit, SplitInv
<1>2. SplitInv /\ [SplitNext]_splitVars => SplitInv'
  BY SplitInvStep
<1>3. SplitInv /\ [SplitNext]_splitVars =>
        [pc = "split" /\ pc' = "split" =>
           cur'.off > cur.off \/ (cur.rest = << >> /\ Dissected')]_splitVars
  <2>1. SUFFICES ASSUME SplitInv, SplitNext, pc = "split", pc' = "split"
        PROVE  cur'.off > cur.off \/ (cur.rest = << >> /\ Dissected')
    OBVIOUS
  <2>2. SplitStep
    BY <2>1 DEF SplitNext, SplitStart
  <2>3. wire \in Seq(Byte) /\ Reading
    BY <2>1 DEF SplitInv
  <2> QED
    BY <2>1, <2>2, <2>3, SplitStepReading DEF Dissected
<1> QED
  BY <1>1, <1>2, <1>3, PTL DEF SplitSpec, SplitProgress

-----------------------------------------------------------------------------
(* Folds and sums.                                                         *)

\* a, b and c in a row, bracketed either way.
Associates(a, y, c) == (a \o y) \o c = a \o (y \o c)

\* Concatenation associates, by a name, so that no prover tries it on every
\* concatenation in sight.
LEMMA ConcatAssociates ==
  ASSUME NEW T, NEW a \in Seq(T), NEW y \in Seq(T), NEW c \in Seq(T)
  PROVE  Associates(a, y, c)
BY ConcatAssociative DEF Associates

\* A set of numbers below a bound has a greatest one.
LEMMA MaxIn ==
  ASSUME NEW n \in Nat, NEW S \in SUBSET (0 .. n), S # {}
  PROVE  Max(S) \in S /\ \A k \in S : k <= Max(S)
<1> DEFINE R == {n - k : k \in S}
<1>1. R \in SUBSET Nat /\ R # {}
  <2>1. \A k \in S : n - k \in Nat
    OBVIOUS
  <2>2. PICK k \in S : TRUE
    OBVIOUS
  <2>3. n - k \in R
    OBVIOUS
  <2> QED
    BY <2>1, <2>3
<1>2. Min(R) \in R /\ \A k \in R : Min(R) <= k
  <2> HIDE DEF R
  <2> QED
    BY <1>1, MinIn
<1>3. PICK x \in S : Min(R) = n - x
  BY <1>2
<1>4. \A k \in S : x >= k
  <2>1. ASSUME NEW k \in S PROVE x >= k
    <3>1. n - k \in R
      OBVIOUS
    <3>2. n - x <= n - k
      BY <1>2, <1>3, <3>1
    <3> QED
      BY <3>2
  <2> QED
    BY <2>1
<1>5. Max(S) \in S /\ \A k \in S : Max(S) >= k
  BY <1>4 DEF Max
<1> QED
  BY <1>5

\* The greatest of the first positions, and the positions before it.
LEMMA MaxOfFront ==
  ASSUME NEW m \in Nat
  PROVE  1 .. m + 1 # {} /\ Max(1 .. m + 1) = m + 1 /\ (1 .. m + 1) \ {m + 1} = 1 .. m
<1> DEFINE k == m + 1
           S == 1 .. k
<1>1. k \in Nat /\ k \in S /\ S \in SUBSET (0 .. k) /\ S # {} /\ \A h \in S : h <= k
  OBVIOUS
<1>2. Max(S) \in S /\ \A h \in S : h <= Max(S)
  <2> HIDE DEF S, k
  <2> QED
    BY <1>1, MaxIn
<1>3. Max(S) = k
  BY <1>1, <1>2
<1> QED
  BY <1>1, <1>3

\* What FoldLeft() evaluates: a fold over the set of positions that takes out
\* the greatest first.
FoldsFrom(h, base, n, step) ==
  \A s \in SUBSET (1 .. n) :
    h[s] = IF s = {} THEN base ELSE step[Max(s)][h[s \ {Max(s)}]]

\* Such a fold is a function of the set of positions, by induction on it.
LEMMA FoldOverMax ==
  ASSUME NEW V, NEW base \in V, NEW n \in Nat, NEW step \in [1 .. n -> [V -> V]]
  PROVE  \E h \in [SUBSET (1 .. n) -> V] : FoldsFrom(h, base, n, step)
<1> DEFINE S == {m \in Nat : \E h \in [SUBSET (1 .. m) -> V] : FoldsFrom(h, base, m, step)}
<1>1. 0 \in S
  <2> DEFINE h == [s \in SUBSET (1 .. 0) |-> base]
  <2>1. h \in [SUBSET (1 .. 0) -> V] /\ \A s \in SUBSET (1 .. 0) : s = {} /\ h[s] = base
    OBVIOUS
  <2>2. FoldsFrom(h, base, 0, step)
    <3> HIDE DEF h
    <3> QED
      BY <2>1 DEF FoldsFrom
  <2> QED
    BY <2>1, <2>2
<1>2. ASSUME NEW m \in 0 .. n - 1, m \in S PROVE m + 1 \in S
  <2>1. PICK h \in [SUBSET (1 .. m) -> V] : FoldsFrom(h, base, m, step)
    BY <1>2
  <2> DEFINE k == m + 1
             g == [s \in SUBSET (1 .. k) |-> IF k \in s THEN step[k][h[s \ {k}]] ELSE h[s]]
  <2>2. k \in Nat /\ k \in 1 .. n /\ step[k] \in [V -> V] /\ m \in Nat
    OBVIOUS
  <2>3. \A s \in SUBSET (1 .. k) : s \ {k} \in SUBSET (1 .. m)
    OBVIOUS
  <2>4. ASSUME NEW s \in SUBSET (1 .. k)
        PROVE  g[s] \in V /\ g[s] = IF s = {} THEN base ELSE step[Max(s)][g[s \ {Max(s)}]]
    <3>1. CASE k \in s
      <4>1. Max(s) = k
        <5>1. s \in SUBSET (0 .. k) /\ s # {} /\ \A i \in s : i <= k
          BY <2>2, <3>1
        <5>2. Max(s) \in s /\ \A i \in s : i <= Max(s)
          <6> HIDE DEF k
          <6> QED
            BY <2>2, <5>1, MaxIn
        <5>3. k <= Max(s) /\ Max(s) <= k /\ Max(s) \in 0 .. k
          BY <3>1, <5>1, <5>2
        <5> DEFINE x == Max(s)
        <5> HIDE DEF x
        <5>4. k <= x /\ x <= k /\ x \in 0 .. k
          BY <5>3 DEF x
        <5>5. x = k
          BY <2>2, <5>4
        <5> QED
          BY <5>5 DEF x
      <4> DEFINE t == s \ {k}
      <4>2. t \in SUBSET (1 .. m) /\ t \in SUBSET (1 .. k) /\ k \notin t
        BY <2>3
      <4>3. g[s] = step[k][h[t]] /\ g[t] = h[t]
        BY <3>1, <4>2
      <4>4. h[t] \in V
        BY <4>2
      <4> HIDE DEF g, t
      <4>5. step[k][h[t]] \in V
        BY <2>2, <4>4
      <4> QED
        BY <3>1, <4>1, <4>3, <4>5 DEF t
    <3>2. CASE k \notin s
      <4>1. s \in SUBSET (1 .. m)
        BY <2>3, <3>2
      <4>2. g[s] = h[s] /\ h[s] \in V
        BY <3>2, <4>1
      <4>3. CASE s = {}
        <5> HIDE DEF g
        <5> QED
          BY <2>1, <4>1, <4>2, <4>3 DEF FoldsFrom
      <4>4. CASE s # {}
        <5>1. Max(s) \in s
          <6>1. s \in SUBSET (0 .. m)
            BY <4>1
          <6> QED
            BY <2>2, <6>1, <4>4, MaxIn
        <5> DEFINE t == s \ {Max(s)}
        <5>2. t \in SUBSET (1 .. m) /\ t \in SUBSET (1 .. k) /\ k \notin t
          BY <3>2, <4>1, <2>2
        <5>3. g[t] = h[t]
          BY <5>2
        <5>4. h[s] = step[Max(s)][h[t]]
          BY <2>1, <4>1, <4>4 DEF FoldsFrom
        <5> HIDE DEF g, t
        <5> QED
          BY <4>2, <4>4, <5>3, <5>4 DEF t
      <4> QED
        BY <4>3, <4>4
    <3> QED
      BY <3>1, <3>2
  <2>5. g \in [SUBSET (1 .. k) -> V]
    <3>1. g = [s \in SUBSET (1 .. k) |-> g[s]]
      OBVIOUS
    <3> HIDE DEF g, k
    <3> QED
      BY <2>4, <3>1
  <2>6. FoldsFrom(g, base, k, step)
    <3> HIDE DEF g, k
    <3> QED
      BY <2>4 DEF FoldsFrom
  <2> HIDE DEF g
  <2> QED
    BY <2>2, <2>5, <2>6
<1>3. \A m \in 0 .. n : m \in S
  <2> HIDE DEF S
  <2> QED
    BY <1>1, <1>2, UpTo
<1> HIDE DEF S
<1>4. n \in S
  BY <1>3
<1> QED
  BY <1>4 DEF S

\* The sum of the numbers of a sequence, added one after the other.
LEMMA TotalSums ==
  ASSUME NEW s \in Seq(Nat)
  PROVE  \E f \in [0 .. Len(s) -> Nat] :
           /\ f[0] = 0
           /\ \A i \in 1 .. Len(s) : f[i] = f[i - 1] + s[i]
           /\ Total(s) = f[Len(s)]
<1> DEFINE n == Len(s)
           step == [i \in 1 .. n |-> [v \in Nat |-> v + s[i]]]
           Eqn(h) == h = [t \in SUBSET (DOMAIN s) |-> IF t = {} THEN 0 ELSE h[t \ {Max(t)}] + s[Max(t)]]
           F == CHOOSE h : Eqn(h)
<1>1. n \in Nat /\ DOMAIN s = 1 .. n /\ \A i \in 1 .. n : s[i] \in Nat
  BY LenProperties, ElementOfSeq
<1>2. step \in [1 .. n -> [Nat -> Nat]]
  <2>1. \A i \in 1 .. n : [v \in Nat |-> v + s[i]] \in [Nat -> Nat]
    BY <1>1
  <2> QED
    BY <2>1
<1>3. \A i \in 1 .. n : \A v \in Nat : step[i][v] = v + s[i]
  OBVIOUS
<1> DEFINE zero == 0
<1>4. PICK f \in [0 .. n -> Nat] : Iterates(f, zero, n, step)
  <2> HIDE DEF n, step
  <2>1. zero \in Nat
    OBVIOUS
  <2> HIDE DEF zero
  <2> QED
    BY <1>1, <1>2, <2>1, Recursion
<1>5. PICK h \in [SUBSET (1 .. n) -> Nat] : FoldsFrom(h, zero, n, step)
  <2> HIDE DEF n, step
  <2>1. zero \in Nat
    OBVIOUS
  <2> HIDE DEF zero
  <2> QED
    BY <1>1, <1>2, <2>1, FoldOverMax
<1>6. Eqn(h)
  <2>1. ASSUME NEW t \in SUBSET (1 .. n)
        PROVE  h[t] = IF t = {} THEN 0 ELSE h[t \ {Max(t)}] + s[Max(t)]
    <3>1. CASE t = {}
      <4> HIDE DEF n, step
      <4> QED
        BY <3>1, <1>5 DEF FoldsFrom
    <3>2. CASE t # {}
      <4>1. Max(t) \in t
        <5> HIDE DEF n
        <5>1. t \in SUBSET (0 .. n)
          BY <1>1
        <5> QED
          BY <1>1, <3>2, <5>1, MaxIn
      <4> DEFINE r == t \ {Max(t)}
      <4>2. h[t] = step[Max(t)][h[r]]
        <5> HIDE DEF n, step
        <5> QED
          BY <3>2, <1>5 DEF FoldsFrom
      <4>3. h[r] \in Nat /\ Max(t) \in 1 .. n
        BY <4>1
      <4> HIDE DEF step, n, r
      <4>4. step[Max(t)][h[r]] = h[r] + s[Max(t)]
        BY <1>3, <4>3
      <4> QED
        BY <3>2, <4>2, <4>4 DEF r
    <3> QED
      BY <3>1, <3>2
  <2>2. h = [t \in SUBSET (1 .. n) |-> h[t]]
    BY <1>5
  <2> HIDE DEF n, step
  <2> QED
    BY <1>1, <2>1, <2>2
<1>7. Eqn(F)
  <2> HIDE DEF Eqn
  <2> QED
    BY <1>6
<1>8. Total(s) = F[DOMAIN s]
  BY DEF Total, FoldLeft, MapThenFoldSet
<1>9. \A t \in SUBSET (1 .. n) : F[t] = IF t = {} THEN 0 ELSE F[t \ {Max(t)}] + s[Max(t)]
  <2> HIDE DEF F, n
  <2> QED
    BY <1>7, <1>1
<1> HIDE DEF F
<1>10. \A k \in 0 .. n : F[1 .. k] = f[k]
  <2> DEFINE S == {k \in Nat : F[1 .. k] = f[k]}
  <2>1. 0 \in S
    <3>1. F[{}] = 0
      BY <1>9
    <3>2. 1 .. 0 = {}
      OBVIOUS
    <3>3. f[0] = 0
      BY <1>4 DEF Iterates
    <3> QED
      BY <3>1, <3>2, <3>3
  <2>2. ASSUME NEW k \in 0 .. n - 1, k \in S PROVE k + 1 \in S
    <3>1. k \in Nat /\ k + 1 \in Nat /\ k + 1 \in 1 .. n /\ (k + 1) - 1 = k /\ f[k] \in Nat
      BY <1>1
    <3>2. F[1 .. k + 1] = F[1 .. k] + s[k + 1]
      <4>1. 1 .. k + 1 \in SUBSET (1 .. n)
        BY <1>1, <3>1
      <4>2. 1 .. k + 1 # {} /\ Max(1 .. k + 1) = k + 1 /\ (1 .. k + 1) \ {k + 1} = 1 .. k
        BY <3>1, MaxOfFront
      <4> DEFINE T == 1 .. k + 1
      <4> HIDE DEF T
      <4>3. T \in SUBSET (1 .. n) /\ T # {} /\ Max(T) = k + 1 /\ T \ {k + 1} = 1 .. k
        BY <4>1, <4>2 DEF T
      <4>4. F[T] = F[1 .. k] + s[k + 1]
        BY <1>9, <4>3
      <4> QED
        BY <4>4 DEF T
    <3>3. f[k + 1] = step[k + 1][f[k]]
      BY <3>1, <1>4 DEF Iterates
    <3>4. step[k + 1][f[k]] = f[k] + s[k + 1]
      BY <3>1, <1>3
    <3> QED
      BY <2>2, <3>1, <3>2, <3>3, <3>4
  <2> HIDE DEF S, n
  <2>3. \A i \in 0 .. n : i \in S
    BY <2>1, <2>2, <1>1, UpTo
  <2> QED
    BY <2>3 DEF S
<1>11. Total(s) = f[n]
  BY <1>1, <1>8, <1>10
<1>12. ASSUME NEW i \in 1 .. n PROVE f[i] = f[i - 1] + s[i]
  <2>1. f[i - 1] \in Nat
    <3>1. i - 1 \in 0 .. n
      BY <1>1
    <3> HIDE DEF n
    <3> QED
      BY <3>1
  <2>2. f[i] = step[i][f[i - 1]]
    BY <1>4 DEF Iterates
  <2> HIDE DEF step
  <2> QED
    BY <2>1, <2>2, <1>3
<1>13. f[0] = 0
  BY <1>4 DEF Iterates
<1> QED
  BY <1>11, <1>12, <1>13

\* The sum of two sequences of numbers.
LEMMA TotalConcat ==
  ASSUME NEW s \in Seq(Nat), NEW t \in Seq(Nat)
  PROVE  Total(s) \in Nat /\ Total(t) \in Nat /\ Total(s \o t) = Total(s) + Total(t)
<1> DEFINE u == s \o t
           a == Len(s)
           c == Len(t)
<1>1. a \in Nat /\ c \in Nat
  BY LenProperties
<1>2. /\ u \in Seq(Nat) /\ Len(u) = a + c
      /\ \A i \in 1 .. a + c : u[i] = IF i <= a THEN s[i] ELSE t[i - a]
  BY ConcatProperties
<1>3. PICK f \in [0 .. a -> Nat] :
        f[0] = 0 /\ (\A i \in 1 .. a : f[i] = f[i - 1] + s[i]) /\ Total(s) = f[a]
  BY TotalSums
<1>4. PICK g \in [0 .. c -> Nat] :
        g[0] = 0 /\ (\A i \in 1 .. c : g[i] = g[i - 1] + t[i]) /\ Total(t) = g[c]
  BY TotalSums
<1> HIDE DEF u
<1>5. PICK h \in [0 .. Len(u) -> Nat] :
        h[0] = 0 /\ (\A i \in 1 .. Len(u) : h[i] = h[i - 1] + u[i]) /\ Total(u) = h[Len(u)]
  BY <1>2, TotalSums
<1> HIDE DEF a, c
<1>6. \A k \in 0 .. a : h[k] = f[k]
  <2> DEFINE S == {k \in Nat : h[k] = f[k]}
  <2>1. 0 \in S
    BY <1>3, <1>5
  <2>2. ASSUME NEW k \in 0 .. a - 1, k \in S PROVE k + 1 \in S
    <3>1. k + 1 \in Nat /\ k + 1 \in 1 .. a /\ k + 1 \in 1 .. a + c /\ (k + 1) - 1 = k /\ k + 1 <= a
      BY <1>1
    <3>2. h[k + 1] = h[k] + u[k + 1]
      BY <3>1, <1>5, <1>2
    <3>3. f[k + 1] = f[k] + s[k + 1] /\ u[k + 1] = s[k + 1]
      BY <3>1, <1>3, <1>2
    <3> QED
      BY <2>2, <3>1, <3>2, <3>3
  <2> HIDE DEF S
  <2>3. \A i \in 0 .. a : i \in S
    BY <2>1, <2>2, <1>1, UpTo
  <2> QED
    BY <2>3 DEF S
<1>7. \A k \in 0 .. c : h[a + k] = f[a] + g[k]
  <2> DEFINE S == {k \in Nat : h[a + k] = f[a] + g[k]}
  <2>1. 0 \in S
    <3>1. a \in 0 .. a /\ a + 0 = a /\ f[a] \in Nat
      BY <1>1
    <3>2. h[a] = f[a]
      BY <3>1, <1>6
    <3>3. f[a] + g[0] = f[a]
      BY <3>1, <1>4
    <3> QED
      BY <3>1, <3>2, <3>3
  <2>2. ASSUME NEW k \in 0 .. c - 1, k \in S PROVE k + 1 \in S
    <3>1. /\ k + 1 \in Nat /\ k + 1 \in 1 .. c /\ (k + 1) - 1 = k
          /\ a + (k + 1) \in 1 .. a + c /\ (a + (k + 1)) - 1 = a + k
          /\ (a + (k + 1)) - a = k + 1 /\ ~ (a + (k + 1) <= a)
          /\ k \in 0 .. c /\ a \in 0 .. a
      BY <1>1
    <3>2. h[a + (k + 1)] = h[a + k] + u[a + (k + 1)]
      BY <3>1, <1>5, <1>2
    <3>3. u[a + (k + 1)] = t[k + 1] /\ g[k + 1] = g[k] + t[k + 1]
      BY <3>1, <1>4, <1>2
    <3>4. t[k + 1] \in Nat /\ g[k] \in Nat /\ f[a] \in Nat
      BY <3>1, ElementOfSeq DEF c
    <3>5. h[a + k] = f[a] + g[k]
      BY <2>2
    <3>6. h[a + (k + 1)] = f[a] + g[k + 1]
      BY <3>2, <3>3, <3>4, <3>5
    <3> QED
      BY <3>1, <3>6
  <2> HIDE DEF S
  <2>3. \A i \in 0 .. c : i \in S
    BY <2>1, <2>2, <1>1, UpTo
  <2> QED
    BY <2>3 DEF S
<1>8. h[a + c] = f[a] + g[c]
  <2>1. c \in 0 .. c
    BY <1>1
  <2> QED
    BY <2>1, <1>7
<1>9. f[a] \in Nat /\ g[c] \in Nat
  BY <1>1
<1>10. Total(s \o t) = h[a + c]
  BY <1>2, <1>5 DEF u
<1> QED
  BY <1>3, <1>4, <1>8, <1>9, <1>10

-----------------------------------------------------------------------------
(* Checksums.                                                              *)

\* The 16 bit words of a buffer; the last byte of an odd one is left over.
Words(s) == [k \in 1 .. Len(s) \div 2 |-> Get16(s, 2 * k - 2)]

\* Where the words of a buffer of n bytes are.
LEMMA Halves ==
  ASSUME NEW n \in Nat
  PROVE  /\ n \div 2 \in Nat /\ n % 2 \in 0 .. 1 /\ n = 2 * (n \div 2) + (n % 2)
         /\ \A k \in 1 .. n \div 2 : 2 * k - 2 \in Nat /\ (2 * k - 2) + 2 <= n
OBVIOUS

\* Every word is a 16 bit number, and the sum of the words a number.
LEMMA WordsType ==
  ASSUME NEW s \in Seq(Byte)
  PROVE  /\ Words(s) \in Seq(Nat) /\ Len(Words(s)) = Len(s) \div 2
         /\ \A k \in 1 .. Len(s) \div 2 : Words(s)[k] = Get16(s, 2 * k - 2) /\ Words(s)[k] <= 65535
         /\ WordSum(s) = Total(Words(s)) /\ WordSum(s) \in Nat
<1> DEFINE n == Len(s)
           h == n \div 2
           W == Words(s)
<1>1. n \in Nat
  BY LenProperties
<1>2. h \in Nat /\ \A k \in 1 .. h : 2 * k - 2 \in Nat /\ (2 * k - 2) + 2 <= n
  <2> HIDE DEF n
  <2> QED
    BY <1>1, Halves
<1> HIDE DEF h, n
<1>3. \A k \in 1 .. h : Get16(s, 2 * k - 2) \in Nat /\ Get16(s, 2 * k - 2) <= 65535
  BY <1>2, WordRange DEF n
<1>4. W = [k \in 1 .. h |-> Get16(s, 2 * k - 2)]
  BY DEF Words, h, n
<1> HIDE DEF W
<1>5. W \in Seq(Nat) /\ Len(W) = h /\ \A k \in 1 .. h : W[k] = Get16(s, 2 * k - 2)
  BY <1>2, <1>3, <1>4
<1>6. WordSum(s) = Total(W)
  BY DEF WordSum, Words, W
<1>7. Total(W) \in Nat
  BY <1>5, TotalConcat
<1> QED
  BY <1>3, <1>5, <1>6, <1>7 DEF h, n, W

\* Words are read across a seam that lies between two words.
LEMMA WordsConcat ==
  ASSUME NEW e \in Seq(Byte), NEW t \in Seq(Byte), Len(e) % 2 = 0
  PROVE  /\ e \o t \in Seq(Byte) /\ Len(e \o t) = Len(e) + Len(t)
         /\ WordSum(e \o t) = WordSum(e) + WordSum(t)
<1> DEFINE u == e \o t
           a == Len(e)
           c == Len(t)
           ha == a \div 2
           hc == c \div 2
<1>1. a \in Nat /\ c \in Nat
  BY LenProperties
<1>2. u \in Seq(Byte) /\ Len(u) = a + c
      /\ \A i \in 1 .. a + c : u[i] = IF i <= a THEN e[i] ELSE t[i - a]
  BY ConcatProperties
<1>3. ha \in Nat /\ hc \in Nat /\ a = 2 * ha /\ c <= 2 * hc + 1 /\ 2 * hc <= c /\ (a + c) \div 2 = ha + hc
  <2>1. a % 2 = 0
    OBVIOUS
  <2> HIDE DEF a, c
  <2> QED
    BY <1>1, <2>1
<1>4. /\ Words(e) \in Seq(Nat) /\ Len(Words(e)) = ha
      /\ \A k \in 1 .. ha : Words(e)[k] = Get16(e, 2 * k - 2)
      /\ WordSum(e) = Total(Words(e))
  BY WordsType
<1>5. /\ Words(t) \in Seq(Nat) /\ Len(Words(t)) = hc
      /\ \A k \in 1 .. hc : Words(t)[k] = Get16(t, 2 * k - 2)
      /\ WordSum(t) = Total(Words(t))
  BY WordsType
<1>6. /\ Words(u) \in Seq(Nat) /\ Len(Words(u)) = ha + hc
      /\ \A k \in 1 .. ha + hc : Words(u)[k] = Get16(u, 2 * k - 2)
      /\ WordSum(u) = Total(Words(u))
  <2> HIDE DEF u
  <2>1. Len(u) \div 2 = ha + hc
    BY <1>2, <1>3
  <2>2. u \in Seq(Byte)
    BY <1>2
  <2>3. /\ Words(u) \in Seq(Nat) /\ Len(Words(u)) = Len(u) \div 2
        /\ \A k \in 1 .. Len(u) \div 2 : Words(u)[k] = Get16(u, 2 * k - 2)
        /\ WordSum(u) = Total(Words(u))
    BY <2>2, WordsType
  <2> HIDE DEF ha, hc
  <2> QED
    BY <2>1, <2>3
<1> HIDE DEF u, a, c, ha, hc
<1>7. ASSUME NEW k \in 1 .. ha PROVE Words(u)[k] = Words(e)[k]
  <2>1. (2 * k - 2) + 1 \in 1 .. a + c /\ (2 * k - 2) + 2 \in 1 .. a + c /\ (2 * k - 2) + 2 <= a
    BY <1>1, <1>3
  <2>2. u[(2 * k - 2) + 1] = e[(2 * k - 2) + 1] /\ u[(2 * k - 2) + 2] = e[(2 * k - 2) + 2]
    BY <1>1, <1>2, <2>1
  <2>3. k \in 1 .. ha + hc
    BY <1>3
  <2> QED
    BY <1>4, <1>6, <2>2, <2>3 DEF Get16
<1>8. ASSUME NEW k \in 1 .. hc PROVE Words(u)[ha + k] = Words(t)[k]
  <2> DEFINE x == 2 * k - 2
             y == 2 * (ha + k) - 2
  <2>1. /\ y + 1 \in 1 .. a + c /\ y + 2 \in 1 .. a + c /\ ~ (y + 1 <= a) /\ ~ (y + 2 <= a)
        /\ (y + 1) - a = x + 1 /\ (y + 2) - a = x + 2
    BY <1>1, <1>3
  <2>2. ha + k \in 1 .. ha + hc
    BY <1>3
  <2> HIDE DEF x, y
  <2>3. u[y + 1] = t[x + 1] /\ u[y + 2] = t[x + 2]
    BY <1>2, <2>1
  <2>4. Get16(u, y) = Get16(t, x)
    BY <2>3 DEF Get16
  <2>5. Words(u)[ha + k] = Get16(u, y) /\ Words(t)[k] = Get16(t, x)
    BY <1>5, <1>6, <2>2 DEF x, y
  <2> QED
    BY <2>4, <2>5
<1> DEFINE We == Words(e)
           Wt == Words(t)
           Wu == Words(u)
           Z == We \o Wt
<1> HIDE DEF We, Wt, Wu
<1>9. Z \in Seq(Nat) /\ Len(Z) = ha + hc /\ \A i \in 1 .. ha + hc : Z[i] = IF i <= ha THEN We[i] ELSE Wt[i - ha]
  BY <1>4, <1>5, ConcatProperties DEF We, Wt
<1>10. ASSUME NEW i \in 1 .. ha + hc PROVE Wu[i] = Z[i]
  <2> HIDE DEF Z
  <2>1. CASE i <= ha
    <3>1. i \in 1 .. ha
      BY <2>1, <1>3
    <3> QED
      BY <2>1, <3>1, <1>7, <1>9 DEF We, Wu
  <2>2. CASE ~ (i <= ha)
    <3>1. i - ha \in 1 .. hc /\ ha + (i - ha) = i
      BY <2>2, <1>3
    <3>2. Words(u)[ha + (i - ha)] = Words(t)[i - ha]
      BY <3>1, <1>8
    <3> QED
      BY <2>2, <3>1, <3>2, <1>9 DEF Wt, Wu
  <2> QED
    BY <2>1, <2>2
<1>11. Wu = Z
  <2> HIDE DEF Z
  <2>1. Wu \in Seq(Nat) /\ Len(Wu) = ha + hc
    BY <1>6 DEF Wu
  <2> QED
    BY <2>1, <1>9, <1>10, SeqEqual
<1>12. Total(Z) = Total(We) + Total(Wt)
  BY <1>4, <1>5, TotalConcat DEF We, Wt
<1> QED
  BY <1>2, <1>4, <1>5, <1>6, <1>11, <1>12 DEF We, Wt, Wu, u, a, c

\* What is summed of a buffer, and the byte that is left over.
Leftover(s) == IF Len(s) % 2 = 1 THEN <<Last(s)>> ELSE << >>

\* A buffer is its words and the byte that is left over.
LEMMA SplitOdd ==
  ASSUME NEW s \in Seq(Byte)
  PROVE  \E e \in Seq(Byte) :
           /\ Len(e) % 2 = 0 /\ Leftover(s) \in Seq(Byte) /\ Len(Leftover(s)) = Len(s) % 2
           /\ s = e \o Leftover(s)
<1> DEFINE n == Len(s)
<1>1. n \in Nat /\ n % 2 \in 0 .. 1
  BY LenProperties
<1>2. CASE n % 2 = 0
  <2>1. Leftover(s) = << >> /\ s \o << >> = s
    BY <1>2, ConcatEmptySeq DEF Leftover
  <2> QED
    BY <1>2, <2>1, EmptySeq
<1>3. CASE n % 2 = 1
  <2>1. n # 0
    BY <1>1, <1>3
  <2>2. s # << >>
    BY <2>1
  <2>3. PICK e \in Seq(Byte), x \in Byte : s = Append(e, x)
    BY <2>2, SequenceEmptyOrAppend
  <2>4. n = Len(e) + 1 /\ s[n] = x /\ s = e \o <<x>> /\ Len(e) \in Nat
    <3>1. /\ Len(Append(e, x)) = Len(e) + 1 /\ Append(e, x)[Len(e) + 1] = x
          /\ Append(e, x) = e \o <<x>> /\ Len(e) \in Nat
      BY AppendProperties, AppendIsConcat, LenProperties
    <3> QED
      BY <2>3, <3>1
  <2>5. Leftover(s) = <<x>>
    BY <1>3, <2>4 DEF Leftover, Last
  <2>6. Len(e) % 2 = 0
    BY <1>3, <2>4
  <2>7. <<x>> \in Seq(Byte) /\ Len(<<x>>) = 1
    OBVIOUS
  <2> QED
    BY <1>3, <2>4, <2>5, <2>6, <2>7
<1> QED
  BY <1>1, <1>2, <1>3

\* Summing a chunk from a fresh state.
LEMMA FreshUpdate ==
  ASSUME NEW s \in Seq(Byte)
  PROVE  McUpdate(McInit, s) = [odd |-> Leftover(s), old |-> WordSum(s)]
<1>1. << >> \o s = s
  BY ConcatEmptySeq
<1>2. WordSum(s) \in Nat
  BY WordsType
<1> QED
  BY <1>1, <1>2 DEF McUpdate, McInit, Leftover

\* A buffer shorter than a word sums to nothing.
LEMMA NoWords ==
  ASSUME NEW s \in Seq(Byte), Len(s) \in 0 .. 1
  PROVE  WordSum(s) = 0
<1>1. Len(s) \div 2 = 0
  <2> DEFINE m == Len(s)
  <2>1. m \in 0 .. 1
    OBVIOUS
  <2> HIDE DEF m
  <2>2. m \div 2 = 0
    BY <2>1
  <2> QED
    BY <2>2 DEF m
<1>2. Words(s) \in Seq(Nat) /\ Len(Words(s)) = 0 /\ WordSum(s) = Total(Words(s))
  BY <1>1, WordsType
<1> DEFINE W == Words(s)
<1> HIDE DEF W
<1>3. PICK f \in [0 .. Len(W) -> Nat] : f[0] = 0 /\ Total(W) = f[Len(W)]
  BY <1>2, TotalSums DEF W
<1> QED
  BY <1>2, <1>3 DEF W

\* The last byte of a buffer that another one is in front of.
LEMMA LastOfConcat ==
  ASSUME NEW T, NEW s \in Seq(T), NEW t \in Seq(T), t # << >>
  PROVE  Last(s \o t) = Last(t)
<1> DEFINE u == s \o t
<1>1. /\ Len(s) \in Nat /\ Len(t) \in Nat /\ Len(t) # 0 /\ Len(u) = Len(s) + Len(t)
      /\ \A i \in 1 .. Len(s) + Len(t) : u[i] = IF i <= Len(s) THEN s[i] ELSE t[i - Len(s)]
  BY ConcatProperties, LenProperties, EmptySeq
<1> HIDE DEF u
<1> DEFINE a == Len(s)
           c == Len(t)
<1> HIDE DEF a, c
<1>2. a + c \in 1 .. a + c /\ ~ (a + c <= a) /\ (a + c) - a = c
  BY <1>1 DEF a, c
<1>3. u[a + c] = t[c]
  BY <1>1, <1>2 DEF a, c
<1> QED
  BY <1>1, <1>3 DEF Last, u, a, c

\* The byte that an odd chunk lends to the next one makes up for the seam
\* (ars_multi_cksum(), ars.c:492-517).
LEMMA UpdateConcat ==
  ASSUME NEW f \in Seq(Byte), NEW c \in Seq(Byte)
  PROVE  McUpdate(McUpdate(McInit, f), c) = McUpdate(McInit, f \o c)
<1> DEFINE o == Leftover(f)
<1>1. PICK e \in Seq(Byte) : Len(e) % 2 = 0 /\ o \in Seq(Byte) /\ Len(o) = Len(f) % 2 /\ f = e \o o
  BY SplitOdd
<1> DEFINE s == o \o c
<1> HIDE DEF o
<1>2. s \in Seq(Byte) /\ Len(s) = Len(o) + Len(c)
  BY <1>1, ConcatProperties
<1>3. f \o c = e \o s
  <2>1. Associates(e, o, c)
    BY <1>1, ConcatAssociates
  <2> QED
    BY <1>1, <2>1 DEF Associates, s
<1> HIDE DEF s
<1>4. /\ e \o s \in Seq(Byte) /\ Len(e \o s) = Len(e) + Len(s) /\ WordSum(e \o s) = WordSum(e) + WordSum(s)
  BY <1>1, <1>2, WordsConcat
<1>5. WordSum(f) = WordSum(e)
  <2>1. WordSum(f) = WordSum(e) + WordSum(o)
    BY <1>1, WordsConcat
  <2>2. Len(o) \in 0 .. 1
    BY <1>1, LenProperties
  <2>3. WordSum(o) = 0
    BY <1>1, <2>2, NoWords
  <2>4. WordSum(e) \in Nat
    BY WordsType
  <2> QED
    BY <2>1, <2>3, <2>4
<1>6. Leftover(e \o s) = Leftover(s)
  <2>1. Len(e) \in Nat /\ Len(s) \in Nat
    BY <1>1, <1>2, LenProperties
  <2>2. (Len(e) + Len(s)) % 2 = Len(s) % 2
    <3> DEFINE x == Len(e)
               y == Len(s)
    <3>1. x \in Nat /\ y \in Nat /\ x % 2 = 0
      BY <1>1, <2>1
    <3> HIDE DEF x, y
    <3>2. (x + y) % 2 = y % 2
      BY <3>1
    <3> QED
      BY <3>2 DEF x, y
  <2>3. CASE Len(s) % 2 = 1
    <3>1. s # << >>
      BY <2>3
    <3>2. Last(e \o s) = Last(s)
      BY <3>1, <1>1, <1>2, LastOfConcat
    <3> QED
      BY <3>2, <2>2, <1>4 DEF Leftover
  <2>4. CASE Len(s) % 2 # 1
    BY <2>4, <2>2, <1>4 DEF Leftover
  <2> QED
    BY <2>3, <2>4
<1>7. McUpdate(McInit, f) = [odd |-> o, old |-> WordSum(f)]
  BY FreshUpdate DEF o
<1>8. McUpdate([odd |-> o, old |-> WordSum(f)], c) = [odd |-> Leftover(s), old |-> WordSum(f) + WordSum(s)]
  BY DEF McUpdate, Leftover, s
<1>9. McUpdate(McInit, e \o s) = [odd |-> Leftover(e \o s), old |-> WordSum(e \o s)]
  BY <1>4, FreshUpdate
<1> QED
  BY <1>3, <1>4, <1>5, <1>6, <1>7, <1>8, <1>9

\* The state of ars_multi_cksum().
CksumState == [odd : Seq(Byte), old : Nat]

\* ... which an update keeps.
LEMMA UpdateType ==
  ASSUME NEW c \in CksumState, NEW chunk \in Seq(Byte)
  PROVE  McUpdate(c, chunk) \in CksumState
<1> DEFINE s == c.odd \o chunk
<1>1. c.odd \in Seq(Byte) /\ c.old \in Nat
  BY DEF CksumState
<1>2. s \in Seq(Byte)
  BY <1>1, ConcatProperties
<1> HIDE DEF s
<1>3. WordSum(s) \in Nat
  BY <1>2, WordsType
<1>4. Leftover(s) \in Seq(Byte)
  BY <1>2, SplitOdd
<1>5. McUpdate(c, chunk) = [odd |-> Leftover(s), old |-> c.old + WordSum(s)]
  BY DEF McUpdate, Leftover, s
<1> QED
  BY <1>1, <1>3, <1>4, <1>5 DEF CksumState

\* ars_multi_cksum() goes through the chunks one after the other.
LEMMA ChunksFold ==
  ASSUME NEW chunks \in Seq(Seq(Byte))
  PROVE  \E F : /\ FoldLeft(McUpdate, McInit, chunks) = F[DOMAIN chunks]
                /\ F[{}] = McInit
                /\ \A k \in 0 .. Len(chunks) - 1 : F[1 .. k + 1] = McUpdate(F[1 .. k], chunks[k + 1])
<1> DEFINE n == Len(chunks)
           V == CksumState
           step == [i \in 1 .. n |-> [v \in V |-> McUpdate(v, chunks[i])]]
           Eqn(h) == h = [t \in SUBSET (DOMAIN chunks) |->
                            IF t = {} THEN McInit ELSE McUpdate(h[t \ {Max(t)}], chunks[Max(t)])]
           F == CHOOSE h : Eqn(h)
           init == McInit
<1>1. n \in Nat /\ DOMAIN chunks = 1 .. n /\ \A i \in 1 .. n : chunks[i] \in Seq(Byte)
  BY LenProperties, ElementOfSeq
<1>2. step \in [1 .. n -> [V -> V]]
  <2>1. \A i \in 1 .. n : [v \in V |-> McUpdate(v, chunks[i])] \in [V -> V]
    BY <1>1, UpdateType
  <2> QED
    BY <2>1
<1>3. \A i \in 1 .. n : \A v \in V : step[i][v] = McUpdate(v, chunks[i])
  OBVIOUS
<1>4. init \in V
  BY EmptySeq DEF McInit, CksumState
<1>5. PICK h \in [SUBSET (1 .. n) -> V] : FoldsFrom(h, init, n, step)
  <2> HIDE DEF n, step, init, V
  <2> QED
    BY <1>1, <1>2, <1>4, FoldOverMax
<1>6. Eqn(h)
  <2>1. ASSUME NEW t \in SUBSET (1 .. n)
        PROVE  h[t] = IF t = {} THEN McInit ELSE McUpdate(h[t \ {Max(t)}], chunks[Max(t)])
    <3>1. CASE t = {}
      <4> HIDE DEF n, step
      <4> QED
        BY <3>1, <1>5 DEF FoldsFrom
    <3>2. CASE t # {}
      <4>1. Max(t) \in t
        <5> HIDE DEF n
        <5>1. t \in SUBSET (0 .. n)
          BY <1>1
        <5> QED
          BY <1>1, <3>2, <5>1, MaxIn
      <4> DEFINE r == t \ {Max(t)}
      <4>2. h[t] = step[Max(t)][h[r]]
        <5> HIDE DEF n, step
        <5> QED
          BY <3>2, <1>5 DEF FoldsFrom
      <4>3. h[r] \in V /\ Max(t) \in 1 .. n
        BY <4>1
      <4> HIDE DEF step, n, r, V
      <4>4. step[Max(t)][h[r]] = McUpdate(h[r], chunks[Max(t)])
        BY <1>3, <4>3
      <4> QED
        BY <3>2, <4>2, <4>4 DEF r
    <3> QED
      BY <3>1, <3>2
  <2>2. h = [t \in SUBSET (1 .. n) |-> h[t]]
    BY <1>5
  <2> HIDE DEF n, step
  <2> QED
    BY <1>1, <2>1, <2>2
<1>7. Eqn(F)
  <2> HIDE DEF Eqn
  <2> QED
    BY <1>6
<1>8. FoldLeft(McUpdate, McInit, chunks) = F[DOMAIN chunks]
  BY DEF FoldLeft, MapThenFoldSet
<1>9. \A t \in SUBSET (1 .. n) : F[t] = IF t = {} THEN McInit ELSE McUpdate(F[t \ {Max(t)}], chunks[Max(t)])
  <2> HIDE DEF F, n
  <2> QED
    BY <1>7, <1>1
<1> HIDE DEF F
<1>10. F[{}] = McInit
  BY <1>9
<1>11. ASSUME NEW k \in 0 .. n - 1
       PROVE  F[1 .. k + 1] = McUpdate(F[1 .. k], chunks[k + 1])
  <2> DEFINE T == 1 .. k + 1
  <2>1. T \in SUBSET (1 .. n) /\ k \in Nat
    BY <1>1
  <2>2. T # {} /\ Max(T) = k + 1 /\ T \ {k + 1} = 1 .. k
    BY <2>1, MaxOfFront
  <2> HIDE DEF T, n
  <2>3. F[T] = McUpdate(F[T \ {Max(T)}], chunks[Max(T)])
    BY <1>9, <2>1, <2>2
  <2> QED
    BY <2>2, <2>3 DEF T
<1> QED
  BY <1>8, <1>10, <1>11

\* However a packet is cut into layers, its checksum is the one of its bytes:
\* the byte that is left over of an odd layer is neither lost nor summed in
\* the wrong half of a word (ars_multi_cksum(), ars.c:480-534).
THEOREM ChunksDoNotMatter ==
  \A chunks \in Seq(Seq(Byte)) : ars_multi_cksum(chunks) = ars_cksum(FlattenSeq(chunks))
<1>1. SUFFICES ASSUME NEW chunks \in Seq(Seq(Byte))
               PROVE  FoldLeft(McUpdate, McInit, chunks) = McUpdate(McInit, FlattenSeq(chunks))
  BY DEF ars_multi_cksum, ars_cksum
<1> DEFINE n == Len(chunks)
<1>2. n \in Nat /\ DOMAIN chunks = 1 .. n /\ \A i \in 1 .. n : chunks[i] \in Seq(Byte)
  BY LenProperties, ElementOfSeq
<1>3. PICK F : /\ FoldLeft(McUpdate, McInit, chunks) = F[1 .. n]
               /\ F[{}] = McInit
               /\ \A k \in 0 .. n - 1 : F[1 .. k + 1] = McUpdate(F[1 .. k], chunks[k + 1])
  BY <1>2, ChunksFold
<1>4. McUpdate(McInit, << >>) = McInit
  <2> DEFINE s == << >>
  <2>1. s \in Seq(Byte) /\ Len(s) = 0
    BY EmptySeq
  <2> HIDE DEF s
  <2>2. WordSum(s) = 0
    <3>1. Len(s) \in 0 .. 1
      BY <2>1
    <3> QED
      BY <2>1, <3>1, NoWords
  <2>3. Leftover(s) = << >>
    BY <2>1 DEF Leftover
  <2>4. McUpdate(McInit, s) = [odd |-> << >>, old |-> 0]
    BY <2>1, <2>2, <2>3, FreshUpdate
  <2> QED
    BY <2>4 DEF s, McInit
<1>5. CASE chunks = << >>
  <2>1. n = 0
    BY <1>5
  <2>2. 1 .. n = {}
    BY <2>1
  <2>3. FlattenSeq(chunks) = << >>
    BY <1>5, FlattenEmpty
  <2> QED
    BY <2>2, <2>3, <1>3, <1>4
<1>6. CASE chunks # << >>
  <2>1. PICK f \in [0 .. n -> Seq(Byte)] :
          /\ f[0] = << >>
          /\ \A i \in 1 .. n : f[i] = f[i - 1] \o chunks[i]
          /\ FlattenSeq(chunks) = f[n]
    BY <1>6, FlattenFunction
  <2> DEFINE S == {k \in Nat : F[1 .. k] = McUpdate(McInit, f[k])}
  <2>2. 0 \in S
    <3>1. 1 .. 0 = {}
      OBVIOUS
    <3> QED
      BY <3>1, <1>3, <1>4, <2>1
  <2>3. ASSUME NEW k \in 0 .. n - 1, k \in S PROVE k + 1 \in S
    <3>1. k \in 0 .. n /\ k + 1 \in Nat /\ k + 1 \in 1 .. n /\ (k + 1) - 1 = k
      BY <1>2
    <3>2. f[k] \in Seq(Byte) /\ chunks[k + 1] \in Seq(Byte)
      BY <3>1, <1>2, <2>1
    <3>3. f[k + 1] = f[k] \o chunks[k + 1]
      BY <3>1, <2>1
    <3>4. F[1 .. k + 1] = McUpdate(McUpdate(McInit, f[k]), chunks[k + 1])
      BY <1>3, <2>3
    <3>5. F[1 .. k + 1] = McUpdate(McInit, f[k + 1])
      BY <3>2, <3>3, <3>4, UpdateConcat
    <3> QED
      BY <3>1, <3>5
  <2> HIDE DEF S, n
  <2>4. \A i \in 0 .. n : i \in S
    BY <2>2, <2>3, <1>2, UpTo
  <2>5. n \in S
    BY <2>4, <1>2
  <2> QED
    BY <2>5, <2>1, <1>3 DEF S
<1> QED
  BY <1>5, <1>6

-----------------------------------------------------------------------------
(* The sum, its bound and its remainder.                                   *)

\* One number of a sequence is replaced.
LEMMA TotalChange ==
  ASSUME NEW s \in Seq(Nat), NEW t \in Seq(Nat), Len(s) = Len(t), NEW h \in 1 .. Len(s),
         \A i \in 1 .. Len(s) : i # h => t[i] = s[i]
  PROVE  Total(t) + s[h] = Total(s) + t[h]
<1> DEFINE n == Len(s)
<1>1. n \in Nat /\ h \in 1 .. n /\ s[h] \in Nat /\ t[h] \in Nat /\ \A i \in 1 .. n : s[i] \in Nat
  BY LenProperties, ElementOfSeq
<1>2. PICK f \in [0 .. n -> Nat] :
        f[0] = 0 /\ (\A i \in 1 .. n : f[i] = f[i - 1] + s[i]) /\ Total(s) = f[n]
  BY TotalSums
<1>3. PICK g \in [0 .. Len(t) -> Nat] :
        g[0] = 0 /\ (\A i \in 1 .. Len(t) : g[i] = g[i - 1] + t[i]) /\ Total(t) = g[Len(t)]
  BY TotalSums
<1> DEFINE S == {k \in Nat : k <= n => IF k < h THEN g[k] = f[k] ELSE g[k] + s[h] = f[k] + t[h]}
<1>4. 0 \in S
  BY <1>1, <1>2, <1>3
<1>5. ASSUME NEW k \in 0 .. n - 1, k \in S PROVE k + 1 \in S
  <2>1. k \in Nat /\ k + 1 \in Nat /\ k + 1 \in 1 .. n /\ (k + 1) - 1 = k /\ k <= n /\ k \in 0 .. n
    BY <1>1
  <2> HIDE DEF n
  <2>2. f[k + 1] = f[k] + s[k + 1] /\ f[k] \in Nat
    BY <1>2, <2>1
  <2>3. g[k + 1] = g[k] + t[k + 1] /\ g[k] \in Nat
    BY <1>3, <2>1 DEF n
  <2>4. s[k + 1] \in Nat
    BY <1>1, <2>1
  <2>5. IF k < h THEN g[k] = f[k] ELSE g[k] + s[h] = f[k] + t[h]
    BY <1>5, <2>1
  <2>6. CASE k + 1 = h
    <3>1. k < h /\ ~ (k + 1 < h)
      BY <2>6, <1>1, <2>1
    <3>2. g[k] = f[k]
      BY <3>1, <2>5
    <3>3. f[k + 1] = f[k] + s[h] /\ g[k + 1] = f[k] + t[h]
      BY <2>2, <2>3, <2>6, <3>2
    <3>4. s[h] \in Nat /\ t[h] \in Nat /\ f[k] \in Nat
      BY <1>1, <2>2
    <3>5. g[k + 1] + s[h] = f[k + 1] + t[h]
      <4> HIDE DEF S
      <4> QED
        BY <3>3, <3>4
    <3> QED
      BY <2>1, <3>1, <3>5
  <2>7. CASE k + 1 # h
    <3>1. t[k + 1] = s[k + 1]
      BY <2>1, <2>7 DEF n
    <3>2. CASE k + 1 < h
      <4>1. k < h
        BY <3>2, <1>1, <2>1
      <4> QED
        BY <3>1, <3>2, <4>1, <2>1, <2>2, <2>3, <2>4, <2>5
    <3>3. CASE ~ (k + 1 < h)
      <4>1. ~ (k < h)
        BY <2>7, <3>3, <1>1, <2>1
      <4> QED
        <5>1. g[k] + s[h] = f[k] + t[h]
          BY <4>1, <2>5
        <5>2. f[k + 1] = f[k] + s[k + 1] /\ g[k + 1] = g[k] + s[k + 1]
          BY <2>2, <2>3, <3>1
        <5>3. s[h] \in Nat /\ t[h] \in Nat /\ f[k] \in Nat /\ g[k] \in Nat /\ s[k + 1] \in Nat
          BY <1>1, <2>2, <2>3, <2>4
        <5>4. g[k + 1] + s[h] = f[k + 1] + t[h]
          <6> DEFINE a == g[k]
                     v == f[k]
                     x == s[h]
                     y == t[h]
                     z == s[k + 1]
          <6>1. a + x = v + y /\ f[k + 1] = v + z /\ g[k + 1] = a + z
            BY <5>1, <5>2
          <6>2. a \in Nat /\ v \in Nat /\ x \in Nat /\ y \in Nat /\ z \in Nat
            BY <5>3
          <6> HIDE DEF S, a, v, x, y, z
          <6>3. (a + z) + x = (v + z) + y
            BY <6>1, <6>2
          <6> QED
            BY <6>1, <6>3 DEF x, y
        <5> QED
          BY <2>1, <3>3, <5>4
    <3> QED
      BY <3>2, <3>3
  <2> QED
    BY <2>6, <2>7
<1>6. \A i \in 0 .. n : i \in S
  <2> HIDE DEF S, n
  <2> QED
    BY <1>1, <1>4, <1>5, UpTo
<1>7. n \in S
  BY <1>1, <1>6
<1>8. ~ (n < h) /\ n <= n
  BY <1>1
<1> QED
  BY <1>1, <1>2, <1>3, <1>7, <1>8

\* Numbers of 16 bits.
Small(s) == \A i \in 1 .. Len(s) : s[i] <= 65535

\* A sum of 16 bit numbers is bounded by how many there are.
LEMMA TotalBound ==
  ASSUME NEW s \in Seq(Nat), Small(s)
  PROVE  Total(s) <= 65535 * Len(s)
<1> DEFINE n == Len(s)
<1>1. n \in Nat /\ \A i \in 1 .. n : s[i] \in Nat /\ s[i] <= 65535
  BY LenProperties, ElementOfSeq DEF Small
<1>2. PICK f \in [0 .. n -> Nat] :
        f[0] = 0 /\ (\A i \in 1 .. n : f[i] = f[i - 1] + s[i]) /\ Total(s) = f[n]
  BY TotalSums
<1> HIDE DEF n
<1> DEFINE S == {k \in Nat : k <= n => f[k] <= 65535 * k}
<1>3. 0 \in S
  BY <1>1, <1>2
<1>4. ASSUME NEW k \in 0 .. n - 1, k \in S PROVE k + 1 \in S
  <2>1. k \in Nat /\ k + 1 \in Nat /\ k + 1 \in 1 .. n /\ (k + 1) - 1 = k /\ k <= n /\ k \in 0 .. n
    BY <1>1
  <2>2. f[k + 1] = f[k] + s[k + 1] /\ f[k] \in Nat /\ s[k + 1] \in Nat /\ s[k + 1] <= 65535
    BY <1>1, <1>2, <2>1
  <2>3. f[k] <= 65535 * k
    BY <1>4, <2>1
  <2> QED
    BY <2>1, <2>2, <2>3
<1>5. \A i \in 0 .. n : i \in S
  <2>1. n \in Nat
    BY <1>1
  <2>2. \A k \in 0 .. n - 1 : k \in S => k + 1 \in S
    BY <1>4
  <2>3. 0 \in S
    BY <1>3
  <2> HIDE DEF S
  <2> QED
    BY <2>1, <2>2, <2>3, UpTo
<1>6. n \in S /\ n <= n
  BY <1>1, <1>5
<1> QED
  BY <1>2, <1>6 DEF n

\* The sum that is folded into 16 bits.
Sum16(s) == WordSum(s) + IF Len(s) % 2 = 1 THEN 256 * s[Len(s)] ELSE 0

\* What the u_int32_t accumulator can hold (ars.c:484).
SumLimit == 65536 * 65536

\* The fold and the carry of ARS_MC_FINAL (ars.c:527-528).
Folded(sum) == (sum \div 65536) + (sum % 65536)
Carried(sum) == (Folded(sum) + (Folded(sum) \div 65536)) % 65536

\* The checksum of one buffer is the complement of its folded sum.
LEMMA CksumOfSum ==
  ASSUME NEW s \in Seq(Byte)
  PROVE  ars_cksum(s) = 65535 - Carried(Sum16(s))
<1> DEFINE c == [odd |-> Leftover(s), old |-> WordSum(s)]
<1>1. ars_cksum(s) = McFinal(c)
  BY FreshUpdate DEF ars_cksum
<1>2. c.old + (IF c.odd = << >> THEN 0 ELSE 256 * c.odd[1]) = Sum16(s)
  BY DEF Leftover, Sum16, Last
<1> QED
  BY <1>1, <1>2 DEF McFinal, Carried, Folded

\* The accumulator does not overflow on any datagram, the 40 bytes of a
\* pseudo header included, so the model may sum without a bound.
LEMMA Sum16Bound ==
  ASSUME NEW s \in Seq(Byte), Len(s) <= 65575
  PROVE  Sum16(s) \in Nat /\ Sum16(s) < SumLimit
<1> DEFINE n == Len(s)
           h == n \div 2
<1>1. n \in Nat /\ n <= 65575
  BY LenProperties
<1>2. h \in Nat /\ h <= 32787
  <2> HIDE DEF n
  <2> QED
    BY <1>1
<1>3. Words(s) \in Seq(Nat) /\ Len(Words(s)) = h /\ (\A k \in 1 .. h : Words(s)[k] <= 65535) /\ WordSum(s) = Total(Words(s))
      /\ WordSum(s) \in Nat
  BY WordsType
<1>4. WordSum(s) <= 65535 * h
  <2> DEFINE W == Words(s)
  <2> HIDE DEF W, h
  <2>1. W \in Seq(Nat) /\ Small(W)
    BY <1>3 DEF W, Small
  <2>2. Total(W) <= 65535 * Len(W)
    BY <2>1, TotalBound
  <2> QED
    BY <1>3, <2>2 DEF W
<1>5. n % 2 = 1 => s[n] \in Nat /\ s[n] <= 255
  <2>1. CASE n % 2 = 1
    <3>1. n \in 1 .. n
      BY <2>1, <1>1
    <3>2. s[n] \in Byte
      BY <3>1, ElementOfSeq
    <3> QED
      BY <3>2, ByteRange
  <2> QED
    BY <2>1
<1> DEFINE r == IF n % 2 = 1 THEN 256 * s[n] ELSE 0
<1>6. r \in Nat /\ r <= 65280
  BY <1>5
<1>7. Sum16(s) = WordSum(s) + r
  BY DEF Sum16
<1> HIDE DEF n, h, r
<1> QED
  BY <1>2, <1>3, <1>4, <1>6, <1>7 DEF SumLimit

\* Folding keeps the remainder of the division by 65535.
LEMMA FoldKeepsResidue ==
  ASSUME NEW sum \in Nat, sum < SumLimit
  PROVE  Carried(sum) \in Nat /\ Carried(sum) <= 65535 /\ \E q \in Nat : sum = 65535 * q + Carried(sum)
<1> DEFINE H == sum \div 65536
           L == sum % 65536
           f == H + L
<1>1. H \in Nat /\ H <= 65535 /\ L \in Nat /\ L <= 65535 /\ sum = 65536 * H + L
  BY DEF SumLimit
<1> HIDE DEF H, L
<1>2. Carried(sum) = (f + (f \div 65536)) % 65536
  BY DEF Carried, Folded, H, L
<1>3. CASE f <= 65535
  <2>1. f \in Nat
    BY <1>1
  <2>2. sum = 65535 * H + f
    BY <1>1
  <2> HIDE DEF f
  <2>3. f \div 65536 = 0
    BY <1>3, <2>1
  <2>4. (f + 0) % 65536 = f
    BY <1>3, <2>1
  <2> QED
    BY <1>1, <1>2, <1>3, <2>1, <2>2, <2>3, <2>4
<1>4. CASE f > 65535
  <2> DEFINE g == (f - 65536) + 1
  <2>1. f \in Nat /\ f <= 131070
    BY <1>1
  <2>2. sum = 65535 * (H + 1) + g /\ H + 1 \in Nat
    BY <1>1
  <2>3. g \in Nat /\ g <= 65535
    BY <1>4, <2>1
  <2> HIDE DEF f
  <2>4. f \div 65536 = 1
    BY <1>4, <2>1
  <2>5. (f + 1) % 65536 = g
    BY <1>4, <2>1
  <2> HIDE DEF g
  <2>6. Carried(sum) = g
    BY <1>2, <2>4, <2>5
  <2> QED
    BY <2>2, <2>3, <2>6
<1> QED
  BY <1>1, <1>3, <1>4

\* Sums that differ by less than 65535 fold to different values.
LEMMA FoldTellsApart ==
  ASSUME NEW a \in Nat, NEW y \in Nat, a < SumLimit, y < SumLimit,
         a # y, a - y < 65535, y - a < 65535
  PROVE  Carried(a) # Carried(y)
<1>1. PICK p \in Nat : a = 65535 * p + Carried(a)
  BY FoldKeepsResidue
<1>2. PICK q \in Nat : y = 65535 * q + Carried(y)
  BY FoldKeepsResidue
<1>3. Carried(a) \in Nat /\ Carried(y) \in Nat
  BY FoldKeepsResidue
<1>4. SUFFICES ASSUME Carried(a) = Carried(y) PROVE FALSE
  OBVIOUS
<1>5. a - y = 65535 * (p - q)
  BY <1>1, <1>2, <1>3, <1>4
<1>6. p - q \in Int /\ p - q # 0
  BY <1>5
<1> QED
  BY <1>5, <1>6

-----------------------------------------------------------------------------
(* One byte changes.                                                       *)

\* The words of two buffers that differ in byte k only.
LEMMA WordsApart ==
  ASSUME NEW s \in Seq(Byte), NEW t \in Seq(Byte), Len(t) = Len(s), NEW k \in 1 .. Len(s),
         \A i \in 1 .. Len(s) : i # k => t[i] = s[i],
         NEW m \in 1 .. Len(s) \div 2, k # 2 * m - 1, k # 2 * m
  PROVE  Words(t)[m] = Words(s)[m]
<1> DEFINE n == Len(s)
           h == n \div 2
<1>1. n \in Nat
  BY LenProperties
<1>2. m \in 1 .. h /\ m \in Nat /\ 2 * m - 1 \in 1 .. n /\ 2 * m \in 1 .. n
      /\ (2 * m - 2) + 1 = 2 * m - 1 /\ (2 * m - 2) + 2 = 2 * m
  <2>1. m \in 1 .. h
    OBVIOUS
  <2> HIDE DEF n
  <2> QED
    BY <1>1, <2>1
<1>3. t[2 * m - 1] = s[2 * m - 1] /\ t[2 * m] = s[2 * m]
  BY <1>2
<1>4. Words(t)[m] = Get16(t, 2 * m - 2) /\ Words(s)[m] = Get16(s, 2 * m - 2)
  BY <1>2, WordsType
<1> QED
  BY <1>2, <1>3, <1>4 DEF Get16

\* One byte that changes moves the sum by its own change, or by 256 times it.
LEMMA SumChange ==
  ASSUME NEW s \in Seq(Byte), NEW t \in Seq(Byte), Len(t) = Len(s), NEW k \in 1 .. Len(s),
         \A i \in 1 .. Len(s) : i # k => t[i] = s[i]
  PROVE  \E w \in {1, 256} : Sum16(t) + w * s[k] = Sum16(s) + w * t[k]
<1> DEFINE n == Len(s)
           h == n \div 2
<1>1. n \in Nat /\ k \in 1 .. n /\ s[k] \in Nat /\ t[k] \in Nat
  BY LenProperties, ElementOfSeq, ByteRange
<1>2. /\ Words(s) \in Seq(Nat) /\ Len(Words(s)) = h /\ WordSum(s) = Total(Words(s)) /\ WordSum(s) \in Nat
      /\ Words(t) \in Seq(Nat) /\ Len(Words(t)) = h /\ WordSum(t) = Total(Words(t)) /\ WordSum(t) \in Nat
  BY WordsType
<1>3. h \in Nat /\ n % 2 \in 0 .. 1 /\ n = 2 * h + (n % 2)
  <2> HIDE DEF n
  <2> QED
    BY <1>1
<1> DEFINE rs == IF n % 2 = 1 THEN 256 * s[n] ELSE 0
           rt == IF n % 2 = 1 THEN 256 * t[n] ELSE 0
<1>4. Sum16(s) = WordSum(s) + rs /\ Sum16(t) = WordSum(t) + rt
  BY DEF Sum16
<1>5. rs \in Nat /\ rt \in Nat
  <2>1. CASE n % 2 = 1
    <3>1. n \in 1 .. n
      BY <1>1, <2>1
    <3>2. s[n] \in Nat /\ t[n] \in Nat
      BY <3>1, ElementOfSeq, ByteRange
    <3> QED
      BY <2>1, <3>2
  <2>2. CASE n % 2 # 1
    BY <2>2
  <2> QED
    BY <2>1, <2>2
<1>6. CASE k <= 2 * h
  <2> DEFINE m == (k + 1) \div 2
  <2>1. m \in Nat /\ m \in 1 .. h /\ (k = 2 * m - 1 \/ k = 2 * m)
    <3>1. k \in Nat /\ 1 <= k
      BY <1>1
    <3> HIDE DEF h, n
    <3> QED
      BY <1>3, <1>6, <3>1
  <2> HIDE DEF m
  <2>2. \A i \in 1 .. h : i # m => Words(t)[i] = Words(s)[i]
    <3>1. ASSUME NEW i \in 1 .. h, i # m PROVE Words(t)[i] = Words(s)[i]
      <4>1. k # 2 * i - 1 /\ k # 2 * i
        <5>1. i \in Nat
          BY <1>3, <3>1
        <5> HIDE DEF h
        <5> QED
          BY <5>1, <2>1, <3>1
      <4> QED
        BY <4>1, WordsApart
    <3> QED
      BY <3>1
  <2>3. WordSum(t) + Words(s)[m] = WordSum(s) + Words(t)[m]
    <3> DEFINE a == Words(s)
               v == Words(t)
    <3>1. a \in Seq(Nat) /\ v \in Seq(Nat) /\ Len(a) = Len(v) /\ m \in 1 .. Len(a)
          /\ \A i \in 1 .. Len(a) : i # m => v[i] = a[i]
      BY <1>2, <2>1, <2>2
    <3> HIDE DEF a, v, h, n
    <3>2. Total(v) + a[m] = Total(a) + v[m]
      BY <3>1, TotalChange
    <3> QED
      BY <3>2, <1>2 DEF a, v
  <2>4. /\ Words(t)[m] = 256 * t[2 * m - 1] + t[2 * m]
        /\ Words(s)[m] = 256 * s[2 * m - 1] + s[2 * m]
    <3>1. Words(t)[m] = Get16(t, 2 * m - 2) /\ Words(s)[m] = Get16(s, 2 * m - 2)
      BY <2>1, WordsType
    <3>2. (2 * m - 2) + 1 = 2 * m - 1 /\ (2 * m - 2) + 2 = 2 * m
      BY <2>1
    <3> QED
      BY <3>1, <3>2 DEF Get16
  <2>5. 2 * m - 1 \in 1 .. n /\ 2 * m \in 1 .. n /\ 2 * m - 1 # 2 * m
    <3> HIDE DEF h, n
    <3> QED
      BY <1>1, <1>3, <2>1
  <2>6. s[2 * m - 1] \in Nat /\ s[2 * m] \in Nat /\ t[2 * m - 1] \in Nat /\ t[2 * m] \in Nat
    BY <2>5, ElementOfSeq, ByteRange
  <2>7. rs = rt
    <3>1. CASE n % 2 = 1
      <4>1. n \in 1 .. n /\ n # k
        <5> HIDE DEF h, n
        <5> QED
          BY <1>1, <1>3, <1>6, <3>1
      <4> QED
        BY <3>1, <4>1
    <3> QED
      BY <3>1
  <2>8. CASE k = 2 * m - 1
    <3>1. t[2 * m] = s[2 * m]
      BY <2>5, <2>8
    <3> DEFINE a == s[2 * m - 1]
               v == t[2 * m - 1]
               c == s[2 * m]
               x == WordSum(s)
               y == WordSum(t)
               e == rs
    <3>2. a = s[k] /\ v = t[k]
      BY <2>8
    <3>3. y + (256 * a + c) = x + (256 * v + c)
      BY <2>3, <2>4, <2>8, <3>1
    <3>4. a \in Nat /\ v \in Nat /\ c \in Nat /\ x \in Nat /\ y \in Nat /\ e \in Nat
      BY <2>6, <1>2, <1>5
    <3>5. Sum16(s) = x + e /\ Sum16(t) = y + e
      BY <1>4, <2>7
    <3> HIDE DEF a, v, c, x, y, e, rs, rt
    <3>6. (y + e) + 256 * a = (x + e) + 256 * v
      BY <3>3, <3>4
    <3> QED
      BY <3>5, <3>6, <3>2
  <2>9. CASE k = 2 * m
    <3>1. t[2 * m - 1] = s[2 * m - 1]
      BY <2>5, <2>9
    <3> DEFINE a == s[2 * m]
               v == t[2 * m]
               c == s[2 * m - 1]
               x == WordSum(s)
               y == WordSum(t)
               e == rs
    <3>2. a = s[k] /\ v = t[k]
      BY <2>9
    <3>3. y + (256 * c + a) = x + (256 * c + v)
      BY <2>3, <2>4, <2>9, <3>1
    <3>4. a \in Nat /\ v \in Nat /\ c \in Nat /\ x \in Nat /\ y \in Nat /\ e \in Nat
      BY <2>6, <1>2, <1>5
    <3>5. Sum16(s) = x + e /\ Sum16(t) = y + e
      BY <1>4, <2>7
    <3> HIDE DEF a, v, c, x, y, e, rs, rt
    <3>6. (y + e) + 1 * a = (x + e) + 1 * v
      BY <3>3, <3>4
    <3> QED
      BY <3>5, <3>6, <3>2
  <2> QED
    BY <2>1, <2>8, <2>9
<1>7. CASE k > 2 * h
  <2>1. k = n /\ n % 2 = 1
    <3> HIDE DEF h, n
    <3> QED
      BY <1>1, <1>3, <1>7
  <2>2. \A i \in 1 .. h : Words(t)[i] = Words(s)[i]
    <3>1. ASSUME NEW i \in 1 .. h PROVE Words(t)[i] = Words(s)[i]
      <4>1. k # 2 * i - 1 /\ k # 2 * i
        <5>1. i \in Nat /\ i <= h
          BY <1>3
        <5> HIDE DEF h
        <5> QED
          BY <5>1, <1>3, <1>7
      <4> QED
        BY <4>1, WordsApart
    <3> QED
      BY <3>1
  <2>3. Words(t) = Words(s)
    <3> HIDE DEF h
    <3> QED
      BY <2>2, <1>2, SeqEqual
  <2>4. rs = 256 * s[k] /\ rt = 256 * t[k] /\ WordSum(t) = WordSum(s)
    BY <2>1, <2>3, <1>2
  <2> DEFINE a == s[k]
             v == t[k]
             x == WordSum(s)
  <2>5. a \in Nat /\ v \in Nat /\ x \in Nat /\ Sum16(s) = x + 256 * a /\ Sum16(t) = x + 256 * v
    BY <2>4, <1>1, <1>2, <1>4
  <2> HIDE DEF a, v, x, rs, rt
  <2>6. (x + 256 * v) + 256 * a = (x + 256 * a) + 256 * v
    BY <2>5
  <2> QED
    BY <2>5, <2>6 DEF a, v
<1> QED
  <2> HIDE DEF h
  <2> QED
    BY <1>1, <1>3, <1>6, <1>7

\* Of two buffers that differ in one byte the checksums differ.
LEMMA ByteCounts ==
  ASSUME NEW s \in Seq(Byte), NEW t \in Seq(Byte), Len(t) = Len(s), Len(s) <= 65575,
         NEW k \in 1 .. Len(s), \A i \in 1 .. Len(s) : i # k => t[i] = s[i], t[k] # s[k]
  PROVE  ars_cksum(t) # ars_cksum(s)
<1> DEFINE a == Sum16(s)
           v == Sum16(t)
           x == s[k]
           y == t[k]
<1>1. a \in Nat /\ a < SumLimit /\ v \in Nat /\ v < SumLimit
  BY Sum16Bound
<1>2. PICK w \in {1, 256} : v + w * x = a + w * y
  BY SumChange
<1>3. x \in Nat /\ x <= 255 /\ y \in Nat /\ y <= 255 /\ x # y
  BY ElementOfSeq, ByteRange
<1>4. a # v /\ a - v < 65535 /\ v - a < 65535
  <2>1. \/ v + x = a + y
        \/ v + 256 * x = a + 256 * y
    <3> HIDE DEF a, v
    <3> QED
      BY <1>2, <1>3
  <2> HIDE DEF a, v, x, y
  <2> QED
    BY <1>1, <1>3, <2>1
<1>5. ars_cksum(s) = 65535 - Carried(a) /\ ars_cksum(t) = 65535 - Carried(v)
  BY CksumOfSum
<1> DEFINE p == Carried(a)
           q == Carried(v)
<1> HIDE DEF a, v
<1>6. p # q
  BY <1>1, <1>4, FoldTellsApart
<1>7. p \in Nat /\ q \in Nat
  BY <1>1, FoldKeepsResidue
<1> HIDE DEF p, q
<1>8. 65535 - p # 65535 - q
  BY <1>6, <1>7
<1> QED
  BY <1>5, <1>8 DEF p, q

\* Every byte counts (ars_multi_cksum(), ars.c:480-534): changing any one byte
\* of a datagram changes its checksum, the leftover byte of an odd length
\* included, although the sum is folded and 0 and 65535 are the same to it.
THEOREM AnyByteCounts ==
  \A s \in Seq(Byte), x \in Byte : \A k \in 1 .. Len(s) :
    Len(s) <= 65535 /\ x # s[k] => ars_cksum([s EXCEPT ![k] = x]) # ars_cksum(s)
<1>1. SUFFICES ASSUME NEW s \in Seq(Byte), NEW x \in Byte, NEW k \in 1 .. Len(s),
                      Len(s) <= 65535, x # s[k]
               PROVE  ars_cksum([s EXCEPT ![k] = x]) # ars_cksum(s)
  OBVIOUS
<1> DEFINE t == [s EXCEPT ![k] = x]
<1>2. t \in Seq(Byte) /\ Len(t) = Len(s) /\ t[k] = x /\ \A i \in 1 .. Len(s) : i # k => t[i] = s[i]
  BY <1>1, ExceptSeq, LenProperties
<1> HIDE DEF t
<1>3. ars_cksum(t) # ars_cksum(s)
  BY <1>1, <1>2, ByteCounts
<1> QED
  BY <1>3 DEF t

-----------------------------------------------------------------------------
(* The checks of the dissector.                                            *)

\* The two parts of a concatenation.
LEMMA ConcatParts ==
  ASSUME NEW T, NEW s \in Seq(T), NEW t \in Seq(T)
  PROVE  /\ s \o t \in Seq(T) /\ Len(s \o t) = Len(s) + Len(t)
         /\ \A i \in 1 .. Len(s) : (s \o t)[i] = s[i]
         /\ \A i \in 1 .. Len(s) + Len(t) : i > Len(s) => (s \o t)[i] = t[i - Len(s)]
<1> DEFINE u == s \o t
           a == Len(s)
           c == Len(t)
<1>1. a \in Nat /\ c \in Nat
  BY LenProperties
<1>2. /\ u \in Seq(T) /\ Len(u) = a + c
      /\ \A i \in 1 .. a + c : u[i] = IF i <= a THEN s[i] ELSE t[i - a]
  BY ConcatProperties
<1> HIDE DEF a, c, u
<1>3. \A i \in 1 .. a : i \in 1 .. a + c /\ i <= a
  BY <1>1
<1>4. \A i \in 1 .. a + c : i > a => ~ (i <= a)
  BY <1>1
<1>5. \A i \in 1 .. a : u[i] = s[i]
  BY <1>2, <1>3
<1>6. \A i \in 1 .. a + c : i > a => u[i] = t[i - a]
  BY <1>2, <1>4
<1> QED
  BY <1>2, <1>5, <1>6 DEF a, c, u

\* What an overwritten field leaves of a buffer.
LEMMA PutZeros ==
  ASSUME NEW d \in Seq(Byte), NEW off \in Nat, off + 2 <= Len(d)
  PROVE  /\ Put(d, off, <<0, 0>>) \in Seq(Byte) /\ Len(Put(d, off, <<0, 0>>)) = Len(d)
         /\ \A i \in 1 .. Len(d) : Put(d, off, <<0, 0>>)[i] = IF i \in {off + 1, off + 2} THEN 0 ELSE d[i]
<1> DEFINE z == <<0, 0>>
<1>1. z \in Seq(Byte) /\ Len(z) = 2 /\ z[1] = 0 /\ z[2] = 0
  BY DEF Byte
<1> HIDE DEF z
<1>2. Put(d, off, z) \in Seq(Byte) /\ Len(Put(d, off, z)) = Len(d)
  BY <1>1, PutType
<1>3. ASSUME NEW i \in 1 .. Len(d)
      PROVE  Put(d, off, z)[i] = IF i \in {off + 1, off + 2} THEN 0 ELSE d[i]
  <2>1. Put(d, off, z)[i] = IF i - off \in 1 .. Len(z) THEN z[i - off] ELSE d[i]
    BY DEF Put
  <2>2. i \in Nat
    BY LenProperties
  <2>3. CASE i = off + 1
    <3>1. i - off = 1
      BY <2>2, <2>3
    <3> QED
      BY <1>1, <2>1, <2>3, <3>1
  <2>4. CASE i = off + 2
    <3>1. i - off = 2
      BY <2>2, <2>4
    <3> QED
      BY <1>1, <2>1, <2>4, <3>1
  <2>5. CASE i # off + 1 /\ i # off + 2
    <3>1. i - off \notin 1 .. Len(z)
      BY <1>1, <2>2, <2>5
    <3> QED
      BY <2>1, <2>5, <3>1
  <2> QED
    BY <2>3, <2>4, <2>5
<1> QED
  BY <1>2, <1>3 DEF z

\* Two buffers that differ in byte k only, in the checksum or elsewhere.
OneByteApart(s, t, k) ==
  /\ Len(t) = Len(s) /\ k \in 1 .. Len(s) /\ t[k] # s[k]
  /\ \A i \in 1 .. Len(s) : i # k => t[i] = s[i]

\* Damage in one byte either leaves the checksum field alone and shows in the
\* bytes summed (the field zeroed), or it hits the field and leaves them alone.
LEMMA DamagedField ==
  ASSUME NEW s \in Seq(Byte), NEW t \in Seq(Byte), NEW k, OneByteApart(s, t, k),
         NEW off \in Nat, off + 2 <= Len(s)
  PROVE  LET a == Put(s, off, <<0, 0>>)
             y == Put(t, off, <<0, 0>>)
         IN  /\ a \in Seq(Byte) /\ y \in Seq(Byte) /\ Len(a) = Len(s)
             /\ \/ Get16(t, off) = Get16(s, off) /\ OneByteApart(a, y, k)
                \/ Get16(t, off) # Get16(s, off) /\ a = y
<1> DEFINE a == Put(s, off, <<0, 0>>)
           y == Put(t, off, <<0, 0>>)
           n == Len(s)
<1>1. /\ Len(t) = Len(s) /\ k \in 1 .. Len(s) /\ t[k] # s[k]
      /\ \A i \in 1 .. Len(s) : i # k => t[i] = s[i]
  BY DEF OneByteApart
<1>2. n \in Nat /\ off + 1 \in 1 .. n /\ off + 2 \in 1 .. n /\ off + 1 # off + 2
  <2>1. n \in Nat
    BY LenProperties
  <2> HIDE DEF n
  <2>2. off + 2 <= n
    BY DEF n
  <2> QED
    BY <2>1, <2>2
<1>3. /\ a \in Seq(Byte) /\ Len(a) = n
      /\ \A i \in 1 .. n : a[i] = IF i \in {off + 1, off + 2} THEN 0 ELSE s[i]
  BY PutZeros
<1>4. /\ y \in Seq(Byte) /\ Len(y) = n
      /\ \A i \in 1 .. n : y[i] = IF i \in {off + 1, off + 2} THEN 0 ELSE t[i]
  <2>1. off + 2 <= Len(t) /\ Len(t) = n
    BY <1>1
  <2> QED
    BY <2>1, PutZeros
<1>5. Get16(s, off) = 256 * s[off + 1] + s[off + 2] /\ Get16(t, off) = 256 * t[off + 1] + t[off + 2]
  BY DEF Get16
<1> HIDE DEF a, y
<1>6. CASE k \notin {off + 1, off + 2}
  <2>1. Get16(t, off) = Get16(s, off)
    BY <1>1, <1>2, <1>5, <1>6
  <2>2. y[k] # a[k] /\ \A i \in 1 .. n : i # k => y[i] = a[i]
    BY <1>1, <1>3, <1>4, <1>6
  <2>3. OneByteApart(a, y, k)
    BY <1>1, <1>3, <1>4, <2>2 DEF OneByteApart
  <2> QED
    BY <1>3, <1>4, <2>1, <2>3 DEF a, y
<1>7. CASE k \in {off + 1, off + 2}
  <2>1. \A i \in 1 .. n : y[i] = a[i]
    BY <1>1, <1>3, <1>4, <1>7
  <2>2. y = a
    <3> HIDE DEF n
    <3> QED
      BY <1>3, <1>4, <2>1, SeqEqual
  <2> DEFINE s1 == s[off + 1]
             s2 == s[off + 2]
             t1 == t[off + 1]
             t2 == t[off + 2]
  <2>3. s1 \in Byte /\ s2 \in Byte /\ t1 \in Byte /\ t2 \in Byte
    BY <1>1, <1>2, ElementOfSeq
  <2>4. /\ s1 \in Nat /\ s1 <= 255 /\ s2 \in Nat /\ s2 <= 255
        /\ t1 \in Nat /\ t1 <= 255 /\ t2 \in Nat /\ t2 <= 255
    <3> HIDE DEF s1, s2, t1, t2
    <3> QED
      BY <2>3, ByteRange
  <2>5. (s1 = t1 /\ s2 # t2) \/ (s1 # t1 /\ s2 = t2)
    BY <1>1, <1>2, <1>7
  <2> HIDE DEF s1, s2, t1, t2
  <2>6. 256 * s1 + s2 # 256 * t1 + t2
    BY <2>4, <2>5
  <2>7. Get16(s, off) # Get16(t, off)
    BY <1>5, <2>6 DEF s1, s2, t1, t2
  <2> QED
    BY <1>3, <1>4, <2>2, <2>7 DEF a, y
<1> QED
  BY <1>6, <1>7

\* Bytes that are summed before the ones that differ.
LEMMA ApartAfter ==
  ASSUME NEW pre \in Seq(Byte), NEW s \in Seq(Byte), NEW t \in Seq(Byte), NEW k, OneByteApart(s, t, k)
  PROVE  /\ pre \o s \in Seq(Byte) /\ pre \o t \in Seq(Byte) /\ Len(pre \o s) = Len(pre) + Len(s)
         /\ OneByteApart(pre \o s, pre \o t, Len(pre) + k)
<1> DEFINE a == pre \o s
           y == pre \o t
           m == Len(pre)
           n == Len(s)
<1>1. /\ Len(t) = n /\ k \in 1 .. n /\ t[k] # s[k]
      /\ \A i \in 1 .. n : i # k => t[i] = s[i]
  BY DEF OneByteApart
<1>2. m \in Nat /\ n \in Nat
  BY LenProperties
<1>3. /\ a \in Seq(Byte) /\ Len(a) = m + n
      /\ \A i \in 1 .. m : a[i] = pre[i]
      /\ \A i \in 1 .. m + n : i > m => a[i] = s[i - m]
  BY ConcatParts
<1>4. /\ y \in Seq(Byte) /\ Len(y) = m + Len(t)
      /\ \A i \in 1 .. m : y[i] = pre[i]
      /\ \A i \in 1 .. m + Len(t) : i > m => y[i] = t[i - m]
  BY ConcatParts
<1> HIDE DEF a, y, m, n
<1>5. /\ m + k \in 1 .. m + n /\ m + k > m /\ (m + k) - m = k
  BY <1>1, <1>2
<1>6. y[m + k] # a[m + k]
  BY <1>1, <1>3, <1>4, <1>5
<1>7. ASSUME NEW i \in 1 .. m + n, i # m + k PROVE y[i] = a[i]
  <2>1. CASE i > m
    <3>1. i - m \in 1 .. n /\ i - m # k
      BY <1>1, <1>2, <1>7, <2>1
    <3> QED
      BY <1>1, <1>3, <1>4, <2>1, <3>1
  <2>2. CASE ~ (i > m)
    <3>1. i \in 1 .. m
      BY <1>2, <2>2
    <3> QED
      BY <1>3, <1>4, <3>1
  <2> QED
    BY <2>1, <2>2
<1>8. OneByteApart(a, y, m + k)
  BY <1>1, <1>3, <1>4, <1>5, <1>6, <1>7 DEF OneByteApart
<1> QED
  BY <1>3, <1>4, <1>8 DEF a, y, m, n

\* The same of two buffers known to be one byte apart.
LEMMA ApartCounts ==
  ASSUME NEW s \in Seq(Byte), NEW t \in Seq(Byte), NEW k, OneByteApart(s, t, k), Len(s) <= 65575
  PROVE  ars_cksum(t) # ars_cksum(s)
<1>1. /\ Len(t) = Len(s) /\ k \in 1 .. Len(s) /\ t[k] # s[k]
      /\ \A i \in 1 .. Len(s) : i # k => t[i] = s[i]
  BY DEF OneByteApart
<1> QED
  BY <1>1, ByteCounts

\* Of two buffers that differ in one byte, at most one holds its own checksum,
\* summed by itself or after a pseudo header.
LEMMA OneOfTwo ==
  ASSUME NEW pre \in Seq(Byte), NEW s \in Seq(Byte), NEW t \in Seq(Byte), NEW k, OneByteApart(s, t, k),
         Len(pre) + Len(s) <= 65575, NEW off \in Nat, off + 2 <= Len(s),
         ars_cksum(pre \o Put(s, off, <<0, 0>>)) = Get16(s, off)
  PROVE  ars_cksum(pre \o Put(t, off, <<0, 0>>)) # Get16(t, off)
<1> DEFINE a == Put(s, off, <<0, 0>>)
           y == Put(t, off, <<0, 0>>)
           u == pre \o a
           v == pre \o y
           h == Len(pre) + k
<1>1. /\ a \in Seq(Byte) /\ y \in Seq(Byte) /\ Len(a) = Len(s)
      /\ \/ Get16(t, off) = Get16(s, off) /\ OneByteApart(a, y, k)
         \/ Get16(t, off) # Get16(s, off) /\ a = y
  BY DamagedField
<1> HIDE DEF a, y
<1>2. CASE Get16(t, off) # Get16(s, off) /\ a = y
  BY <1>2 DEF a, y
<1>3. CASE Get16(t, off) = Get16(s, off) /\ OneByteApart(a, y, k)
  <2>1. a \in Seq(Byte) /\ y \in Seq(Byte) /\ OneByteApart(a, y, k)
    BY <1>1, <1>3
  <2>2. u \in Seq(Byte) /\ v \in Seq(Byte) /\ Len(u) = Len(pre) + Len(a) /\ OneByteApart(u, v, h)
    BY <2>1, ApartAfter
  <2> HIDE DEF u, v, h
  <2>3. Len(u) <= 65575
    BY <1>1, <2>2
  <2>4. u \in Seq(Byte) /\ v \in Seq(Byte) /\ OneByteApart(u, v, h)
    BY <2>2
  <2>5. ars_cksum(v) # ars_cksum(u)
    BY <2>3, <2>4, ApartCounts
  <2> QED
    BY <1>3, <2>5 DEF u, v, a, y
<1> QED
  BY <1>1, <1>2, <1>3

\* The same without a pseudo header.
LEMMA OneOfTwoAlone ==
  ASSUME NEW s \in Seq(Byte), NEW t \in Seq(Byte), NEW k, OneByteApart(s, t, k),
         Len(s) <= 65535, NEW off \in Nat, off + 2 <= Len(s),
         ars_cksum(Put(s, off, <<0, 0>>)) = Get16(s, off)
  PROVE  ars_cksum(Put(t, off, <<0, 0>>)) # Get16(t, off)
<1> DEFINE a == Put(s, off, <<0, 0>>)
           y == Put(t, off, <<0, 0>>)
           e == << >>
<1>1. a \in Seq(Byte) /\ y \in Seq(Byte)
  BY DamagedField
<1> HIDE DEF a, y
<1>2. e \in Seq(Byte) /\ Len(e) = 0 /\ e \o a = a /\ e \o y = y
  BY <1>1, EmptySeq, ConcatEmptySeq
<1> HIDE DEF e
<1>3. Len(e) + Len(s) <= 65575
  BY <1>2, LenProperties
<1>4. ars_cksum(e \o a) = Get16(s, off)
  BY <1>2 DEF a
<1>5. ars_cksum(e \o y) # Get16(t, off)
  <2>1. e \in Seq(Byte)
    BY <1>2
  <2>2. ars_cksum(e \o Put(s, off, <<0, 0>>)) = Get16(s, off)
    BY <1>4 DEF a
  <2>3. ars_cksum(e \o Put(t, off, <<0, 0>>)) # Get16(t, off)
    BY <1>3, <2>1, <2>2, OneOfTwo
  <2> QED
    BY <2>3 DEF y
<1> QED
  BY <1>2, <1>5 DEF y

\* Damage to a header is seen (ars_check_ip_cksum(), split.c:53-69): of a
\* header that passes the check, every byte counts, the options' and the
\* checksum's own included.  The first byte says how long the header is, so
\* the same is not claimed of it.
THEOREM HeaderDamageIsSeen ==
  \A s \in Seq(Byte), x \in Byte : \A k \in 2 .. 4 * Low(s[1]) :
    s # << >> /\ 4 * Low(s[1]) <= Len(s) /\ ars_check_ip_cksum(s) /\ x # s[k] =>
      ~ ars_check_ip_cksum([s EXCEPT ![k] = x])
<1>1. SUFFICES ASSUME NEW s \in Seq(Byte), NEW x \in Byte, NEW k \in 2 .. 4 * Low(s[1]),
                      s # << >>, 4 * Low(s[1]) <= Len(s), ars_check_ip_cksum(s), x # s[k],
                      ars_check_ip_cksum([s EXCEPT ![k] = x])
               PROVE  FALSE
  OBVIOUS
<1> DEFINE t == [s EXCEPT ![k] = x]
           n == 4 * Low(s[1])
           h == SubSeq(s, 1, n)
           g == SubSeq(t, 1, n)
<1>2. n >= 20 /\ ars_cksum(Put(h, 10, <<0, 0>>)) = Get16(h, 10)
  BY <1>1 DEF ars_check_ip_cksum
<1>3. n \in Nat /\ n <= 60 /\ n <= Len(s)
  <2>1. Len(s) \in Nat /\ Len(s) # 0
    BY <1>1, LenProperties, EmptySeq
  <2>2. 1 \in 1 .. Len(s)
    BY <2>1
  <2>3. s[1] \in Nat
    BY <2>2, ElementOfSeq, ByteRange
  <2>4. Low(s[1]) \in Nat /\ Low(s[1]) <= 15
    <3> DEFINE y == s[1]
    <3>1. y \in Nat
      BY <2>3
    <3> HIDE DEF y
    <3>2. y % 16 \in Nat /\ y % 16 <= 15
      BY <3>1
    <3> QED
      BY <3>2 DEF Low, y
  <2> QED
    BY <1>1, <2>4
<1> HIDE DEF n
<1>4. k \in 2 .. n /\ k \in Nat
  BY <1>3 DEF n
<1>5. k \in 1 .. Len(s) /\ k # 1 /\ Len(s) \in Nat /\ 1 \in 1 .. Len(s)
  BY <1>2, <1>3, <1>4, LenProperties
<1>6. t \in Seq(Byte) /\ Len(t) = Len(s) /\ t[k] = x /\ t[1] = s[1] /\ \A i \in 1 .. Len(s) : i # k => t[i] = s[i]
  BY <1>5, ExceptSeq
<1>7. ars_cksum(Put(g, 10, <<0, 0>>)) = Get16(g, 10)
  BY <1>1, <1>6 DEF ars_check_ip_cksum, n
<1> HIDE DEF t
<1>8. /\ h \in Seq(Byte) /\ Len(h) = n /\ \A i \in 1 .. n : h[i] = s[i]
      /\ g \in Seq(Byte) /\ Len(g) = n /\ \A i \in 1 .. n : g[i] = t[i]
  BY <1>3, <1>5, <1>6, SubSeqProperties
<1> HIDE DEF h, g
<1>9. Len(g) = Len(h) /\ Len(h) <= 65535 /\ k \in 1 .. Len(h) /\ 10 + 2 <= Len(h)
      /\ (\A i \in 1 .. Len(h) : i # k => g[i] = h[i]) /\ g[k] # h[k]
  <2>1. k \in 1 .. n /\ n <= 65535 /\ 10 + 2 <= n
    BY <1>2, <1>3, <1>4
  <2>2. \A i \in 1 .. n : i \in 1 .. Len(s)
    BY <1>3, <1>5
  <2>3. g[k] # h[k]
    BY <1>1, <1>6, <1>8, <2>1
  <2>4. \A i \in 1 .. n : i # k => g[i] = h[i]
    BY <1>6, <1>8, <2>2
  <2> QED
    BY <1>8, <2>1, <2>3, <2>4
<1> DEFINE off == 10
<1>10. off \in Nat /\ off + 2 <= Len(h) /\ ars_cksum(Put(h, off, <<0, 0>>)) = Get16(h, off)
       /\ ars_cksum(Put(g, off, <<0, 0>>)) = Get16(g, off)
  BY <1>2, <1>7, <1>9
<1> HIDE DEF off
<1>11. h \in Seq(Byte) /\ g \in Seq(Byte) /\ off \in Nat
  BY <1>8, <1>10
<1>12. OneByteApart(h, g, k)
  BY <1>9 DEF OneByteApart
<1>13. ars_cksum(Put(g, off, <<0, 0>>)) # Get16(g, off)
  BY <1>9, <1>10, <1>11, <1>12, OneOfTwoAlone
<1> QED
  BY <1>10, <1>13

\* Damage to an ICMP message is seen (ars_check_icmp_cksum(), split.c:71-90):
\* of a message that passes the check, every byte counts.
THEOREM MessageDamageIsSeen ==
  \A s \in Seq(Byte), x \in Byte : \A k \in 1 .. Len(s) :
    Len(s) <= 65535 /\ ars_check_icmp_cksum(s) /\ x # s[k] =>
      ~ ars_check_icmp_cksum([s EXCEPT ![k] = x])
<1>1. SUFFICES ASSUME NEW s \in Seq(Byte), NEW x \in Byte, NEW k \in 1 .. Len(s),
                      Len(s) <= 65535, ars_check_icmp_cksum(s), x # s[k],
                      ars_check_icmp_cksum([s EXCEPT ![k] = x])
               PROVE  FALSE
  OBVIOUS
<1> DEFINE t == [s EXCEPT ![k] = x]
           off == 2
<1>2. t \in Seq(Byte) /\ Len(t) = Len(s) /\ t[k] = x /\ \A i \in 1 .. Len(s) : i # k => t[i] = s[i]
  BY ExceptSeq, LenProperties
<1>3. /\ off \in Nat /\ off + 2 <= Len(s)
      /\ ars_cksum(Put(s, off, <<0, 0>>)) = Get16(s, off)
      /\ ars_cksum(Put(t, off, <<0, 0>>)) = Get16(t, off)
  <2>1. Len(s) >= 4 /\ Len(s) \in Nat
    BY <1>1, LenProperties DEF ars_check_icmp_cksum
  <2> QED
    BY <1>1, <2>1 DEF ars_check_icmp_cksum
<1> HIDE DEF t, off
<1>4. OneByteApart(s, t, k)
  BY <1>1, <1>2 DEF OneByteApart
<1>5. ars_cksum(Put(t, off, <<0, 0>>)) # Get16(t, off)
  BY <1>1, <1>2, <1>3, <1>4, OneOfTwoAlone
<1> QED
  BY <1>3, <1>5

-----------------------------------------------------------------------------
(* What a compiler stores.                                                 *)

\* A checksum is a 16 bit number, however long the buffer.
LEMMA CksumRange ==
  ASSUME NEW s \in Seq(Byte)
  PROVE  ars_cksum(s) \in Nat /\ ars_cksum(s) <= 65535
<1> DEFINE n == Len(s)
           a == WordSum(s)
           r == IF n % 2 = 1 THEN 256 * s[n] ELSE 0
           c == Carried(Sum16(s))
<1>1. n \in Nat /\ a \in Nat
  BY LenProperties, WordsType
<1>2. r \in Nat
  <2>1. CASE n % 2 = 1
    <3>1. n \in 1 .. n
      BY <2>1, <1>1
    <3>2. s[n] \in Nat
      BY <3>1, ElementOfSeq, ByteRange
    <3> QED
      BY <2>1, <3>2
  <2>2. CASE n % 2 # 1
    BY <2>2
  <2> QED
    BY <2>1, <2>2
<1>3. Sum16(s) = a + r
  BY DEF Sum16
<1> HIDE DEF a, r, n
<1>4. Sum16(s) \in Nat
  BY <1>1, <1>2, <1>3
<1>5. c \in Nat /\ c <= 65535
  <2> DEFINE m == Sum16(s)
             f == Folded(m)
             e == f + (f \div 65536)
  <2>1. m \in Nat
    BY <1>4
  <2> HIDE DEF m
  <2>2. f \in Nat
    BY <2>1 DEF Folded
  <2> HIDE DEF f
  <2>3. e \in Nat
    BY <2>2
  <2> HIDE DEF e
  <2>4. e % 65536 \in Nat /\ e % 65536 <= 65535
    BY <2>3
  <2> QED
    BY <2>4 DEF Carried, m, f, e
<1>6. ars_cksum(s) = 65535 - c
  BY CksumOfSum
<1> HIDE DEF c
<1> QED
  BY <1>5, <1>6

\* A 16 bit number in network order.
LEMMA NetWord ==
  ASSUME NEW c \in Nat, c <= 65535
  PROVE  /\ Net(c, 2) \in Seq(Byte) /\ Len(Net(c, 2)) = 2
         /\ 256 * Net(c, 2)[1] + Net(c, 2)[2] = c
<1> DEFINE u == <<1, 256, 65536, 16777216>>
           x == (c \div 256) % 256
           y == c % 256
<1>1. Net(c, 2) = [k \in 1 .. 2 |-> (c \div u[2 - k + 1]) % 256]
  BY DEF Net
<1>2. u[1] = 1 /\ u[2] = 256
  OBVIOUS
<1> HIDE DEF u
<1>3. c \div 1 = c /\ x \in Nat /\ x <= 255 /\ y \in Nat /\ y <= 255 /\ 256 * x + y = c
  OBVIOUS
<1>4. Net(c, 2)[1] = (c \div u[2]) % 256 /\ Net(c, 2)[2] = (c \div u[1]) % 256
  BY <1>1
<1>5. Net(c, 2)[1] = x /\ Net(c, 2)[2] = y
  BY <1>2, <1>3, <1>4
<1> HIDE DEF x, y
<1>6. \A k \in 1 .. 2 : (c \div u[2 - k + 1]) % 256 \in Byte
  <2>1. (c \div u[2]) % 256 \in Byte /\ (c \div u[1]) % 256 \in Byte
    BY <1>3, <1>4, <1>5 DEF Byte
  <2>2. \A k \in 1 .. 2 : 2 - k + 1 = 1 \/ 2 - k + 1 = 2
    OBVIOUS
  <2> QED
    BY <2>1, <2>2
<1>7. Net(c, 2) \in Seq(Byte) /\ Len(Net(c, 2)) = 2
  <2> DEFINE w == 2
             e(k) == (c \div u[2 - k + 1]) % 256
             f == [k \in 1 .. w |-> e(k)]
  <2>1. w \in Nat /\ (\A k \in 1 .. w : e(k) \in Byte) /\ f = Net(c, 2)
    BY <1>1, <1>6
  <2> HIDE DEF w, e
  <2>2. f \in Seq(Byte) /\ Len(f) = w
    BY <2>1
  <2> HIDE DEF f
  <2> QED
    BY <2>1, <2>2 DEF w
<1> QED
  BY <1>3, <1>5, <1>7

\* What is written into a field is read from it.
LEMMA PutWord ==
  ASSUME NEW d \in Seq(Byte), NEW off \in Nat, off + 2 <= Len(d), NEW w \in Seq(Byte), Len(w) = 2
  PROVE  /\ Put(d, off, w) \in Seq(Byte) /\ Len(Put(d, off, w)) = Len(d)
         /\ Put(d, off, w)[off + 1] = w[1] /\ Put(d, off, w)[off + 2] = w[2]
         /\ \A i \in 1 .. Len(d) : i \notin {off + 1, off + 2} => Put(d, off, w)[i] = d[i]
<1>1. Put(d, off, w) \in Seq(Byte) /\ Len(Put(d, off, w)) = Len(d)
  BY PutType
<1>2. \A i \in 1 .. Len(d) :
        Put(d, off, w)[i] = IF i - off \in 1 .. Len(w) THEN w[i - off] ELSE d[i]
  BY DEF Put
<1>3. /\ off + 1 \in 1 .. Len(d) /\ off + 2 \in 1 .. Len(d)
      /\ (off + 1) - off = 1 /\ (off + 2) - off = 2 /\ 1 \in 1 .. Len(w) /\ 2 \in 1 .. Len(w)
  BY LenProperties
<1>4. \A i \in 1 .. Len(d) : i \notin {off + 1, off + 2} => i - off \notin 1 .. Len(w)
  BY LenProperties
<1>5. Put(d, off, w)[off + 1] = w[1] /\ Put(d, off, w)[off + 2] = w[2]
  BY <1>2, <1>3
<1>6. \A i \in 1 .. Len(d) : i \notin {off + 1, off + 2} => Put(d, off, w)[i] = d[i]
  BY <1>2, <1>4
<1> QED
  BY <1>1, <1>5, <1>6

\* What ConcatParts says of u, by a name: u is s followed by t.
Joined(u, s, t) ==
  /\ u \in Seq(Byte) /\ Len(u) = Len(s) + Len(t)
  /\ \A i \in 1 .. Len(s) : u[i] = s[i]
  /\ \A i \in 1 .. Len(s) + Len(t) : i > Len(s) => u[i] = t[i - Len(s)]

\* A concatenation of bytes is one followed by the other.
LEMMA JoinedParts ==
  ASSUME NEW s \in Seq(Byte), NEW t \in Seq(Byte)
  PROVE  Joined(s \o t, s, t)
BY ConcatParts DEF Joined

\* c was stored in a field of d that rest follows: it is read back, and zeroing
\* the field gives what zeroing it in d gives.
Stored(d, off, rest, c) ==
  LET z == Put(d, off, <<0, 0>>)
      u == Put(z, off, Net(c, 2)) \o rest
  IN  z \o rest \in Seq(Byte) /\ u \in Seq(Byte)
      /\ Put(u, off, <<0, 0>>) = z \o rest /\ Get16(u, off) = c

\* A field that was zeroed and filled can be read, and zeroed again.
LEMMA StoredField ==
  ASSUME NEW d \in Seq(Byte), NEW off \in Nat, off + 2 <= Len(d), NEW rest \in Seq(Byte),
         NEW c \in Nat, c <= 65535
  PROVE  Stored(d, off, rest, c)
<1> DEFINE z == Put(d, off, <<0, 0>>)
           w == Net(c, 2)
           v == Put(z, off, w)
           u == v \o rest
           x == z \o rest
           n == Len(d)
<1>1. /\ z \in Seq(Byte) /\ Len(z) = n
      /\ \A i \in 1 .. n : z[i] = IF i \in {off + 1, off + 2} THEN 0 ELSE d[i]
  BY PutZeros
<1> HIDE DEF z
<1>2. n \in Nat /\ Len(rest) \in Nat /\ off + 1 \in 1 .. n /\ off + 2 \in 1 .. n /\ off + 2 <= n
  BY LenProperties
<1>3. /\ x \in Seq(Byte) /\ Len(x) = n + Len(rest)
      /\ \A i \in 1 .. n : x[i] = z[i]
      /\ \A i \in 1 .. n + Len(rest) : i > n => x[i] = rest[i - n]
  <2> HIDE DEF n
  <2>1. z \in Seq(Byte) /\ Len(z) = n
    BY <1>1
  <2> HIDE DEF x
  <2>2. Joined(x, z, rest)
    BY <2>1, JoinedParts DEF x
  <2> QED
    BY <2>1, <2>2 DEF Joined
<1> HIDE DEF x
<1>4. w \in Seq(Byte) /\ Len(w) = 2 /\ 256 * w[1] + w[2] = c
  BY NetWord
<1> HIDE DEF w
<1>5. /\ v \in Seq(Byte) /\ Len(v) = n /\ v[off + 1] = w[1] /\ v[off + 2] = w[2]
      /\ \A i \in 1 .. n : i \notin {off + 1, off + 2} => v[i] = z[i]
  <2>1. off + 2 <= Len(z)
    BY <1>1, <1>2
  <2> HIDE DEF n
  <2> QED
    BY <1>1, <1>4, <2>1, PutWord
<1> HIDE DEF v
<1>6. /\ u \in Seq(Byte) /\ Len(u) = n + Len(rest)
      /\ \A i \in 1 .. n : u[i] = v[i]
      /\ \A i \in 1 .. n + Len(rest) : i > n => u[i] = rest[i - n]
  <2> HIDE DEF n
  <2>1. v \in Seq(Byte) /\ Len(v) = n
    BY <1>5
  <2> HIDE DEF u
  <2>2. Joined(u, v, rest)
    BY <2>1, JoinedParts DEF u
  <2> QED
    BY <2>1, <2>2 DEF Joined
<1> HIDE DEF u, n
<1> DEFINE y == Put(u, off, <<0, 0>>)
           m == n + Len(rest)
<1>7. /\ y \in Seq(Byte) /\ Len(y) = m
      /\ \A i \in 1 .. m : y[i] = IF i \in {off + 1, off + 2} THEN 0 ELSE u[i]
  <2>1. off + 2 <= Len(u)
    BY <1>2, <1>6
  <2> QED
    BY <1>6, <2>1, PutZeros
<1> HIDE DEF y
<1>8. \A i \in 1 .. m : y[i] = x[i]
  <2>1. ASSUME NEW i \in 1 .. m, i > n PROVE y[i] = x[i]
    <3>1. i \notin {off + 1, off + 2}
      BY <1>2, <2>1
    <3> QED
      BY <1>3, <1>6, <1>7, <2>1, <3>1
  <2>2. ASSUME NEW i \in 1 .. m, ~ (i > n) PROVE y[i] = x[i]
    <3>1. i \in 1 .. n
      BY <1>2, <2>2
    <3>2. CASE i \in {off + 1, off + 2}
      <4>1. z[i] = 0
        BY <1>1, <3>1, <3>2 DEF n
      <4>2. y[i] = 0
        BY <1>7, <3>2
      <4> QED
        BY <4>1, <4>2, <1>3, <3>1
    <3>3. CASE i \notin {off + 1, off + 2}
      <4>1. y[i] = u[i]
        BY <1>7, <3>3
      <4>2. u[i] = v[i] /\ v[i] = z[i]
        BY <1>5, <1>6, <3>1, <3>3
      <4> QED
        BY <4>1, <4>2, <1>3, <3>1
    <3> QED
      BY <3>2, <3>3
  <2> QED
    BY <2>1, <2>2
<1>9. y = x
  <2>1. y \in Seq(Byte) /\ x \in Seq(Byte) /\ Len(x) = m /\ Len(y) = m
    BY <1>3, <1>7
  <2> HIDE DEF m
  <2> QED
    BY <1>8, <2>1, SeqEqual
<1>10. Get16(u, off) = c
  <2>1. u[off + 1] = w[1] /\ u[off + 2] = w[2]
    BY <1>2, <1>5, <1>6
  <2> QED
    BY <1>4, <2>1 DEF Get16
<1> QED
  BY <1>3, <1>6, <1>9, <1>10 DEF Stored, y, x, u, v, w, z

\* A field that holds the checksum of what it was zeroed in passes the check.
LEMMA StoredIsGood ==
  ASSUME NEW d \in Seq(Byte), NEW off \in Nat, off + 2 <= Len(d), NEW rest \in Seq(Byte)
  PROVE  LET z == Put(d, off, <<0, 0>>)
             u == Put(z, off, Net(ars_cksum(z \o rest), 2)) \o rest
         IN  u \in Seq(Byte) /\ ars_cksum(Put(u, off, <<0, 0>>)) = Get16(u, off)
<1> DEFINE z == Put(d, off, <<0, 0>>)
           y == z \o rest
           c == ars_cksum(y)
           u == Put(z, off, Net(c, 2)) \o rest
<1>1. y \in Seq(Byte)
  <2>1. z \in Seq(Byte)
    BY PutZeros
  <2> HIDE DEF z
  <2> QED
    BY <2>1, ConcatProperties
<1>2. c \in Nat /\ c <= 65535
  <2> HIDE DEF y
  <2> QED
    BY <1>1, CksumRange
<1> HIDE DEF c
<1>3. u \in Seq(Byte) /\ Put(u, off, <<0, 0>>) = y /\ Get16(u, off) = c
  <2>1. Stored(d, off, rest, c)
    BY <1>2, StoredField
  <2> QED
    BY <2>1 DEF Stored
<1> QED
  BY <1>3 DEF c

\* What holds of the empty sequence and of one more element holds of all.
LEMMA SeqInduct ==
  ASSUME NEW T, NEW S \in SUBSET Seq(T), << >> \in S, \A s \in S, x \in T : Append(s, x) \in S
  PROVE  S = Seq(T)
<1> DEFINE R == {n \in Nat : \A s \in Seq(T) : Len(s) = n => s \in S}
<1>1. 0 \in R
  BY EmptySeq
<1>2. ASSUME NEW n \in R PROVE n + 1 \in R
  <2>1. ASSUME NEW s \in Seq(T), Len(s) = n + 1 PROVE s \in S
    <3>1. s # << >>
      BY <2>1, EmptySeq
    <3>2. PICK f \in Seq(T), x \in T : s = Append(f, x)
      BY <3>1, SequenceEmptyOrAppend
    <3>3. Len(s) = Len(f) + 1 /\ Len(f) \in Nat
      BY <3>2, AppendProperties, LenProperties
    <3>4. Len(f) = n
      BY <2>1, <3>3
    <3>5. f \in S
      BY <1>2, <3>4
    <3> QED
      BY <3>2, <3>5
  <2> QED
    BY <2>1
<1>3. R \in SUBSET Nat
  OBVIOUS
<1>4. R = Nat
  <2> HIDE DEF R
  <2>1. \A n \in R : n + 1 \in R
    BY <1>2
  <2> QED
    BY <1>1, <1>3, <2>1, NatInduct
<1>5. ASSUME NEW s \in Seq(T) PROVE s \in S
  <2>1. Len(s) \in Nat
    BY LenProperties
  <2>2. Len(s) \in R
    BY <1>4, <2>1
  <2> QED
    BY <2>2
<1> QED
  BY <1>5

\* Chunks are flattened piece by piece.
LEMMA FlattenConcat ==
  ASSUME NEW T, NEW a \in Seq(Seq(T)), NEW y \in Seq(Seq(T))
  PROVE  /\ FlattenSeq(a) \in Seq(T) /\ FlattenSeq(y) \in Seq(T)
         /\ FlattenSeq(a \o y) = FlattenSeq(a) \o FlattenSeq(y)
<1> DEFINE V == Seq(T)
           S == {c \in Seq(V) : FlattenSeq(a \o c) = FlattenSeq(a) \o FlattenSeq(c)}
           e == << >>
<1>1. FlattenSeq(a) \in V /\ FlattenSeq(y) \in V
  <2>1. e \in V
    BY EmptySeq
  <2> HIDE DEF e
  <2> QED
    BY <2>1, FlattenAppend
<1>2. << >> \in S
  <2>1. << >> \in Seq(V)
    BY EmptySeq
  <2>2. a \o << >> = a
    BY ConcatEmptySeq
  <2>3. FlattenSeq(a) \o << >> = FlattenSeq(a)
    BY <1>1, ConcatEmptySeq
  <2> QED
    BY <2>1, <2>2, <2>3, FlattenEmpty
<1>3. ASSUME NEW c \in S, NEW x \in V PROVE Append(c, x) \in S
  <2>1. c \in Seq(V) /\ FlattenSeq(a \o c) = FlattenSeq(a) \o FlattenSeq(c)
    BY <1>3
  <2>2. Append(c, x) \in Seq(V) /\ a \o c \in Seq(V)
    <3> HIDE DEF V, S
    <3>1. Append(c, x) \in Seq(V)
      BY <2>1, AppendProperties
    <3>2. a \in Seq(V)
      BY DEF V
    <3> QED
      BY <2>1, <3>1, <3>2, ConcatProperties
  <2>3. a \o Append(c, x) = Append(a \o c, x)
    <3> HIDE DEF V, S
    <3> DEFINE o == <<x>>
    <3>1. o \in Seq(V) /\ a \in Seq(V)
      BY DEF V
    <3>2. Append(c, x) = c \o o /\ Append(a \o c, x) = (a \o c) \o o
      BY <2>1, <2>2, AppendIsConcat
    <3> HIDE DEF o
    <3>3. Associates(a, c, o)
      BY <2>1, <3>1, ConcatAssociates
    <3> QED
      BY <3>2, <3>3 DEF Associates
  <2>4. FlattenSeq(Append(c, x)) = FlattenSeq(c) \o x /\ FlattenSeq(c) \in Seq(T)
    BY <2>1, FlattenAppend
  <2>5. FlattenSeq(Append(a \o c, x)) = FlattenSeq(a \o c) \o x
    <3> DEFINE d == a \o c
    <3>1. d \in Seq(Seq(T))
      BY <2>2
    <3> HIDE DEF d
    <3>2. FlattenSeq(Append(d, x)) = FlattenSeq(d) \o x
      BY <3>1, FlattenAppend
    <3> QED
      BY <3>2 DEF d
  <2>6. (FlattenSeq(a) \o FlattenSeq(c)) \o x = FlattenSeq(a) \o (FlattenSeq(c) \o x)
    <3> DEFINE A == FlattenSeq(a)
               C == FlattenSeq(c)
    <3>1. A \in Seq(T) /\ C \in Seq(T) /\ x \in Seq(T)
      BY <1>1, <2>4
    <3> HIDE DEF A, C
    <3>2. Associates(A, C, x)
      BY <3>1, ConcatAssociates
    <3> QED
      BY <3>2 DEF Associates, A, C
  <2>7. FlattenSeq(a \o Append(c, x)) = FlattenSeq(a) \o FlattenSeq(Append(c, x))
    BY <2>1, <2>3, <2>4, <2>5, <2>6
  <2> QED
    BY <2>2, <2>7
<1>4. S = Seq(V)
  <2>1. S \in SUBSET Seq(V) /\ \A c \in S, x \in V : Append(c, x) \in S
    BY <1>3
  <2> HIDE DEF S, V
  <2> QED
    BY <1>2, <2>1, SeqInduct
<1> QED
  BY <1>1, <1>4

\* The bytes of a single chunk.
LEMMA FlattenOne ==
  ASSUME NEW T, NEW x \in Seq(T)
  PROVE  <<x>> \in Seq(Seq(T)) /\ FlattenSeq(<<x>>) = x
<1> DEFINE e == << >>
<1>1. e \in Seq(Seq(T)) /\ FlattenSeq(e) = << >> /\ Append(e, x) = <<x>>
  BY EmptySeq, FlattenEmpty
<1>2. << >> \o x = x
  BY ConcatEmptySeq
<1> HIDE DEF e
<1>3. FlattenSeq(Append(e, x)) = FlattenSeq(e) \o x
  BY <1>1, FlattenAppend
<1> QED
  BY <1>1, <1>2, <1>3

\* The sizes of the chunks.
Lens(c) == [k \in 1 .. Len(c) |-> Len(c[k])]

\* The sum of a single number.
LEMMA TotalOne ==
  ASSUME NEW n \in Nat
  PROVE  <<n>> \in Seq(Nat) /\ Total(<<n>>) = n
<1> DEFINE s == <<n>>
<1>1. s \in Seq(Nat) /\ Len(s) = 1 /\ s[1] = n
  OBVIOUS
<1> HIDE DEF s
<1>2. PICK f \in [0 .. Len(s) -> Nat] :
        f[0] = 0 /\ (\A i \in 1 .. Len(s) : f[i] = f[i - 1] + s[i]) /\ Total(s) = f[Len(s)]
  BY <1>1, TotalSums
<1>3. 1 \in 1 .. Len(s) /\ 1 - 1 = 0
  BY <1>1
<1>4. f[1] = f[1 - 1] + s[1]
  BY <1>2, <1>3
<1>5. f[1] = 0 + n
  BY <1>1, <1>2, <1>3, <1>4
<1> QED
  BY <1>1, <1>2, <1>5 DEF s

\* Flattening loses no byte and makes none.
LEMMA FlattenLen ==
  ASSUME NEW T, NEW c \in Seq(Seq(T))
  PROVE  FlattenSeq(c) \in Seq(T) /\ Len(FlattenSeq(c)) = Total(Lens(c))
<1> DEFINE V == Seq(T)
           S == {d \in Seq(V) : FlattenSeq(d) \in Seq(T) /\ Lens(d) \in Seq(Nat)
                                /\ Len(FlattenSeq(d)) = Total(Lens(d))}
<1>1. << >> \in S
  <2>1. Lens(<< >>) = << >> /\ << >> \in Seq(V) /\ << >> \in Seq(Nat) /\ << >> \in Seq(T) /\ Len(<< >>) = 0
    BY EmptySeq DEF Lens
  <2>2. Total(<< >>) = 0
    <3> DEFINE e == << >>
    <3>1. e \in Seq(Nat) /\ Len(e) = 0
      BY <2>1
    <3> HIDE DEF e
    <3>2. PICK f \in [0 .. Len(e) -> Nat] :
            f[0] = 0 /\ (\A i \in 1 .. Len(e) : f[i] = f[i - 1] + e[i]) /\ Total(e) = f[Len(e)]
      BY <3>1, TotalSums
    <3> QED
      BY <3>1, <3>2 DEF e
  <2> QED
    BY <2>1, <2>2, FlattenEmpty
<1>2. ASSUME NEW d \in S, NEW x \in V PROVE Append(d, x) \in S
  <2>1. d \in Seq(V) /\ FlattenSeq(d) \in Seq(T) /\ Lens(d) \in Seq(Nat) /\ Len(FlattenSeq(d)) = Total(Lens(d))
    BY <1>2
  <2> HIDE DEF S
  <2> DEFINE u == Append(d, x)
             n == Len(d)
             L == Lens(d)
  <2>2. /\ u \in Seq(V) /\ Len(u) = n + 1 /\ n \in Nat /\ u[n + 1] = x
        /\ \A i \in 1 .. n : u[i] = d[i]
    <3> HIDE DEF V
    <3> QED
      BY <2>1, AppendProperties, LenProperties
  <2>3. FlattenSeq(u) = FlattenSeq(d) \o x /\ x \in Seq(T) /\ Len(x) \in Nat
    BY <2>1, FlattenAppend, LenProperties
  <2>4. FlattenSeq(u) \in Seq(T) /\ Len(FlattenSeq(u)) = Len(FlattenSeq(d)) + Len(x)
    BY <2>1, <2>3, ConcatProperties
  <2> HIDE DEF u
  <2>5. Lens(u) = Append(L, Len(x))
    <3> DEFINE A == Append(L, Len(x))
               W == Lens(u)
    <3>1. Len(L) = n /\ \A i \in 1 .. n : L[i] = Len(d[i])
      BY <2>2 DEF Lens
    <3>2. A \in Seq(Nat) /\ Len(A) = n + 1 /\ A[n + 1] = Len(x) /\ \A i \in 1 .. n : A[i] = L[i]
      <4> HIDE DEF L, n
      <4> QED
        BY <2>1, <2>3, <3>1, AppendProperties DEF L
    <3>3. W = [k \in 1 .. n + 1 |-> Len(u[k])]
      BY <2>2 DEF Lens
    <3> HIDE DEF W, A, L, n
    <3>4. \A i \in 1 .. n + 1 : W[i] = Len(u[i])
      BY <3>3
    <3>5. \A i \in 1 .. n + 1 : i = n + 1 \/ i \in 1 .. n
      BY <2>2
    <3>6. n + 1 \in 1 .. n + 1
      BY <2>2
    <3>7. \A i \in 1 .. n + 1 : W[i] = A[i]
      <4>1. W[n + 1] = A[n + 1]
        BY <2>2, <3>2, <3>4, <3>6
      <4>2. ASSUME NEW i \in 1 .. n PROVE W[i] = A[i]
        <5>1. i \in 1 .. n + 1
          BY <2>2
        <5>2. W[i] = Len(u[i]) /\ u[i] = d[i]
          BY <2>2, <3>4, <5>1
        <5>3. A[i] = L[i] /\ L[i] = Len(d[i])
          BY <3>1, <3>2
        <5> QED
          BY <5>2, <5>3
      <4> QED
        BY <3>5, <4>1, <4>2
    <3>8. A = [k \in 1 .. n + 1 |-> A[k]]
      BY <3>2
    <3> QED
      BY <3>3, <3>4, <3>7, <3>8 DEF W, A
  <2>6. Total(Append(L, Len(x))) = Total(L) + Len(x) /\ Append(L, Len(x)) \in Seq(Nat)
    <3> DEFINE m == Len(x)
               o == <<m>>
    <3>1. m \in Nat /\ L \in Seq(Nat)
      BY <2>1, <2>3
    <3> HIDE DEF m, L
    <3>2. o \in Seq(Nat) /\ Total(o) = m
      BY <3>1, TotalOne
    <3>3. Append(L, m) = L \o o /\ Append(L, m) \in Seq(Nat)
      BY <3>1, AppendIsConcat, AppendProperties
    <3> HIDE DEF o
    <3>4. Total(L \o o) = Total(L) + Total(o)
      BY <3>1, <3>2, TotalConcat
    <3> QED
      BY <3>2, <3>3, <3>4 DEF m
  <2> QED
    BY <2>1, <2>2, <2>4, <2>5, <2>6 DEF S, u
<1>3. S = Seq(V)
  <2>1. S \in SUBSET Seq(V) /\ \A d \in S, x \in V : Append(d, x) \in S
    BY <1>2
  <2> HIDE DEF S, V
  <2> QED
    BY <1>1, <2>1, SeqInduct
<1> QED
  BY <1>3

-----------------------------------------------------------------------------
(* Layers that are compiled.                                               *)

\* A compiler that rewrites the buffer of layer i.
LEMMA SetsLayer ==
  ASSUME NEW p \in Seq(Layer), NEW i \in 1 .. Len(p), NEW d \in Seq(Byte), Len(d) = Len(p[i].data)
  PROVE  LET q == Sets(p, i, d)
         IN  /\ q \in Seq(Layer) /\ Len(q) = Len(p)
             /\ q[i].data = d /\ q[i].size = p[i].size /\ q[i].type = p[i].type /\ q[i].flags = p[i].flags
             /\ \A k \in 1 .. Len(p) : k # i => q[k] = p[k]
<1> DEFINE l == [p[i] EXCEPT !.data = d]
<1>1. p[i] \in Layer
  BY ElementOfSeq
<1>2. l \in Layer /\ l.data = d /\ l.size = p[i].size /\ l.type = p[i].type /\ l.flags = p[i].flags
  BY <1>1 DEF Layer
<1>3. Sets(p, i, d) = [p EXCEPT ![i] = l]
  BY DEF Sets
<1> HIDE DEF l
<1>4. /\ [p EXCEPT ![i] = l] \in Seq(Layer) /\ Len([p EXCEPT ![i] = l]) = Len(p)
      /\ [p EXCEPT ![i] = l][i] = l
      /\ \A k \in 1 .. Len(p) : k # i => [p EXCEPT ![i] = l][k] = p[k]
  BY <1>2, ExceptSeq, LenProperties
<1> QED
  BY <1>2, <1>3, <1>4

\* ... changes no type.
LEMMA SetsTypes ==
  ASSUME NEW p \in Seq(Layer), NEW i \in 1 .. Len(p), NEW d \in Seq(Byte), Len(d) = Len(p[i].data)
  PROVE  \A k \in Int : TypeAt(Sets(p, i, d), k) = TypeAt(p, k)
<1> DEFINE q == Sets(p, i, d)
<1>1. Len(q) = Len(p) /\ q[i].type = p[i].type /\ \A k \in 1 .. Len(p) : k # i => q[k] = p[k]
  BY SetsLayer
<1> HIDE DEF q
<1>2. \A k \in 1 .. Len(p) : q[k].type = p[k].type
  BY <1>1
<1>3. \A k \in Int : TypeAt(q, k) = TypeAt(p, k)
  BY <1>1, <1>2 DEF TypeAt
<1> QED
  BY <1>3 DEF q

\* ars_compile() and the checksums run up to the first hole, which lies
\* behind a layer that is there.
LEMMA HoleAfter ==
  ASSUME NEW p \in Seq(Layer), NEW i \in 1 .. Len(p), p[i].type # "NULL"
  PROVE  Hole(p, i) \in i + 1 .. Len(p) + 1 /\ FirstNot(p, i + 1, "IPOPT") \in i + 1 .. Hole(p, i)
<1> DEFINE n == Len(p)
           S == {k \in i .. n + 1 : TypeAt(p, k) = "NULL"} \cup {n + 1}
           R == {k \in i + 1 .. n + 1 : TypeAt(p, k) # "IPOPT"} \cup {n + 1}
<1>1. n \in Nat /\ i \in 1 .. n /\ i \in Nat /\ n + 1 \in i + 1 .. n + 1
  BY LenProperties
<1>2. S \in SUBSET Nat /\ S # {} /\ R \in SUBSET Nat /\ R # {}
  <2> HIDE DEF n
  <2> QED
    BY <1>1
<1>3. Min(S) \in S
  <2> HIDE DEF S
  <2> QED
    BY <1>2, MinIn
<1>4. Min(R) \in R /\ \A k \in R : Min(R) <= k
  <2> HIDE DEF R
  <2> QED
    BY <1>2, MinIn
<1>5. Hole(p, i) = Min(S) /\ FirstNot(p, i + 1, "IPOPT") = Min(R)
  BY DEF Hole, FirstNot
<1> DEFINE h == Min(S)
           r == Min(R)
<1>6. TypeAt(p, i) = p[i].type
  BY DEF TypeAt
<1>7. h = n + 1 \/ (h \in i .. n + 1 /\ TypeAt(p, h) = "NULL")
  BY <1>3
<1>8. r = n + 1 \/ r \in i + 1 .. n + 1
  BY <1>4
<1> HIDE DEF h, r
<1>9. h # i
  <2> HIDE DEF n
  <2> QED
    BY <1>1, <1>6, <1>7
<1>10. h \in i + 1 .. n + 1
  <2> HIDE DEF n, S, R
  <2> QED
    BY <1>1, <1>7, <1>9
<1>11. h \in R
  <2> HIDE DEF n, S
  <2> QED
    BY <1>7, <1>10
<1>12. r <= h
  BY <1>4, <1>11 DEF r
<1>13. r \in i + 1 .. h
  <2> HIDE DEF n, S, R
  <2> QED
    BY <1>1, <1>8, <1>10, <1>12
<1> QED
  BY <1>5, <1>10, <1>13 DEF h, r

\* The chunks behind layer i, up to the hole.
Behind(p, i) == [k \in 1 .. Hole(p, i) - i - 1 |-> Bytes(p[i + k])]

\* Rewriting the buffer of layer i changes the first chunk from i on only.
LEMMA ChunksOfSets ==
  ASSUME NEW p \in Seq(Layer), NEW i \in 1 .. Len(p), p[i].type # "NULL",
         NEW d \in Seq(Byte), Len(d) = Len(p[i].data)
  PROVE  /\ Behind(p, i) \in Seq(Seq(Byte))
         /\ Chunks(Sets(p, i, d), i) = <<SubSeq(d, 1, p[i].size)>> \o Behind(p, i)
<1> DEFINE q == Sets(p, i, d)
           n == Len(p)
           h == Hole(p, i)
           B == Behind(p, i)
           V == Seq(Byte)
<1>1. n \in Nat /\ i \in 1 .. n /\ i \in Nat /\ h \in i + 1 .. n + 1
  BY LenProperties, HoleAfter
<1>2. /\ q \in Seq(Layer) /\ Len(q) = n /\ q[i].data = d /\ q[i].size = p[i].size
      /\ \A k \in 1 .. n : k # i => q[k] = p[k]
  BY SetsLayer
<1>3. Hole(q, i) = h
  <2>1. \A k \in Int : TypeAt(q, k) = TypeAt(p, k)
    BY SetsTypes
  <2>2. \A k \in i .. n + 1 : k \in Int
    BY <1>1
  <2>3. {k \in i .. n + 1 : TypeAt(q, k) = "NULL"} = {k \in i .. n + 1 : TypeAt(p, k) = "NULL"}
    BY <2>1, <2>2
  <2> QED
    BY <1>2, <2>3 DEF Hole
<1> HIDE DEF q, h, n
<1>4. /\ h - i \in Nat /\ h - i - 1 \in Nat /\ h - i = (h - i - 1) + 1
      /\ \A k \in 1 .. h - i - 1 : i + k \in 1 .. n /\ i + k # i
  BY <1>1
<1>5. \A k \in 1 .. h - i - 1 : Bytes(p[i + k]) \in V
  BY <1>4, BytesType, ElementOfSeq DEF n
<1> DEFINE m == h - i - 1
<1>6. B = [k \in 1 .. m |-> Bytes(p[i + k])]
  BY DEF Behind, h
<1> HIDE DEF B, V, m
<1>7. B \in Seq(V) /\ Len(B) = m /\ \A k \in 1 .. m : B[k] = Bytes(p[i + k])
  BY <1>4, <1>5, <1>6 DEF m
<1> DEFINE x == Bytes(q[i])
           o == <<x>>
           C == Chunks(q, i)
<1>8. x \in V /\ x = SubSeq(d, 1, p[i].size)
  <2>1. q[i] \in Layer
    BY <1>1, <1>2, ElementOfSeq
  <2> QED
    BY <1>2, <2>1, BytesType DEF V, Bytes
<1> HIDE DEF x
<1>9. o \in Seq(V) /\ Len(o) = 1 /\ o[1] = x
  <2>1. x \in V
    BY <1>8
  <2> QED
    BY <2>1
<1>10. C = [k \in 1 .. m + 1 |-> Bytes(q[i + k - 1])]
  BY <1>3, <1>4 DEF Chunks, m
<1> HIDE DEF o, C
<1> DEFINE u == o \o B
<1>11. /\ u \in Seq(V) /\ Len(u) = 1 + m
       /\ \A k \in 1 .. Len(o) : u[k] = o[k]
       /\ \A k \in 1 .. 1 + m : k > 1 => u[k] = B[k - 1]
  <2>1. o \in Seq(V) /\ B \in Seq(V)
    BY <1>7, <1>9
  <2>2. /\ u \in Seq(V) /\ Len(u) = Len(o) + Len(B)
        /\ \A k \in 1 .. Len(o) : u[k] = o[k]
        /\ \A k \in 1 .. Len(o) + Len(B) : k > Len(o) => u[k] = B[k - Len(o)]
    BY <2>1, ConcatParts
  <2> HIDE DEF u
  <2> QED
    BY <1>7, <1>9, <2>2
<1> HIDE DEF u
<1>12. ASSUME NEW k \in 1 .. m + 1 PROVE Bytes(q[i + k - 1]) = u[k]
  <2>1. m \in Nat
    BY <1>4 DEF m
  <2>2. CASE k = 1
    <3>1. i + k - 1 = i /\ 1 \in 1 .. Len(o)
      BY <1>1, <1>9, <2>2
    <3> QED
      BY <1>9, <1>11, <2>2, <3>1 DEF x
  <2>3. CASE k # 1
    <3>1. k - 1 \in 1 .. m /\ k > 1 /\ k \in 1 .. 1 + m /\ i + k - 1 = i + (k - 1)
      BY <2>1, <1>1, <2>3
    <3>2. u[k] = Bytes(p[i + (k - 1)])
      BY <1>7, <1>11, <3>1
    <3>3. i + (k - 1) \in 1 .. n /\ i + (k - 1) # i
      BY <1>4, <3>1 DEF m
    <3>4. q[i + (k - 1)] = p[i + (k - 1)]
      BY <1>2, <3>3
    <3> QED
      BY <3>1, <3>2, <3>4
  <2> QED
    BY <2>2, <2>3
<1>13. C = u
  <2>1. m \in Nat /\ 1 + m = m + 1
    BY <1>4 DEF m
  <2>2. u = [k \in 1 .. m + 1 |-> u[k]]
    BY <1>11, <2>1
  <2>3. [k \in 1 .. m + 1 |-> Bytes(q[i + k - 1])] = [k \in 1 .. m + 1 |-> u[k]]
    BY <1>12
  <2> QED
    BY <1>10, <2>2, <2>3
<1> QED
  BY <1>7, <1>8, <1>13 DEF B, V, C, u, o, x, q

\* The bytes from layer i on, after its buffer was rewritten.
LEMMA FlatOfSets ==
  ASSUME NEW p \in Seq(Layer), NEW i \in 1 .. Len(p), p[i].type # "NULL",
         p[i].size = Len(p[i].data), NEW d \in Seq(Byte), Len(d) = Len(p[i].data)
  PROVE  /\ Chunks(Sets(p, i, d), i) \in Seq(Seq(Byte))
         /\ FlattenSeq(Behind(p, i)) \in Seq(Byte)
         /\ FlattenSeq(Chunks(Sets(p, i, d), i)) = d \o FlattenSeq(Behind(p, i))
<1> DEFINE B == Behind(p, i)
           C == Chunks(Sets(p, i, d), i)
           o == <<d>>
           V == Seq(Byte)
<1>1. SubSeq(d, 1, Len(d)) = d
  BY SubSeqFull
<1>2. B \in Seq(Seq(Byte)) /\ C = o \o B
  BY <1>1, ChunksOfSets
<1>3. o \in Seq(Seq(Byte)) /\ FlattenSeq(o) = d
  BY FlattenOne
<1> HIDE DEF B, C, o
<1>4. FlattenSeq(o \o B) = FlattenSeq(o) \o FlattenSeq(B) /\ FlattenSeq(B) \in Seq(Byte)
  BY <1>2, <1>3, FlattenConcat
<1>5. o \o B \in Seq(V)
  <2>1. o \in Seq(V) /\ B \in Seq(V)
    BY <1>2, <1>3
  <2> HIDE DEF V
  <2> QED
    BY <2>1, ConcatProperties
<1> QED
  BY <1>2, <1>3, <1>4, <1>5 DEF B, C

\* Storing the sum over a layer and what is behind it makes them pass the check.
LEMMA SumAloneIsGood ==
  ASSUME NEW p \in Seq(Layer), NEW i \in 1 .. Len(p), p[i].type # "NULL",
         p[i].size = Len(p[i].data), NEW off \in Nat, off + 2 <= Len(p[i].data)
  PROVE  LET u == FlattenSeq(Chunks(SumAlone(p, i, off).p, i))
         IN  /\ u \in Seq(Byte) /\ Len(u) >= Len(p[i].data)
             /\ ars_cksum(Put(u, off, <<0, 0>>)) = Get16(u, off)
<1> DEFINE D == p[i].data
           z == Put(D, off, <<0, 0>>)
           q == Sets(p, i, z)
           F == FlattenSeq(Behind(p, i))
           sum == ars_multi_cksum(Chunks(q, i))
           w == Net(sum, 2)
           d == Put(z, off, w)
<1>1. p[i] \in Layer /\ D \in Seq(Byte)
  BY ElementOfSeq DEF Layer
<1>2. z \in Seq(Byte) /\ Len(z) = Len(D)
  <2> DEFINE e == D
  <2>1. e \in Seq(Byte) /\ off + 2 <= Len(e)
    BY <1>1
  <2> HIDE DEF e
  <2>2. Put(e, off, <<0, 0>>) \in Seq(Byte) /\ Len(Put(e, off, <<0, 0>>)) = Len(e)
    BY <2>1, PutZeros
  <2> QED
    BY <2>2 DEF e
<1> HIDE DEF z
<1>3. q[i].data = z
  BY <1>2, SetsLayer
<1>4. /\ Chunks(q, i) \in Seq(Seq(Byte)) /\ F \in Seq(Byte) /\ FlattenSeq(Chunks(q, i)) = z \o F
  BY <1>2, FlatOfSets
<1> HIDE DEF F
<1>5. sum = ars_cksum(z \o F)
  <2> DEFINE C == Chunks(q, i)
  <2>1. C \in Seq(Seq(Byte)) /\ FlattenSeq(C) = z \o F
    BY <1>4
  <2> HIDE DEF C
  <2>2. ars_multi_cksum(C) = ars_cksum(FlattenSeq(C))
    BY <2>1, ChunksDoNotMatter
  <2> QED
    BY <2>1, <2>2 DEF C
<1>6. SumAlone(p, i, off).p = Sets(p, i, d)
  BY <1>3 DEF SumAlone, Ok, z
<1> HIDE DEF sum, q
<1>7. sum \in Nat /\ sum <= 65535
  <2> DEFINE y == z \o F
  <2>1. y \in Seq(Byte)
    BY <1>2, <1>4, ConcatProperties
  <2> HIDE DEF y
  <2>2. ars_cksum(y) \in Nat /\ ars_cksum(y) <= 65535
    BY <2>1, CksumRange
  <2> QED
    BY <1>5, <2>2 DEF y
<1>8. w \in Seq(Byte) /\ Len(w) = 2
  BY <1>7, NetWord
<1> HIDE DEF w
<1>9. d \in Seq(Byte) /\ Len(d) = Len(D)
  BY <1>2, <1>8, PutType
<1> HIDE DEF d
<1>10. FlattenSeq(Chunks(Sets(p, i, d), i)) = d \o F
  BY <1>9, FlatOfSets DEF F
<1> DEFINE u == d \o F
<1>11. u \in Seq(Byte) /\ ars_cksum(Put(u, off, <<0, 0>>)) = Get16(u, off)
  <2> DEFINE e == D
  <2>1. e \in Seq(Byte) /\ off + 2 <= Len(e)
    BY <1>1
  <2>2. /\ z = Put(e, off, <<0, 0>>)
        /\ u = Put(z, off, Net(ars_cksum(z \o F), 2)) \o F
    BY <1>5 DEF z, d, w
  <2> HIDE DEF e, u
  <2> QED
    BY <1>4, <2>1, <2>2, StoredIsGood
<1>12. Len(u) >= Len(D)
  <2>1. Len(u) = Len(d) + Len(F) /\ Len(F) \in Nat /\ Len(d) \in Nat
    BY <1>4, <1>9, ConcatProperties, LenProperties
  <2> HIDE DEF u
  <2> QED
    BY <1>9, <2>1
<1> HIDE DEF u
<1>13. FlattenSeq(Chunks(SumAlone(p, i, off).p, i)) = u
  BY <1>6, <1>10 DEF u
<1> QED
  BY <1>11, <1>12, <1>13

\* What the compiler sums the dissector accepts (ars_compiler_icmp(),
\* ars_check_icmp_cksum()): an ICMP header and whatever layers are behind it,
\* of any sizes, pass the check once the header is compiled.
THEOREM CompiledMessageIsGood ==
  \A p \in Seq(Layer) : \A i \in 1 .. Len(p) :
    p[i].type = "ICMP" /\ p[i].size = Len(p[i].data) /\ p[i].size >= 4 /\ "CKSUM" \notin p[i].flags =>
      ars_check_icmp_cksum(FlattenSeq(Chunks(ars_compiler_icmp(p, i).p, i)))
<1>1. SUFFICES ASSUME NEW p \in Seq(Layer), NEW i \in 1 .. Len(p), p[i].type = "ICMP",
                      p[i].size = Len(p[i].data), p[i].size >= 4, "CKSUM" \notin p[i].flags
               PROVE  ars_check_icmp_cksum(FlattenSeq(Chunks(ars_compiler_icmp(p, i).p, i)))
  OBVIOUS
<1> DEFINE off == 2
           u == FlattenSeq(Chunks(SumAlone(p, i, off).p, i))
           n == Len(p[i].data)
<1>2. ars_compiler_icmp(p, i) = SumAlone(p, i, off)
  BY <1>1 DEF ars_compiler_icmp
<1>3. n \in Nat /\ n >= 4
  <2>1. p[i] \in Layer
    BY <1>1, ElementOfSeq
  <2> QED
    BY <1>1, <2>1, LenProperties DEF Layer
<1>4. off \in Nat /\ off + 2 <= n
  BY <1>3
<1>5. p[i].type # "NULL"
  BY <1>1
<1> HIDE DEF off
<1>6. u \in Seq(Byte) /\ Len(u) >= n /\ ars_cksum(Put(u, off, <<0, 0>>)) = Get16(u, off)
  BY <1>1, <1>4, <1>5, SumAloneIsGood
<1> HIDE DEF u, n
<1>7. Len(u) >= 4
  BY <1>3, <1>6, LenProperties
<1>8. ars_check_icmp_cksum(u)
  BY <1>6, <1>7 DEF ars_check_icmp_cksum, off
<1> QED
  BY <1>2, <1>8 DEF u

\* Any number is cut down to the bytes of its field (htons(), htonl()).
LEMMA NetBytes ==
  ASSUME NEW c \in Nat, NEW m \in 1 .. 4
  PROVE  Net(c, m) \in Seq(Byte) /\ Len(Net(c, m)) = m
<1> DEFINE w == <<1, 256, 65536, 16777216>>
           f == [k \in 1 .. m |-> (c \div w[m - k + 1]) % 256]
<1>1. \A k \in 1 .. m : w[m - k + 1] \in {1, 256, 65536, 16777216}
  <2>1. \A k \in 1 .. 4 : w[k] \in {1, 256, 65536, 16777216}
    <3>1. w[1] = 1 /\ w[2] = 256 /\ w[3] = 65536 /\ w[4] = 16777216
      OBVIOUS
    <3>2. \A k \in 1 .. 4 : k = 1 \/ k = 2 \/ k = 3 \/ k = 4
      OBVIOUS
    <3> HIDE DEF w
    <3> QED
      BY <3>1, <3>2
  <2> HIDE DEF w
  <2> QED
    BY <2>1
<1>2. Net(c, m) = f
  BY DEF Net
<1>3. ASSUME NEW v \in {1, 256, 65536, 16777216} PROVE (c \div v) % 256 \in Byte
  <2> DEFINE d == c \div v
  <2>1. d \in Int
    <3>1. CASE v = 1
      BY <3>1
    <3>2. CASE v = 256
      BY <3>2
    <3>3. CASE v = 65536
      BY <3>3
    <3>4. CASE v = 16777216
      BY <3>4
    <3> QED
      BY <3>1, <3>2, <3>3, <3>4
  <2> HIDE DEF d
  <2>2. d % 256 \in Byte
    BY <2>1 DEF Byte
  <2> QED
    BY <2>2 DEF d
<1> DEFINE e(k) == (c \div w[m - k + 1]) % 256
<1>4. \A k \in 1 .. m : e(k) \in Byte
  <2> HIDE DEF w
  <2> QED
    BY <1>1, <1>3
<1>5. f = [k \in 1 .. m |-> e(k)] /\ m \in Nat
  OBVIOUS
<1> HIDE DEF e, f
<1>6. f \in Seq(Byte) /\ Len(f) = m
  BY <1>4, <1>5
<1> QED
  BY <1>2, <1>6

\* A length field: the low 16 bits.
LEMMA NetType ==
  ASSUME NEW c \in Nat
  PROVE  Net(c, 2) \in Seq(Byte) /\ Len(Net(c, 2)) = 2
BY NetBytes

\* What other bytes a write to one byte leaves alone.
LEMMA PutByte ==
  ASSUME NEW d \in Seq(Byte), NEW off \in Nat, NEW x \in Byte, off < Len(d)
  PROVE  /\ Put(d, off, <<x>>) \in Seq(Byte) /\ Len(Put(d, off, <<x>>)) = Len(d)
         /\ Put(d, off, <<x>>)[off + 1] = x
         /\ \A i \in 1 .. Len(d) : i # off + 1 => Put(d, off, <<x>>)[i] = d[i]
<1> DEFINE o == <<x>>
<1>1. Len(o) = 1 /\ o[1] = x
  OBVIOUS
<1>2. Put(d, off, o) \in Seq(Byte) /\ Len(Put(d, off, o)) = Len(d)
  BY PutOne
<1> HIDE DEF o
<1>3. \A i \in 1 .. Len(d) : Put(d, off, o)[i] = IF i - off \in 1 .. Len(o) THEN o[i - off] ELSE d[i]
  BY DEF Put
<1>4. off + 1 \in 1 .. Len(d) /\ (off + 1) - off = 1 /\ 1 \in 1 .. Len(o)
  BY <1>1, LenProperties
<1>5. \A i \in 1 .. Len(d) : i # off + 1 => i - off \notin 1 .. Len(o)
  BY <1>1, LenProperties
<1>6. Put(d, off, o)[off + 1] = x
  BY <1>1, <1>3, <1>4
<1>7. \A i \in 1 .. Len(d) : i # off + 1 => Put(d, off, o)[i] = d[i]
  BY <1>3, <1>5
<1> QED
  BY <1>2, <1>6, <1>7 DEF o

\* The sizes of a run of layers, and the size of everything up to the hole.
LEMMA RunSizeType ==
  ASSUME NEW p \in Seq(Layer), NEW i \in Nat, NEW k \in Nat, 1 <= i, k <= Len(p)
  PROVE  RunSize(p, i, k) \in Nat
<1> DEFINE m == k - i + 1
           e(x) == p[i + x - 1].size
           s == [x \in 1 .. m |-> e(x)]
<1>1. Len(p) \in Nat /\ m \in Int /\ \A x \in 1 .. m : i + x - 1 \in 1 .. Len(p)
  BY LenProperties
<1>2. \A x \in 1 .. m : e(x) \in Nat
  <2>1. ASSUME NEW x \in 1 .. m PROVE e(x) \in Nat
    <3>1. p[i + x - 1] \in Layer
      BY <1>1, ElementOfSeq
    <3> QED
      BY <3>1 DEF Layer
  <2> QED
    BY <2>1
<1>3. RunSize(p, i, k) = Total(s)
  BY DEF RunSize
<1> HIDE DEF m, e
<1>4. s \in Seq(Nat)
  <2>1. CASE m \in Nat
    BY <2>1, <1>2
  <2>2. CASE m \notin Nat
    <3>1. 1 .. m = {}
      BY <1>1, <2>2
    <3>2. s = << >>
      BY <3>1
    <3> QED
      BY <3>2, EmptySeq
  <2> QED
    BY <2>1, <2>2
<1> HIDE DEF s
<1>5. Total(s) \in Nat
  BY <1>4, TotalConcat
<1> QED
  BY <1>3, <1>5

\* The options are what is behind the header first.
OptionChunks(p, i) ==
  [k \in 1 .. FirstNot(p, i + 1, "IPOPT") - i - 1 |-> Bytes(p[i + k])]

\* They are counted in bytes by RunSize(), as ihl needs them.
LEMMA OptionsBehind ==
  ASSUME NEW p \in Seq(Layer), NEW i \in 1 .. Len(p), p[i].type # "NULL"
  PROVE  /\ OptionChunks(p, i) \in Seq(Seq(Byte))
         /\ Len(FlattenSeq(OptionChunks(p, i))) = RunSize(p, i + 1, FirstNot(p, i + 1, "IPOPT") - 1)
         /\ \E more \in Seq(Seq(Byte)) : Behind(p, i) = OptionChunks(p, i) \o more
<1> DEFINE n == Len(p)
           h == Hole(p, i)
           r == FirstNot(p, i + 1, "IPOPT")
           V == Seq(Byte)
           m == r - i - 1
           O == OptionChunks(p, i)
           B == Behind(p, i)
<1>1. n \in Nat /\ i \in 1 .. n /\ i \in Nat /\ h \in i + 1 .. n + 1 /\ r \in i + 1 .. h
  BY LenProperties, HoleAfter
<1> HIDE DEF n, h, r
<1>2. /\ m \in Nat /\ h - r \in Nat /\ h - i - 1 = m + (h - r)
      /\ (\A k \in 1 .. m : i + k \in 1 .. n) /\ \A k \in 1 .. h - r : r + k - 1 \in 1 .. n
  BY <1>1
<1>3. \A k \in 1 .. n : Bytes(p[k]) \in V /\ Len(Bytes(p[k])) = p[k].size
  BY BytesType, ElementOfSeq DEF n
<1>4. O = [k \in 1 .. m |-> Bytes(p[i + k])]
  BY DEF OptionChunks, r
<1>5. B = [k \in 1 .. m + (h - r) |-> Bytes(p[i + k])]
  BY <1>2 DEF Behind, h
<1> HIDE DEF O, B, V, m
<1>6. O \in Seq(V) /\ Len(O) = m /\ \A k \in 1 .. m : O[k] = Bytes(p[i + k])
  <2>1. \A k \in 1 .. m : Bytes(p[i + k]) \in V
    BY <1>2, <1>3
  <2> QED
    BY <1>2, <1>4, <2>1
<1> DEFINE g == h - r
           M == [k \in 1 .. g |-> Bytes(p[r + k - 1])]
<1>7. g \in Nat
  BY <1>2
<1>8. \A k \in 1 .. g : Bytes(p[r + k - 1]) \in V
  BY <1>2, <1>3
<1> HIDE DEF g
<1>9. M \in Seq(V) /\ Len(M) = g /\ \A k \in 1 .. g : M[k] = Bytes(p[r + k - 1])
  BY <1>7, <1>8
<1> HIDE DEF M
<1> DEFINE u == O \o M
<1>10. /\ u \in Seq(V) /\ Len(u) = m + g
       /\ \A k \in 1 .. m : u[k] = O[k]
       /\ \A k \in 1 .. m + g : k > m => u[k] = M[k - m]
  <2>1. O \in Seq(V) /\ M \in Seq(V)
    BY <1>6, <1>9
  <2>2. /\ u \in Seq(V) /\ Len(u) = Len(O) + Len(M)
        /\ \A k \in 1 .. Len(O) : u[k] = O[k]
        /\ \A k \in 1 .. Len(O) + Len(M) : k > Len(O) => u[k] = M[k - Len(O)]
    BY <2>1, ConcatParts
  <2> HIDE DEF u
  <2> QED
    BY <1>6, <1>9, <2>2
<1> HIDE DEF u
<1>11. ASSUME NEW k \in 1 .. m + g PROVE Bytes(p[i + k]) = u[k]
  <2>1. m \in Nat
    BY <1>2
  <2>2. CASE k > m
    <3>1. k - m \in 1 .. g /\ r + (k - m) - 1 = i + k
      BY <1>1, <1>7, <2>1, <2>2 DEF m
    <3> QED
      BY <1>9, <1>10, <2>2, <3>1
  <2>3. CASE ~ (k > m)
    <3>1. k \in 1 .. m
      BY <1>7, <2>1, <2>3
    <3> QED
      BY <1>6, <1>10, <3>1
  <2> QED
    BY <2>2, <2>3
<1>12. B = u
  <2>1. u = [k \in 1 .. m + g |-> u[k]]
    BY <1>10
  <2>2. [k \in 1 .. m + g |-> Bytes(p[i + k])] = [k \in 1 .. m + g |-> u[k]]
    BY <1>11
  <2> QED
    BY <1>5, <2>1, <2>2 DEF g
<1>13. Len(FlattenSeq(O)) = RunSize(p, i + 1, r - 1)
  <2>1. Lens(O) = [k \in 1 .. m |-> Len(O[k])]
    BY <1>6 DEF Lens
  <2>2. \A k \in 1 .. m : Len(O[k]) = p[i + k].size
    BY <1>2, <1>3, <1>6
  <2>3. (r - 1) - (i + 1) + 1 = m /\ \A k \in 1 .. m : (i + 1) + k - 1 = i + k
    BY <1>1, <1>2 DEF m
  <2>4. RunSize(p, i + 1, r - 1) = Total([k \in 1 .. m |-> p[(i + 1) + k - 1].size])
    BY <2>3 DEF RunSize
  <2>5. [k \in 1 .. m |-> p[(i + 1) + k - 1].size] = [k \in 1 .. m |-> Len(O[k])]
    BY <2>2, <2>3
  <2>6. Len(FlattenSeq(O)) = Total(Lens(O))
    <3>1. O \in Seq(Seq(Byte))
      BY <1>6 DEF V
    <3> QED
      BY <3>1, FlattenLen
  <2> QED
    BY <2>1, <2>4, <2>5, <2>6
<1> QED
  BY <1>6, <1>9, <1>12, <1>13 DEF O, B, u, V, r

\* Everything up to the hole has a size.
LEMMA RelativeSizeType ==
  ASSUME NEW p \in Seq(Layer), NEW i \in 1 .. Len(p), p[i].type # "NULL"
  PROVE  ars_relative_size(p, i) \in Nat
<1> DEFINE h == Hole(p, i)
           k == h - 1
<1>1. Len(p) \in Nat /\ i \in Nat /\ 1 <= i /\ h \in i + 1 .. Len(p) + 1
  BY LenProperties, HoleAfter
<1>2. k \in Nat /\ k <= Len(p)
  <2> HIDE DEF h
  <2> QED
    BY <1>1
<1> HIDE DEF k
<1>3. RunSize(p, i, k) \in Nat
  BY <1>1, <1>2, RunSizeType
<1> QED
  BY <1>3 DEF ars_relative_size, k, h

\* The length of the header in its first byte.
LEMMA LengthNibble ==
  ASSUME NEW v \in Nat, v <= 15, NEW R \in Nat, R <= 40, R % 4 = 0
  PROVE  LET ihl == (5 + R \div 4) % 16
         IN  16 * v + ihl \in Byte /\ 4 * Low(16 * v + ihl) = 20 + R
<1> DEFINE a == R \div 4
           ihl == (5 + a) % 16
           y == 16 * v + ihl
<1>1. a \in Nat /\ a <= 10 /\ R = 4 * a
  OBVIOUS
<1> HIDE DEF a
<1>2. ihl = 5 + a
  BY <1>1
<1> HIDE DEF ihl
<1>3. y \in Nat /\ y <= 255
  BY <1>1, <1>2
<1>4. y % 16 = ihl
  BY <1>1, <1>2
<1>5. y \in Byte
  BY <1>3 DEF Byte
<1>6. 4 * (y % 16) = 20 + R
  BY <1>1, <1>2, <1>4
<1> QED
  BY <1>5, <1>6 DEF Low, a, ihl

\* What ars_compiler_ip() fills in before the checksum.
LEMMA FilledHeader ==
  ASSUME NEW p \in Seq(Layer), NEW i \in 1 .. Len(p), p[i].type = "IP",
         p[i].size = 20, Len(p[i].data) = 20,
         "HDRLEN" \notin p[i].flags, "CKSUM" \notin p[i].flags,
         NEW R \in Nat, R = RunSize(p, i + 1, FirstNot(p, i + 1, "IPOPT") - 1),
         R <= 40, R % 4 = 0
  PROVE  \E d \in Seq(Byte) :
           LET z == Put(d, 10, <<0, 0>>)
               sum == ars_multi_cksum(<<SubSeq(z, 1, 20)>> \o OptionChunks(p, i))
           IN  /\ Len(d) = 20 /\ 4 * Low(d[1]) = 20 + R
               /\ ars_compiler_ip(p, i).p = Sets(p, i, Put(z, 10, Net(sum, 2)))
<1> DEFINE l == p[i]
           computed(f) == f \notin l.flags
           last == FirstNot(p, i + 1, "IPOPT")
           ver  == IF computed("VERSION") THEN 4 ELSE High(l.data[1])
           ihl  == (5 + R \div 4) % 16
           b1 == 16 * ver + ihl
           next == FirstNot(p, last, "IPOPT")
           proto == IpProtocol(TypeAt(p, next))
           len == Net(ars_relative_size(p, i), 2)
           d1 == Put(l.data, 0, <<b1>>)
           d2 == IF computed("TOTLEN") THEN Put(d1, 2, len) ELSE d1
           d3 == IF computed("PROTOCOL") THEN Put(d2, 9, <<proto>>) ELSE d2
           z == Put(d3, 10, <<0, 0>>)
           O == OptionChunks(p, i)
           sum == ars_multi_cksum(<<SubSeq(z, 1, 20)>> \o O)
<1>1. l \in Layer /\ l.data \in Seq(Byte)
  BY ElementOfSeq DEF Layer
<1>2. ars_compiler_ip(p, i).p = Sets(p, i, Put(z, 10, Net(sum, 2)))
  BY DEF ars_compiler_ip, Ok, OptionChunks
<1>3. ver \in Nat /\ ver <= 15
  <2>1. 1 \in 1 .. Len(l.data)
    OBVIOUS
  <2>2. l.data[1] \in Byte
    BY <1>1, <2>1, ElementOfSeq
  <2> DEFINE h == High(l.data[1])
  <2>3. h \in 0 .. 15
    BY <2>2, Nibbles
  <2> HIDE DEF h
  <2>4. h \in Nat /\ h <= 15
    BY <2>3
  <2>5. ver = 4 \/ ver = h
    BY DEF h
  <2> HIDE DEF ver
  <2> QED
    BY <2>4, <2>5
<1>4. b1 \in Byte /\ 4 * Low(b1) = 20 + R
  <2> HIDE DEF ver
  <2> QED
    BY <1>3, LengthNibble
<1>5. proto \in Byte
  BY DEF IpProtocol, Byte
<1>6. len \in Seq(Byte) /\ Len(len) = 2
  <2> DEFINE c == ars_relative_size(p, i)
  <2>1. c \in Nat
    BY RelativeSizeType
  <2> HIDE DEF c
  <2>2. Net(c, 2) \in Seq(Byte) /\ Len(Net(c, 2)) = 2
    BY <2>1, NetType
  <2> QED
    BY <2>2 DEF c
<1> HIDE DEF b1, proto, len, l, ihl, ver
<1>7. d1 \in Seq(Byte) /\ Len(d1) = 20 /\ d1[1] = b1
  <2> DEFINE e == l.data
             off == 0
  <2>1. e \in Seq(Byte) /\ Len(e) = 20 /\ off \in Nat /\ off < Len(e) /\ off + 1 = 1
    BY <1>1 DEF l
  <2> HIDE DEF e, off
  <2>2. b1 \in Byte /\ e \in Seq(Byte) /\ off \in Nat /\ off < Len(e)
    BY <1>4, <2>1
  <2>3. /\ Put(e, off, <<b1>>) \in Seq(Byte) /\ Len(Put(e, off, <<b1>>)) = Len(e)
        /\ Put(e, off, <<b1>>)[off + 1] = b1
    BY <2>2, PutByte
  <2> QED
    BY <2>1, <2>3 DEF e, off
<1> HIDE DEF d1
<1>8. d2 \in Seq(Byte) /\ Len(d2) = 20 /\ d2[1] = b1
  <2> DEFINE off == 2
             e == Put(d1, off, len)
  <2>1. off \in Nat /\ off + 2 <= Len(d1) /\ 1 \notin {off + 1, off + 2} /\ 1 \in 1 .. Len(d1)
    BY <1>7
  <2> HIDE DEF off
  <2>2. d1 \in Seq(Byte) /\ off \in Nat /\ off + 2 <= Len(d1) /\ len \in Seq(Byte) /\ Len(len) = 2
    BY <1>6, <1>7, <2>1
  <2>3. /\ e \in Seq(Byte) /\ Len(e) = Len(d1)
        /\ \A k \in 1 .. Len(d1) : k \notin {off + 1, off + 2} => e[k] = d1[k]
    BY <2>2, PutWord
  <2>4. e \in Seq(Byte) /\ Len(e) = Len(d1) /\ e[1] = d1[1]
    <3> HIDE DEF e
    <3> QED
      BY <2>1, <2>3
  <2> HIDE DEF e
  <2>5. e \in Seq(Byte) /\ Len(e) = 20 /\ e[1] = b1
    BY <1>7, <2>4
  <2>6. d2 = e \/ d2 = d1
    BY DEF e, off
  <2> HIDE DEF d2
  <2> QED
    BY <1>7, <2>5, <2>6
<1> HIDE DEF d2
<1>9. d3 \in Seq(Byte) /\ Len(d3) = 20 /\ d3[1] = b1
  <2> DEFINE off == 9
             e == Put(d2, off, <<proto>>)
  <2>1. off \in Nat /\ off < Len(d2) /\ 1 # off + 1 /\ 1 \in 1 .. Len(d2)
    BY <1>8
  <2> HIDE DEF off
  <2>2. d2 \in Seq(Byte) /\ off \in Nat /\ off < Len(d2) /\ proto \in Byte
    BY <1>5, <1>8, <2>1
  <2>3. /\ e \in Seq(Byte) /\ Len(e) = Len(d2)
        /\ \A k \in 1 .. Len(d2) : k # off + 1 => e[k] = d2[k]
    <3> HIDE DEF d2
    <3>1. /\ Put(d2, off, <<proto>>) \in Seq(Byte) /\ Len(Put(d2, off, <<proto>>)) = Len(d2)
          /\ Put(d2, off, <<proto>>)[off + 1] = proto
          /\ \A k \in 1 .. Len(d2) : k # off + 1 => Put(d2, off, <<proto>>)[k] = d2[k]
      BY <2>2, PutByte, SMTT(30)
    <3> QED
      BY <3>1
  <2>4. e \in Seq(Byte) /\ Len(e) = Len(d2) /\ e[1] = d2[1]
    <3> HIDE DEF e
    <3> QED
      BY <2>1, <2>3
  <2> HIDE DEF e
  <2>5. e \in Seq(Byte) /\ Len(e) = 20 /\ e[1] = b1
    BY <1>8, <2>4
  <2>6. d3 = e \/ d3 = d2
    BY DEF e, off
  <2> HIDE DEF d3
  <2> QED
    BY <1>8, <2>5, <2>6
<1> HIDE DEF d3
<1> QED
  BY <1>2, <1>4, <1>9

\* What the compiler sums the dissector accepts (ars_compiler_ip(),
\* ars_check_ip_cksum()): a compiled IP header passes the check that the
\* dissector makes of the bytes that are sent, with the options that follow
\* it in their own layers, of any sizes that fill whole words, and whatever
\* is behind them.
THEOREM CompiledHeaderIsGood ==
  \A p \in Seq(Layer) : \A i \in 1 .. Len(p) :
    LET R == RunSize(p, i + 1, FirstNot(p, i + 1, "IPOPT") - 1)
    IN  /\ p[i].type = "IP" /\ p[i].size = 20 /\ Len(p[i].data) = 20
        /\ "HDRLEN" \notin p[i].flags /\ "CKSUM" \notin p[i].flags
        /\ R <= 40 /\ R % 4 = 0
        => ars_check_ip_cksum(FlattenSeq(Chunks(ars_compiler_ip(p, i).p, i)))
<1> DEFINE Run(p, i) == RunSize(p, i + 1, FirstNot(p, i + 1, "IPOPT") - 1)
<1>1. SUFFICES ASSUME NEW p \in Seq(Layer), NEW i \in 1 .. Len(p), p[i].type = "IP", p[i].size = 20,
                      Len(p[i].data) = 20, "HDRLEN" \notin p[i].flags, "CKSUM" \notin p[i].flags,
                      Run(p, i) <= 40, Run(p, i) % 4 = 0
               PROVE  ars_check_ip_cksum(FlattenSeq(Chunks(ars_compiler_ip(p, i).p, i)))
  OBVIOUS
<1> DEFINE R == Run(p, i)
           O == OptionChunks(p, i)
           F == FlattenSeq(O)
           B == Behind(p, i)
<1>2. p[i].type # "NULL"
  BY <1>1
<1>3. PICK more \in Seq(Seq(Byte)) : B = O \o more
  BY <1>2, OptionsBehind
<1>4. O \in Seq(Seq(Byte)) /\ Len(F) = R
  BY <1>2, OptionsBehind
<1> HIDE DEF O
<1>5. F \in Seq(Byte)
  BY <1>4, FlattenLen
<1>6. R \in Nat
  BY <1>4, <1>5, LenProperties
<1>7. PICK d \in Seq(Byte) :
        LET z == Put(d, 10, <<0, 0>>)
            sum == ars_multi_cksum(<<SubSeq(z, 1, 20)>> \o O)
        IN  /\ Len(d) = 20 /\ 4 * Low(d[1]) = 20 + R
            /\ ars_compiler_ip(p, i).p = Sets(p, i, Put(z, 10, Net(sum, 2)))
  <2>1. R = RunSize(p, i + 1, FirstNot(p, i + 1, "IPOPT") - 1) /\ R <= 40 /\ R % 4 = 0
    BY <1>1
  <2> HIDE DEF R
  <2> QED
    BY <1>1, <1>6, <2>1, FilledHeader DEF O
<1> HIDE DEF R
<1> DEFINE off == 10
           z == Put(d, off, <<0, 0>>)
           o == <<SubSeq(z, 1, 20)>>
           sum == ars_multi_cksum(o \o O)
           x == Put(z, off, Net(sum, 2))
           G == FlattenSeq(more)
<1>8. Len(d) = 20 /\ 4 * Low(d[1]) = 20 + R /\ ars_compiler_ip(p, i).p = Sets(p, i, x)
  BY <1>7
<1>9. off \in Nat /\ off + 2 <= Len(d) /\ 1 \in 1 .. Len(d) /\ 1 \notin {off + 1, off + 2} /\ off = 10
  BY <1>8
<1> HIDE DEF off
<1>10. z \in Seq(Byte) /\ Len(z) = 20 /\ z[1] = d[1]
  <2>1. /\ z \in Seq(Byte) /\ Len(z) = Len(d)
        /\ \A k \in 1 .. Len(d) : z[k] = IF k \in {off + 1, off + 2} THEN 0 ELSE d[k]
    BY <1>9, PutZeros
  <2> HIDE DEF z
  <2> QED
    BY <1>8, <1>9, <2>1
<1> HIDE DEF z
<1>11. o \in Seq(Seq(Byte)) /\ FlattenSeq(o) = z
  <2>1. SubSeq(z, 1, 20) = z
    BY <1>10, SubSeqFull
  <2>2. o = <<z>>
    BY <2>1
  <2> HIDE DEF o
  <2> QED
    BY <1>10, <2>2, FlattenOne
<1> HIDE DEF o
<1>12. sum = ars_cksum(z \o F)
  <2> DEFINE C == o \o O
             V == Seq(Byte)
  <2>1. C \in Seq(V)
    <3>1. o \in Seq(V) /\ O \in Seq(V)
      BY <1>4, <1>11
    <3> HIDE DEF V
    <3> QED
      BY <3>1, ConcatProperties
  <2>2. FlattenSeq(C) = z \o F
    BY <1>4, <1>11, FlattenConcat
  <2> HIDE DEF C
  <2>3. ars_multi_cksum(C) = ars_cksum(FlattenSeq(C))
    BY <2>1, ChunksDoNotMatter
  <2> QED
    BY <2>2, <2>3 DEF C
<1> HIDE DEF sum, F
<1> DEFINE u == x \o F
<1>13. u \in Seq(Byte) /\ ars_cksum(Put(u, off, <<0, 0>>)) = Get16(u, off)
  <2>1. u = Put(z, off, Net(ars_cksum(z \o F), 2)) \o F
    BY <1>12
  <2>2. z = Put(d, off, <<0, 0>>)
    BY DEF z
  <2> HIDE DEF u
  <2> QED
    BY <1>5, <1>9, <2>1, <2>2, StoredIsGood
<1>14. x \in Seq(Byte) /\ Len(x) = 20 /\ x[1] = d[1]
  <2> DEFINE w == Net(sum, 2)
  <2>1. sum \in Nat /\ sum <= 65535
    <3> DEFINE y == z \o F
    <3>1. y \in Seq(Byte)
      BY <1>5, <1>10, ConcatProperties
    <3> HIDE DEF y
    <3>2. ars_cksum(y) \in Nat /\ ars_cksum(y) <= 65535
      BY <3>1, CksumRange
    <3> QED
      BY <1>12, <3>2 DEF y
  <2>2. w \in Seq(Byte) /\ Len(w) = 2
    BY <2>1, NetType
  <2> HIDE DEF w
  <2>3. off + 2 <= Len(z) /\ 1 \in 1 .. Len(z)
    BY <1>8, <1>9, <1>10
  <2> DEFINE e == Put(z, off, w)
  <2>4. z \in Seq(Byte) /\ off \in Nat /\ off + 2 <= Len(z) /\ w \in Seq(Byte) /\ Len(w) = 2
    BY <1>9, <1>10, <2>2, <2>3
  <2>5. /\ e \in Seq(Byte) /\ Len(e) = Len(z)
        /\ \A k \in 1 .. Len(z) : k \notin {off + 1, off + 2} => e[k] = z[k]
    BY <2>4, PutWord
  <2>6. x = e
    BY DEF w
  <2> HIDE DEF e, x
  <2>7. e[1] = z[1]
    BY <1>9, <2>3, <2>5
  <2> QED
    BY <1>10, <2>5, <2>6, <2>7
<1> HIDE DEF x
<1> DEFINE S == FlattenSeq(Chunks(Sets(p, i, x), i))
<1>15. S = x \o FlattenSeq(B)
  <2>1. p[i].size = Len(p[i].data) /\ Len(x) = Len(p[i].data)
    BY <1>1, <1>14
  <2> QED
    BY <1>2, <1>14, <2>1, FlatOfSets
<1>16. FlattenSeq(B) = F \o G /\ G \in Seq(Byte)
  <2>1. FlattenSeq(O \o more) = FlattenSeq(O) \o FlattenSeq(more) /\ FlattenSeq(more) \in Seq(Byte)
    BY <1>4, FlattenConcat
  <2> QED
    BY <1>3, <2>1 DEF F
<1> HIDE DEF B, G, S
<1>17. S = u \o G
  <2>1. (x \o F) \o G = x \o (F \o G)
    <3>1. F \in Seq(Byte) /\ x \in Seq(Byte) /\ G \in Seq(Byte)
      BY <1>5, <1>14, <1>16 DEF F
    <3> HIDE DEF F
    <3>2. Associates(x, F, G)
      BY <3>1, ConcatAssociates
    <3> QED
      BY <3>2 DEF Associates
  <2> QED
    BY <1>15, <1>16, <2>1
<1>18. u \in Seq(Byte) /\ Len(u) = 20 + R /\ u[1] = d[1]
  <2>1. /\ Len(u) = Len(x) + Len(F)
        /\ \A k \in 1 .. Len(x) : u[k] = x[k]
    <3>1. x \in Seq(Byte) /\ F \in Seq(Byte)
      BY <1>5, <1>14 DEF F
    <3> HIDE DEF F
    <3>2. Joined(u, x, F)
      BY <3>1, JoinedParts
    <3> HIDE DEF u
    <3> QED
      BY <3>2 DEF Joined
  <2> HIDE DEF u
  <2>2. Len(x) = 20 /\ Len(F) = R /\ 1 \in 1 .. Len(x)
    BY <1>4, <1>14
  <2>3. Len(u) = 20 + R /\ u[1] = x[1]
    BY <2>1, <2>2
  <2> QED
    BY <1>13, <1>14, <2>3
<1> HIDE DEF u
<1>19. SubSeq(S, 1, 20 + R) = u /\ S[1] = u[1]
  <2>1. SubSeq(u \o G, 1, Len(u)) = u
    <3> DEFINE m == 1
               k == Len(u)
    <3>1. m \in 1 .. Len(u) /\ k \in 1 .. Len(u)
      BY <1>6, <1>18
    <3>2. SubSeq(u, 1, Len(u)) = u
      BY <1>18, SubSeqFull
    <3> HIDE DEF m, k
    <3>3. SubSeq(u \o G, m, k) = SubSeq(u, m, k)
      BY <1>16, <1>18, <3>1, SubSeqOfConcat1
    <3> QED
      BY <3>2, <3>3 DEF m, k
  <2>2. \A k \in 1 .. Len(u) : (u \o G)[k] = u[k]
    BY <1>16, <1>18, ConcatParts
  <2>3. 1 \in 1 .. Len(u)
    BY <1>6, <1>18
  <2> QED
    BY <1>17, <1>18, <2>1, <2>2, <2>3
<1>20. 4 * Low(S[1]) = 20 + R
  BY <1>8, <1>18, <1>19
<1> DEFINE n == 4 * Low(S[1])
           hdr == SubSeq(S, 1, n)
<1>21. n >= 20
  BY <1>6, <1>20
<1>22. hdr = u
  BY <1>19, <1>20
<1>23. ars_check_ip_cksum(S)
  BY <1>9, <1>13, <1>21, <1>22 DEF ars_check_ip_cksum
<1> QED
  BY <1>8, <1>23 DEF S

-----------------------------------------------------------------------------
(* The sums with a pseudo header.                                          *)

\* The header summed in front of layer i.
Pseudo(p, i) ==
  IF p[i].type = "ICMP6" THEN ars_ip6_pseudo(p, i, 58) ELSE ars_udptcp_pseudo(p, i)

\* The types and the addresses of two stacks agree below layer i.
SameAddresses(p, q, i) ==
  \A k \in 1 .. i - 1 :
    /\ q[k].type = p[k].type
    /\ p[k].type = "IP" => SubSeq(q[k].data, 13, 20) = SubSeq(p[k].data, 13, 20)
    /\ p[k].type = "IP6" => SubSeq(q[k].data, 9, 40) = SubSeq(p[k].data, 9, 40)

\* The IP headers below layer i have their addresses, as ars_add_iphdr() and
\* ars_add_ip6hdr() make them.
WholeAddresses(p, i) ==
  \A k \in 1 .. i - 1 :
    /\ p[k].type = "IP" => Len(p[k].data) >= 20
    /\ p[k].type = "IP6" => Len(p[k].data) >= 40

\* The size of everything from a layer on is the number of its bytes.
LEMMA RelativeSizeIsLen ==
  ASSUME NEW p \in Seq(Layer), NEW i \in 1 .. Len(p), p[i].type # "NULL"
  PROVE  Chunks(p, i) \in Seq(Seq(Byte)) /\ Len(FlattenSeq(Chunks(p, i))) = ars_relative_size(p, i)
<1> DEFINE n == Len(p)
           h == Hole(p, i)
           m == h - i
           C == Chunks(p, i)
           V == Seq(Byte)
<1>1. n \in Nat /\ i \in 1 .. n /\ i \in Nat /\ h \in i + 1 .. n + 1
  BY LenProperties, HoleAfter
<1> HIDE DEF h
<1>2. m \in Nat /\ (h - 1) - i + 1 = m /\ \A k \in 1 .. m : i + k - 1 \in 1 .. n
  <2> HIDE DEF n
  <2> QED
    BY <1>1
<1>3. \A k \in 1 .. m : Bytes(p[i + k - 1]) \in V /\ Len(Bytes(p[i + k - 1])) = p[i + k - 1].size
  <2>1. \A k \in 1 .. n : Bytes(p[k]) \in V /\ Len(Bytes(p[k])) = p[k].size
    BY BytesType, ElementOfSeq DEF n
  <2> HIDE DEF V, m, n
  <2> QED
    BY <1>2, <2>1
<1>4. C = [k \in 1 .. m |-> Bytes(p[i + k - 1])]
  BY DEF Chunks, h
<1> HIDE DEF C, V, m
<1>5. C \in Seq(V) /\ Len(C) = m /\ \A k \in 1 .. m : C[k] = Bytes(p[i + k - 1])
  <2>1. \A k \in 1 .. m : Bytes(p[i + k - 1]) \in V
    BY <1>3
  <2>2. m \in Nat
    BY <1>2
  <2> QED
    BY <1>4, <2>1, <2>2
<1>6. Lens(C) = [k \in 1 .. m |-> p[i + k - 1].size]
  BY <1>3, <1>5 DEF Lens
<1>7. ars_relative_size(p, i) = Total([k \in 1 .. m |-> p[i + k - 1].size])
  BY <1>2 DEF ars_relative_size, RunSize, h
<1>8. Len(FlattenSeq(C)) = Total(Lens(C))
  <2>1. C \in Seq(Seq(Byte))
    BY <1>5 DEF V
  <2> QED
    BY <2>1, FlattenLen
<1> QED
  BY <1>5, <1>6, <1>7, <1>8 DEF C, V

\* The layer that is searched for the addresses lies below layer i.
LEMMA AddressLayer ==
  ASSUME NEW p, NEW i \in Nat, i > 1
  PROVE  Max({1} \cup {k \in 1 .. i - 1 : TypeAt(p, k) # "IPOPT"}) \in 1 .. i - 1
<1> DEFINE S == {1} \cup {k \in 1 .. i - 1 : TypeAt(p, k) # "IPOPT"}
<1>1. S \in SUBSET (1 .. i - 1) /\ S # {}
  OBVIOUS
<1> HIDE DEF S
<1>2. S \in SUBSET (0 .. i) /\ S # {}
  BY <1>1
<1>3. Max(S) \in S
  BY <1>2, MaxIn
<1> QED
  BY <1>1, <1>3 DEF S

\* The pseudo header depends on the addresses, on the protocol and on the
\* size of what it is summed with, and on nothing else of a stack.
LEMMA PseudoSame ==
  ASSUME NEW p \in Seq(Layer), NEW q \in Seq(Layer), NEW i \in Nat, i >= 1, i <= Len(p), i <= Len(q),
         SameAddresses(p, q, i), q[i].type = p[i].type,
         ars_relative_size(q, i) = ars_relative_size(p, i)
  PROVE  Pseudo(q, i) = Pseudo(p, i)
<1> DEFINE size == ars_relative_size(p, i)
           S(r) == {1} \cup {k \in 1 .. i - 1 : TypeAt(r, k) # "IPOPT"}
           m == Max(S(p))
<1>1. Len(p) \in Nat /\ Len(q) \in Nat
  BY LenProperties
<1>2. \A k \in 1 .. i - 1 : k \in 1 .. Len(p) /\ k \in 1 .. Len(q)
  BY <1>1
<1>3. \A k \in 1 .. i - 1 : TypeAt(q, k) = TypeAt(p, k) /\ TypeAt(p, k) = p[k].type
  BY <1>2 DEF TypeAt, SameAddresses
<1>4. \A k \in 1 .. i - 1 :
        /\ TypeAt(p, k) = "IP" => SubSeq(q[k].data, 13, 20) = SubSeq(p[k].data, 13, 20)
        /\ TypeAt(p, k) = "IP6" => SubSeq(q[k].data, 9, 40) = SubSeq(p[k].data, 9, 40)
  BY <1>3 DEF SameAddresses
<1>5. ASSUME NEW h PROVE ars_ip6_pseudo(q, i, h) = ars_ip6_pseudo(p, i, h)
  <2>1. CASE i = 1
    <3>1. TypeAt(q, i - 1) = "NULL" /\ TypeAt(p, i - 1) = "NULL"
      BY <1>1, <2>1 DEF TypeAt
    <3> QED
      BY <3>1 DEF ars_ip6_pseudo
  <2>2. CASE i # 1
    <3>1. i - 1 \in 1 .. i - 1
      BY <2>2
    <3>2. TypeAt(q, i - 1) = TypeAt(p, i - 1)
      BY <1>3, <3>1
    <3>3. TypeAt(p, i - 1) = "IP6" => SubSeq(q[i - 1].data, 9, 40) = SubSeq(p[i - 1].data, 9, 40)
      BY <1>4, <3>1
    <3> QED
      BY <3>2, <3>3 DEF ars_ip6_pseudo
  <2> QED
    BY <2>1, <2>2
<1>6. ars_udptcp_pseudo(q, i) = ars_udptcp_pseudo(p, i)
  <2>1. CASE i = 1
    BY <2>1 DEF ars_udptcp_pseudo
  <2>2. CASE i # 1
    <3>1. S(q) = S(p)
      BY <1>3
    <3>2. m \in 1 .. i - 1
      <4>1. i > 1
        BY <2>2
      <4>2. Max({1} \cup {k \in 1 .. i - 1 : TypeAt(p, k) # "IPOPT"}) \in 1 .. i - 1
        BY <4>1, AddressLayer
      <4> QED
        BY <4>2
    <3> HIDE DEF S, m
    <3>3. /\ TypeAt(q, m) = TypeAt(p, m)
          /\ TypeAt(p, m) = "IP" => SubSeq(q[m].data, 13, 20) = SubSeq(p[m].data, 13, 20)
      BY <1>3, <1>4, <3>2
    <3> DEFINE proto == IF p[i].type = "TCP" THEN 6 ELSE 17
               Sum(r) == CASE i = 1 -> << >>
                           [] i > 1 /\ TypeAt(r, m) = "IP6" -> ars_ip6_pseudo(r, i, proto)
                           [] i > 1 /\ TypeAt(r, m) = "IP" ->
                                SubSeq(r[m].data, 13, 20) \o <<0, proto>> \o Net(ars_relative_size(r, i), 2)
                           [] OTHER -> << >>
    <3>4. ars_udptcp_pseudo(p, i) = Sum(p)
      BY DEF ars_udptcp_pseudo, m, S
    <3>5. ars_udptcp_pseudo(q, i) = Sum(q)
      BY <3>1 DEF ars_udptcp_pseudo, m, S
    <3>6. ars_ip6_pseudo(q, i, proto) = ars_ip6_pseudo(p, i, proto)
      BY <1>5
    <3> HIDE DEF proto
    <3>7. Sum(q) = Sum(p)
      BY <3>3, <3>6
    <3> QED
      BY <3>4, <3>5, <3>7
  <2> QED
    BY <2>1, <2>2
<1> QED
  BY <1>5, <1>6 DEF Pseudo

\* A length field of four bytes.
LEMMA NetLong ==
  ASSUME NEW c \in Nat
  PROVE  Net(c, 4) \in Seq(Byte) /\ Len(Net(c, 4)) = 4
BY NetBytes

\* A piece of a buffer that is long enough.
LEMMA PieceType ==
  ASSUME NEW d \in Seq(Byte), NEW a \in Nat, NEW y \in Nat, a <= y, y <= Len(d)
  PROVE  SubSeq(d, a + 1, y) \in Seq(Byte) /\ Len(SubSeq(d, a + 1, y)) = y - a
<1> DEFINE n == y - a
<1>1. n \in Nat /\ a + n = y
  OBVIOUS
<1> HIDE DEF n
<1>2. a + n <= Len(d)
  BY <1>1
<1>3. SubSeq(d, a + 1, a + n) \in Seq(Byte) /\ Len(SubSeq(d, a + 1, a + n)) = n
  BY <1>1, <1>2, Part
<1> QED
  BY <1>1, <1>3 DEF n

\* Three pieces in a row.
LEMMA ThreePieces ==
  ASSUME NEW a \in Seq(Byte), NEW y \in Seq(Byte), NEW c \in Seq(Byte)
  PROVE  a \o y \o c \in Seq(Byte) /\ Len(a \o y \o c) = Len(a) + Len(y) + Len(c)
<1> DEFINE ab == a \o y
<1>1. ab \in Seq(Byte) /\ Len(ab) = Len(a) + Len(y)
  BY ConcatProperties
<1> HIDE DEF ab
<1>2. ab \o c \in Seq(Byte) /\ Len(ab \o c) = Len(ab) + Len(c)
  BY <1>1, ConcatProperties
<1> QED
  BY <1>1, <1>2 DEF ab

\* A pseudo header is bytes, at most 40 of them.
LEMMA PseudoType ==
  ASSUME NEW p \in Seq(Layer), NEW i \in 1 .. Len(p), p[i].type # "NULL", WholeAddresses(p, i)
  PROVE  Pseudo(p, i) \in Seq(Byte) /\ Len(Pseudo(p, i)) <= 40
<1> DEFINE size == ars_relative_size(p, i)
           Good(s) == s \in Seq(Byte) /\ Len(s) <= 40
<1>1. Len(p) \in Nat /\ i \in Nat /\ i >= 1 /\ i <= Len(p)
  BY LenProperties
<1>2. size \in Nat
  BY RelativeSizeType
<1> HIDE DEF size
<1>3. \A k \in 1 .. i - 1 : k \in 1 .. Len(p)
  BY <1>1
<1>4. \A k \in 1 .. i - 1 :
        /\ p[k].data \in Seq(Byte) /\ TypeAt(p, k) = p[k].type
        /\ TypeAt(p, k) = "IP" => Len(p[k].data) >= 20
        /\ TypeAt(p, k) = "IP6" => Len(p[k].data) >= 40
  BY <1>3, ElementOfSeq DEF Layer, TypeAt, WholeAddresses
<1>5. Good(<< >>)
  OBVIOUS
<1>6. ASSUME NEW h \in Byte PROVE Good(ars_ip6_pseudo(p, i, h))
  <2>1. CASE TypeAt(p, i - 1) = "IP6"
    <3> DEFINE d == p[i - 1].data
               a == 8
               v == 40
               x == SubSeq(d, a + 1, v)
               y == Net(size, 4)
               z == <<0, 0, 0, h>>
    <3>1. i - 1 \in 1 .. i - 1
      BY <1>1, <2>1 DEF TypeAt
    <3>2. d \in Seq(Byte) /\ v <= Len(d)
      BY <1>4, <2>1, <3>1
    <3>3. a \in Nat /\ v \in Nat /\ a <= v /\ v - a = 32 /\ a + 1 = 9
      OBVIOUS
    <3>4. z \in Seq(Byte) /\ Len(z) = 4
      BY <1>6 DEF Byte
    <3>5. y \in Seq(Byte) /\ Len(y) = 4
      BY <1>2, NetLong
    <3>6. ars_ip6_pseudo(p, i, h) = x \o y \o z
      BY <2>1 DEF ars_ip6_pseudo, size
    <3> HIDE DEF a, v, d, y, z
    <3>7. x \in Seq(Byte) /\ Len(x) = v - a
      BY <3>2, <3>3, PieceType
    <3> HIDE DEF x
    <3>8. x \o y \o z \in Seq(Byte) /\ Len(x \o y \o z) = Len(x) + Len(y) + Len(z)
      BY <3>4, <3>5, <3>7, ThreePieces
    <3> QED
      BY <3>3, <3>4, <3>5, <3>6, <3>7, <3>8
  <2>2. CASE TypeAt(p, i - 1) # "IP6"
    BY <1>5, <2>2 DEF ars_ip6_pseudo
  <2> QED
    BY <2>1, <2>2
<1> DEFINE m == Max({1} \cup {k \in 1 .. i - 1 : TypeAt(p, k) # "IPOPT"})
           proto == IF p[i].type = "TCP" THEN 6 ELSE 17
           y == <<0, proto>>
           z == Net(size, 2)
<1>7. proto \in Byte /\ y \in Seq(Byte) /\ Len(y) = 2
  <2>1. proto \in 0 .. 255
    OBVIOUS
  <2> HIDE DEF proto
  <2> QED
    BY <2>1 DEF Byte
<1>8. z \in Seq(Byte) /\ Len(z) = 2
  BY <1>2, NetType
<1>9. \/ ars_udptcp_pseudo(p, i) = << >>
      \/ ars_udptcp_pseudo(p, i) = ars_ip6_pseudo(p, i, proto)
      \/ i > 1 /\ TypeAt(p, m) = "IP" /\ ars_udptcp_pseudo(p, i) = SubSeq(p[m].data, 13, 20) \o y \o z
  <2>1. ars_udptcp_pseudo(p, i) = CASE i = 1 -> << >>
              [] i > 1 /\ TypeAt(p, m) = "IP6" -> ars_ip6_pseudo(p, i, proto)
              [] i > 1 /\ TypeAt(p, m) = "IP" -> SubSeq(p[m].data, 13, 20) \o y \o z
              [] OTHER -> << >>
    BY DEF ars_udptcp_pseudo, size
  <2> HIDE DEF m, proto, y, z
  <2> QED
    BY <2>1
<1> HIDE DEF proto, y, z
<1>10. ASSUME i > 1, TypeAt(p, m) = "IP" PROVE Good(SubSeq(p[m].data, 13, 20) \o y \o z)
  <2> DEFINE d == p[m].data
             a == 12
             v == 20
             x == SubSeq(d, a + 1, v)
  <2>1. m \in 1 .. i - 1
    BY <1>1, <1>10, AddressLayer
  <2> HIDE DEF m
  <2>2. d \in Seq(Byte) /\ v <= Len(d)
    BY <1>4, <1>10, <2>1
  <2>3. a \in Nat /\ v \in Nat /\ a <= v /\ v - a = 8 /\ a + 1 = 13 /\ v = 20
    OBVIOUS
  <2> HIDE DEF a, v, d
  <2>4. x \in Seq(Byte) /\ Len(x) = v - a
    BY <2>2, <2>3, PieceType
  <2>5. x = SubSeq(p[m].data, 13, 20)
    BY <2>3 DEF d
  <2> HIDE DEF x
  <2>6. x \o y \o z \in Seq(Byte) /\ Len(x \o y \o z) = Len(x) + Len(y) + Len(z)
    BY <1>7, <1>8, <2>4, ThreePieces
  <2>7. Good(x \o y \o z)
    BY <1>7, <1>8, <2>3, <2>4, <2>6
  <2> QED
    BY <2>5, <2>7
<1>11. Good(ars_udptcp_pseudo(p, i))
  <2> HIDE DEF m, Good
  <2>1. Good(ars_ip6_pseudo(p, i, proto))
    BY <1>6, <1>7
  <2> QED
    BY <1>5, <1>9, <1>10, <2>1
<1>12. Good(ars_ip6_pseudo(p, i, 58))
  <2> DEFINE h == 58
  <2>1. h \in Byte
    BY DEF Byte
  <2> HIDE DEF h, Good
  <2>2. Good(ars_ip6_pseudo(p, i, h))
    BY <1>6, <2>1
  <2> QED
    BY <2>2 DEF h
<1> QED
  BY <1>11, <1>12 DEF Pseudo

\* The sum over a pseudo header and a buffer is the one over both in a row.
LEMMA SumOfTwo ==
  ASSUME NEW a \in Seq(Byte), NEW y \in Seq(Byte)
  PROVE  ars_multi_cksum(<<a, y>>) = ars_cksum(a \o y)
<1> DEFINE x == <<a>>
           C == Append(x, y)
           V == Seq(Byte)
<1>1. x \in Seq(Seq(Byte)) /\ FlattenSeq(x) = a
  BY FlattenOne
<1>2. <<a, y>> = C
  OBVIOUS
<1> HIDE DEF x
<1>3. C \in Seq(V)
  <2>1. x \in Seq(V) /\ y \in V
    BY <1>1
  <2> HIDE DEF V
  <2> QED
    BY <2>1, AppendProperties
<1>4. FlattenSeq(C) = a \o y
  BY <1>1, FlattenAppend
<1> HIDE DEF C
<1>5. ars_multi_cksum(C) = ars_cksum(FlattenSeq(C))
  BY <1>3, ChunksDoNotMatter
<1> QED
  BY <1>2, <1>4, <1>5

\* The transports whose checksum takes a pseudo header.
Transports == {"UDP", "TCP", "ICMP6"}

\* The temporary layer of the dissector: the last of its stack, as long as
\* what it holds.
LEMMA TempLayer ==
  ASSUME NEW c \in Seq(Layer), NEW type \in Transports, NEW d \in Seq(Byte)
  PROVE  LET t == ars_add_generic(c, type, d)
             i == Len(c) + 1
         IN  /\ t \in Seq(Layer) /\ Len(t) = i /\ t[i].type = type /\ t[i].data = d
             /\ \A k \in 1 .. i - 1 : t[k] = c[k]
             /\ ars_relative_size(t, i) = Len(d)
<1> DEFINE n == Len(c)
           i == n + 1
           l == [type |-> type, size |-> Len(d), flags |-> {}, data |-> d]
           t == Append(c, l)
<1>1. n \in Nat /\ Len(d) \in Nat
  BY LenProperties
<1>2. l \in Layer /\ l.type = type /\ l.size = Len(d) /\ l.data = d
  <2>1. type \in LayerTypes
    BY DEF Transports, LayerTypes
  <2>2. {} \in SUBSET LayerFlags /\ Len(d) <= Len(d)
    BY <1>1
  <2> QED
    BY <1>1, <2>1, <2>2, LayerType
<1>3. t = ars_add_generic(c, type, d)
  BY DEF ars_add_generic
<1> HIDE DEF l
<1>4. t \in Seq(Layer) /\ Len(t) = n + 1 /\ t[n + 1] = l /\ \A k \in 1 .. n : t[k] = c[k]
  BY <1>2, AppendProperties
<1> HIDE DEF t, n
<1>5. i \in 1 .. Len(t) /\ i - 1 = n /\ i \in Nat
  BY <1>1, <1>4
<1>6. t[i].type = type /\ t[i].data = d /\ t[i].size = Len(d) /\ t[i].type # "NULL"
  BY <1>2, <1>4 DEF Transports
<1>7. Hole(t, i) = i + 1
  <2>1. Hole(t, i) \in i + 1 .. Len(t) + 1
    <3> HIDE DEF i
    <3> QED
      BY <1>4, <1>5, <1>6, HoleAfter
  <2>2. Len(t) = i
    BY <1>4
  <2> HIDE DEF i
  <2> QED
    BY <1>5, <2>1, <2>2
<1>8. ars_relative_size(t, i) = Len(d)
  <2> DEFINE m == 1
             f == [k \in 1 .. m |-> t[i + k - 1].size]
             o == Len(d)
  <2>1. (Hole(t, i) - 1) - i + 1 = m
    BY <1>5, <1>7
  <2>2. ars_relative_size(t, i) = Total(f)
    BY <2>1 DEF ars_relative_size, RunSize
  <2>3. i + 1 - 1 = i
    BY <1>5
  <2> HIDE DEF i
  <2>4. f = <<o>>
    BY <1>6, <2>3
  <2> HIDE DEF o, f
  <2>5. Total(<<o>>) = o
    BY <1>1, TotalOne DEF o
  <2> QED
    BY <2>2, <2>4, <2>5 DEF o
<1> QED
  BY <1>3, <1>4, <1>5, <1>6, <1>8 DEF n

\* What the dissector compares a received checksum with.
LEMMA TempSum ==
  ASSUME NEW c \in Seq(Layer), NEW type \in Transports, NEW s \in Seq(Byte),
         NEW off \in Nat, off + 2 <= Len(s), WholeAddresses(c, Len(c) + 1)
  PROVE  LET z == Put(s, off, <<0, 0>>)
             P == Pseudo(ars_add_generic(c, type, z), Len(c) + 1)
         IN  /\ P \in Seq(Byte) /\ Len(P) <= 40
             /\ TempCksum(c, type, s, off) = IF P = << >> THEN -1 ELSE ars_cksum(P \o z)
<1> DEFINE z == Put(s, off, <<0, 0>>)
           t == ars_add_generic(c, type, z)
           i == Len(c) + 1
           P == Pseudo(t, i)
<1>1. z \in Seq(Byte)
  BY PutZeros
<1> HIDE DEF z
<1>2. /\ t \in Seq(Layer) /\ Len(t) = i /\ t[i].type = type /\ t[i].data = z
      /\ \A k \in 1 .. i - 1 : t[k] = c[k]
  <2> HIDE DEF i, t
  <2>1. /\ ars_add_generic(c, type, z) \in Seq(Layer) /\ Len(ars_add_generic(c, type, z)) = Len(c) + 1
        /\ ars_add_generic(c, type, z)[Len(c) + 1].type = type
        /\ ars_add_generic(c, type, z)[Len(c) + 1].data = z
        /\ \A k \in 1 .. (Len(c) + 1) - 1 : ars_add_generic(c, type, z)[k] = c[k]
    BY <1>1, TempLayer
  <2> QED
    BY <2>1 DEF i, t
<1>3. TempCksum(c, type, s, off) = IF P = << >> THEN -1 ELSE ars_multi_cksum(<<P, z>>)
  BY <1>2 DEF TempCksum, Pseudo, z
<1> HIDE DEF t
<1>4. i \in 1 .. Len(t) /\ t[i].type # "NULL"
  <2>1. Len(c) \in Nat
    BY LenProperties
  <2> QED
    BY <1>2, <2>1 DEF Transports
<1> HIDE DEF i
<1>5. WholeAddresses(t, i)
  BY <1>2 DEF WholeAddresses, i
<1>6. P \in Seq(Byte) /\ Len(P) <= 40
  BY <1>2, <1>4, <1>5, PseudoType
<1> HIDE DEF P
<1>7. ars_multi_cksum(<<P, z>>) = ars_cksum(P \o z)
  BY <1>1, <1>6, SumOfTwo
<1> QED
  BY <1>3, <1>6, <1>7 DEF P, t, z, i

\* Two buffers of one length get the same pseudo header.
LEMMA TempPseudoSame ==
  ASSUME NEW c \in Seq(Layer), NEW type \in Transports, NEW d \in Seq(Byte),
         NEW q \in Seq(Layer), Len(q) >= Len(c) + 1, q[Len(c) + 1].type = type,
         SameAddresses(q, c, Len(c) + 1), ars_relative_size(q, Len(c) + 1) = Len(d)
  PROVE  Pseudo(ars_add_generic(c, type, d), Len(c) + 1) = Pseudo(q, Len(c) + 1)
<1> DEFINE t == ars_add_generic(c, type, d)
           i == Len(c) + 1
<1>1. /\ t \in Seq(Layer) /\ Len(t) = i /\ t[i].type = type
      /\ \A k \in 1 .. i - 1 : t[k] = c[k]
      /\ ars_relative_size(t, i) = Len(d)
  BY TempLayer
<1>2. i \in Nat /\ i >= 1 /\ i <= Len(t)
  BY <1>1, LenProperties
<1> HIDE DEF t
<1>3. SameAddresses(q, t, i)
  <2> HIDE DEF i
  <2> QED
    BY <1>1 DEF SameAddresses, i
<1>4. i <= Len(q) /\ t[i].type = q[i].type /\ ars_relative_size(t, i) = ars_relative_size(q, i)
  BY <1>1, <1>2, LenProperties
<1> HIDE DEF i
<1>5. Pseudo(t, i) = Pseudo(q, i)
  BY <1>1, <1>2, <1>3, <1>4, PseudoSame
<1> QED
  BY <1>5 DEF t, i

\* Damage to a segment is seen (ars_split_udp(), ars_split_tcp() and
\* ars_split_icmp6(), split.c:275-600): a UDP, TCP or ICMPv6 checksum that is
\* accepted over its pseudo header is refused once any one byte of the segment
\* has changed, the checksum's own two included.
THEOREM SegmentDamageIsSeen ==
  \A c \in Seq(Layer), type \in Transports, s \in Seq(Byte), x \in Byte, off \in Nat :
    \A k \in 1 .. Len(s) :
      /\ WholeAddresses(c, Len(c) + 1) /\ Len(s) <= 65535 /\ off + 2 <= Len(s)
      /\ TempCksum(c, type, s, off) = Get16(s, off) /\ x # s[k]
      => LET t == [s EXCEPT ![k] = x] IN TempCksum(c, type, t, off) # Get16(t, off)
<1>1. SUFFICES ASSUME NEW c \in Seq(Layer), NEW type \in Transports, NEW s \in Seq(Byte),
                      NEW x \in Byte, NEW off \in Nat, NEW k \in 1 .. Len(s),
                      WholeAddresses(c, Len(c) + 1), Len(s) <= 65535, off + 2 <= Len(s),
                      TempCksum(c, type, s, off) = Get16(s, off), x # s[k]
               PROVE  LET t == [s EXCEPT ![k] = x] IN TempCksum(c, type, t, off) # Get16(t, off)
  OBVIOUS
<1> DEFINE t == [s EXCEPT ![k] = x]
           a == Put(s, off, <<0, 0>>)
           v == Put(t, off, <<0, 0>>)
           i == Len(c) + 1
           P == Pseudo(ars_add_generic(c, type, a), i)
           Q == Pseudo(ars_add_generic(c, type, v), i)
<1>2. t \in Seq(Byte) /\ OneByteApart(s, t, k) /\ Len(t) = Len(s)
  <2>1. /\ t \in Seq(Byte) /\ Len(t) = Len(s) /\ t[k] = x
        /\ \A h \in 1 .. Len(s) : h # k => t[h] = s[h]
    BY <1>1, ExceptSeq, LenProperties
  <2> HIDE DEF t
  <2> QED
    BY <1>1, <2>1 DEF OneByteApart
<1> HIDE DEF t
<1>3. a \in Seq(Byte) /\ Len(a) = Len(s)
  BY <1>1, PutZeros
<1>4. v \in Seq(Byte) /\ Len(v) = Len(s)
  BY <1>1, <1>2, PutZeros
<1>5. /\ P \in Seq(Byte) /\ Len(P) <= 40
      /\ TempCksum(c, type, s, off) = IF P = << >> THEN -1 ELSE ars_cksum(P \o a)
  BY <1>1, TempSum
<1>6. TempCksum(c, type, t, off) = IF Q = << >> THEN -1 ELSE ars_cksum(Q \o v)
  BY <1>1, <1>2, TempSum
<1> HIDE DEF a, v
<1>7. Q = P
  <2> DEFINE q == ars_add_generic(c, type, a)
  <2>1. /\ q \in Seq(Layer) /\ Len(q) = i /\ q[i].type = type
        /\ \A h \in 1 .. i - 1 : q[h] = c[h]
        /\ ars_relative_size(q, i) = Len(a)
    BY <1>3, TempLayer
  <2> HIDE DEF q
  <2>2. SameAddresses(q, c, i)
    BY <2>1 DEF SameAddresses
  <2>3. Len(q) >= i /\ ars_relative_size(q, i) = Len(v)
    BY <1>3, <1>4, <2>1, LenProperties
  <2>4. Pseudo(ars_add_generic(c, type, v), i) = Pseudo(q, i)
    BY <1>4, <2>1, <2>2, <2>3, TempPseudoSame
  <2> QED
    BY <2>4 DEF q
<1> HIDE DEF P, Q
<1>8. Get16(s, off) \in Nat
  <2>1. off + 1 \in 1 .. Len(s) /\ off + 2 \in 1 .. Len(s)
    BY <1>1, LenProperties
  <2> DEFINE y == s[off + 1]
             z == s[off + 2]
  <2>2. y \in Byte /\ z \in Byte
    BY <2>1, ElementOfSeq
  <2>3. Get16(s, off) = 256 * y + z
    BY DEF Get16
  <2> HIDE DEF y, z
  <2>4. 256 * y + z \in Nat
    BY <2>2 DEF Byte
  <2> QED
    BY <2>3, <2>4
<1>9. P # << >> /\ ars_cksum(P \o a) = Get16(s, off)
  BY <1>1, <1>5, <1>8
<1>10. ars_cksum(P \o v) # Get16(t, off)
  <2>1. Len(P) + Len(s) <= 65575
    BY <1>1, <1>5, LenProperties
  <2>2. ars_cksum(P \o Put(s, off, <<0, 0>>)) = Get16(s, off)
    BY <1>9 DEF a
  <2>3. P \in Seq(Byte)
    BY <1>5
  <2>4. ars_cksum(P \o Put(t, off, <<0, 0>>)) # Get16(t, off)
    BY <1>1, <1>2, <2>1, <2>2, <2>3, OneOfTwo
  <2> QED
    BY <2>4 DEF v
<1> QED
  BY <1>6, <1>7, <1>9, <1>10 DEF t

\* Only the last rewriting of a buffer counts.
LEMMA SetsTwice ==
  ASSUME NEW p \in Seq(Layer), NEW i \in 1 .. Len(p), NEW d, NEW e
  PROVE  Sets(Sets(p, i, d), i, e) = Sets(p, i, e)
<1>1. p[i] \in Layer
  BY ElementOfSeq
<1>2. [[p[i] EXCEPT !.data = d] EXCEPT !.data = e] = [p[i] EXCEPT !.data = e]
  BY <1>1 DEF Layer
<1>3. DOMAIN p = 1 .. Len(p)
  BY LenProperties
<1> QED
  BY <1>2, <1>3 DEF Sets

\* ... and rewriting it with what it holds changes nothing.
LEMMA SetsNothing ==
  ASSUME NEW p \in Seq(Layer), NEW i \in 1 .. Len(p)
  PROVE  Sets(p, i, p[i].data) = p
<1>1. p[i] \in Layer
  BY ElementOfSeq
<1>2. [p[i] EXCEPT !.data = p[i].data] = p[i]
  BY <1>1 DEF Layer
<1>3. Sets(p, i, p[i].data) = [p EXCEPT ![i] = [p[i] EXCEPT !.data = p[i].data]]
  BY DEF Sets
<1> QED
  BY <1>2, <1>3

\* The sum that is stored over a pseudo header is the one the dissector
\* computes of the bytes that are sent, behind any headers that have the types
\* and the addresses of the ones it was computed with.
LEMMA SumWithPseudoIsGood ==
  ASSUME NEW p \in Seq(Layer), NEW i \in 1 .. Len(p), p[i].type \in Transports,
         p[i].size = Len(p[i].data), NEW off \in Nat, off + 2 <= Len(p[i].data),
         WholeAddresses(p, i), Pseudo(p, i) # << >>,
         NEW c \in Seq(Layer), Len(c) = i - 1, WholeAddresses(c, i), SameAddresses(p, c, i)
  PROVE  LET u == FlattenSeq(Chunks(SumWithPseudo(p, i, off, Pseudo(p, i)).p, i))
         IN  u \in Seq(Byte) /\ TempCksum(c, p[i].type, u, off) = Get16(u, off)
<1> DEFINE D == p[i].data
           type == p[i].type
           P == Pseudo(p, i)
           z == Put(D, off, <<0, 0>>)
           q == Sets(p, i, z)
           F == FlattenSeq(Behind(p, i))
           y == z \o F
           sum == ars_multi_cksum(<<P>> \o Chunks(q, i))
           w == Net(sum, 2)
           d == Put(z, off, w)
           u == d \o F
<1>1. p[i] \in Layer /\ D \in Seq(Byte) /\ type \in Transports /\ type # "NULL"
  BY ElementOfSeq DEF Layer, Transports
<1>2. z \in Seq(Byte) /\ Len(z) = Len(D)
  <2> DEFINE e == D
  <2>1. e \in Seq(Byte) /\ off + 2 <= Len(e)
    BY <1>1
  <2> HIDE DEF e
  <2>2. Put(e, off, <<0, 0>>) \in Seq(Byte) /\ Len(Put(e, off, <<0, 0>>)) = Len(e)
    BY <2>1, PutZeros
  <2> QED
    BY <2>2 DEF e
<1>3. P \in Seq(Byte)
  BY <1>1, PseudoType
<1> HIDE DEF z
<1>4. q[i].data = z
  BY <1>2, SetsLayer
<1>5. /\ Chunks(q, i) \in Seq(Seq(Byte)) /\ F \in Seq(Byte) /\ FlattenSeq(Chunks(q, i)) = y
  BY <1>1, <1>2, FlatOfSets
<1>6. SumWithPseudo(p, i, off, P).p = Sets(p, i, d)
  <2>1. Sets(q, i, d) = Sets(p, i, d)
    BY SetsTwice
  <2>2. SumWithPseudo(p, i, off, P).p = Sets(q, i, d)
    BY <1>4 DEF SumWithPseudo, Ok, z
  <2> QED
    BY <2>1, <2>2
<1>7. y \in Seq(Byte)
  BY <1>2, <1>5, ConcatProperties
<1>8. Len(y) = ars_relative_size(p, i)
  <2>1. Sets(p, i, D) = p
    BY SetsNothing
  <2>2. FlattenSeq(Chunks(Sets(p, i, D), i)) = D \o F
    BY <1>1, FlatOfSets
  <2>3. Len(D \o F) = ars_relative_size(p, i)
    BY <1>1, <2>1, <2>2, RelativeSizeIsLen
  <2> HIDE DEF F, D
  <2>4. D \in Seq(Byte) /\ F \in Seq(Byte) /\ z \in Seq(Byte)
    BY <1>1, <1>2, <1>5
  <2>5. Len(D \o F) = Len(D) + Len(F)
    BY <2>4, ConcatProperties
  <2>6. Len(z \o F) = Len(z) + Len(F)
    BY <2>4, ConcatProperties
  <2> QED
    BY <1>2, <2>3, <2>5, <2>6
<1> HIDE DEF F, P
<1>9. sum = ars_cksum(P \o y)
  <2> DEFINE C == Chunks(q, i)
             o == <<P>>
             V == Seq(Byte)
  <2>1. C \in Seq(Seq(Byte)) /\ FlattenSeq(C) = y
    BY <1>5
  <2>2. o \in Seq(Seq(Byte)) /\ FlattenSeq(o) = P
    BY <1>3, FlattenOne
  <2> HIDE DEF C, o
  <2>3. FlattenSeq(o \o C) = P \o y
    BY <2>1, <2>2, FlattenConcat
  <2>4. o \o C \in Seq(V)
    <3>1. o \in Seq(V) /\ C \in Seq(V)
      BY <2>1, <2>2
    <3> HIDE DEF V
    <3> QED
      BY <3>1, ConcatProperties
  <2> DEFINE E == o \o C
  <2>5. E \in Seq(Seq(Byte)) /\ FlattenSeq(E) = P \o y
    BY <2>3, <2>4
  <2> HIDE DEF E
  <2>6. ars_multi_cksum(E) = ars_cksum(FlattenSeq(E))
    BY <2>5, ChunksDoNotMatter
  <2> QED
    BY <2>5, <2>6 DEF E, o, C
<1> HIDE DEF sum, q, y
<1>10. sum \in Nat /\ sum <= 65535
  <2> DEFINE v == P \o y
  <2>1. v \in Seq(Byte)
    BY <1>3, <1>7, ConcatProperties
  <2> HIDE DEF v
  <2>2. ars_cksum(v) \in Nat /\ ars_cksum(v) <= 65535
    BY <2>1, CksumRange
  <2> QED
    BY <1>9, <2>2 DEF v
<1>11. w \in Seq(Byte) /\ Len(w) = 2
  BY <1>10, NetWord
<1>12. d \in Seq(Byte) /\ Len(d) = Len(D)
  <2> HIDE DEF w
  <2> QED
    BY <1>2, <1>11, PutType
<1>13. u \in Seq(Byte) /\ Put(u, off, <<0, 0>>) = y /\ Get16(u, off) = sum
  <2> DEFINE e == D
  <2>1. e \in Seq(Byte) /\ off + 2 <= Len(e) /\ z = Put(e, off, <<0, 0>>)
    BY <1>1 DEF z
  <2> HIDE DEF e
  <2> DEFINE a == Put(e, off, <<0, 0>>)
             g == Put(a, off, Net(sum, 2)) \o F
  <2>2. e \in Seq(Byte) /\ off + 2 <= Len(e) /\ F \in Seq(Byte) /\ sum \in Nat /\ sum <= 65535
    BY <1>5, <1>10, <2>1
  <2>3. g \in Seq(Byte) /\ Put(g, off, <<0, 0>>) = a \o F /\ Get16(g, off) = sum
    <3>1. Stored(e, off, F, sum)
      BY <2>2, StoredField
    <3> QED
      BY <3>1 DEF Stored
  <2>4. g = u
    BY <2>1
  <2> HIDE DEF g
  <2> QED
    BY <2>1, <2>3, <2>4 DEF y
<1>14. FlattenSeq(Chunks(Sets(p, i, d), i)) = u
  <2> HIDE DEF d
  <2> QED
    BY <1>1, <1>12, FlatOfSets DEF F
<1>15. Len(u) = Len(y) /\ off + 2 <= Len(u)
  <2>1. Len(u) = Len(d) + Len(F)
    <3> HIDE DEF d
    <3> QED
      BY <1>5, <1>12, ConcatProperties
  <2>2. Len(y) = Len(z) + Len(F)
    BY <1>2, <1>5, ConcatProperties DEF y
  <2>3. Len(F) \in Nat /\ Len(D) \in Nat
    BY <1>1, <1>5, LenProperties
  <2> HIDE DEF u, d
  <2> QED
    BY <1>2, <1>12, <2>1, <2>2, <2>3
<1> HIDE DEF u, d, w
<1> DEFINE t == ars_add_generic(c, type, y)
<1>16. Len(c) + 1 = i /\ Len(p) >= Len(c) + 1
  BY LenProperties
<1>17. Pseudo(t, i) = P
  <2>1. /\ p[Len(c) + 1].type = type /\ SameAddresses(p, c, Len(c) + 1)
        /\ ars_relative_size(p, Len(c) + 1) = Len(y)
    BY <1>8, <1>16
  <2> HIDE DEF type
  <2>2. Pseudo(ars_add_generic(c, type, y), Len(c) + 1) = Pseudo(p, Len(c) + 1)
    BY <1>1, <1>7, <1>16, <2>1, TempPseudoSame
  <2> QED
    BY <1>16, <2>2 DEF P
<1>18. TempCksum(c, type, u, off) = IF P = << >> THEN -1 ELSE ars_cksum(P \o y)
  <2>1. WholeAddresses(c, Len(c) + 1)
    BY <1>16
  <2> HIDE DEF type
  <2> DEFINE x == Put(u, off, <<0, 0>>)
             Q == Pseudo(ars_add_generic(c, type, x), Len(c) + 1)
  <2>2. TempCksum(c, type, u, off) = IF Q = << >> THEN -1 ELSE ars_cksum(Q \o x)
    BY <1>1, <1>13, <1>15, <2>1, TempSum
  <2>3. x = y
    BY <1>13
  <2> HIDE DEF x
  <2>4. Q = P
    BY <1>16, <1>17, <2>3
  <2> HIDE DEF Q
  <2> QED
    BY <2>2, <2>3, <2>4
<1>19. P # << >>
  BY DEF P
<1> QED
  BY <1>6, <1>9, <1>13, <1>14, <1>18, <1>19 DEF P

\* The same after the buffer of the layer was rewritten.
LEMMA SegmentIsGood ==
  ASSUME NEW p \in Seq(Layer), NEW i \in 1 .. Len(p), p[i].type \in Transports,
         p[i].size = Len(p[i].data), NEW off \in Nat, off + 2 <= Len(p[i].data),
         WholeAddresses(p, i),
         NEW c \in Seq(Layer), Len(c) = i - 1, WholeAddresses(c, i), SameAddresses(p, c, i),
         NEW d \in Seq(Byte), Len(d) = Len(p[i].data),
         NEW r, r = SumWithPseudo(Sets(p, i, d), i, off, Pseudo(Sets(p, i, d), i)), r.err = "OK"
  PROVE  LET u == FlattenSeq(Chunks(r.p, i))
         IN  u \in Seq(Byte) /\ TempCksum(c, p[i].type, u, off) = Get16(u, off)
<1> DEFINE q == Sets(p, i, d)
           P == Pseudo(q, i)
<1>1. P # << >>
  BY DEF SumWithPseudo, Invalid, Ok
<1>2. /\ q \in Seq(Layer) /\ Len(q) = Len(p)
      /\ q[i].data = d /\ q[i].size = p[i].size /\ q[i].type = p[i].type
      /\ \A k \in 1 .. Len(p) : k # i => q[k] = p[k]
  BY SetsLayer
<1> HIDE DEF q
<1>3. \A k \in 1 .. i - 1 : q[k] = p[k]
  <2>1. \A k \in 1 .. i - 1 : k \in 1 .. Len(p) /\ k # i
    BY LenProperties
  <2> QED
    BY <1>2, <2>1
<1>4. WholeAddresses(q, i) /\ SameAddresses(q, c, i)
  BY <1>3 DEF WholeAddresses, SameAddresses
<1>5. /\ i \in 1 .. Len(q) /\ q[i].type \in Transports /\ q[i].size = Len(q[i].data)
      /\ off + 2 <= Len(q[i].data)
  BY <1>2
<1> DEFINE u == FlattenSeq(Chunks(SumWithPseudo(q, i, off, Pseudo(q, i)).p, i))
<1>6. u \in Seq(Byte) /\ TempCksum(c, q[i].type, u, off) = Get16(u, off)
  BY <1>1, <1>2, <1>4, <1>5, SumWithPseudoIsGood
<1> QED
  BY <1>2, <1>6 DEF q

\* The search for the end of a run ends behind its first layer.
LEMMA FirstNotRange ==
  ASSUME NEW p \in Seq(Layer), NEW i \in 1 .. Len(p), NEW t
  PROVE  FirstNot(p, i + 1, t) \in i + 1 .. Len(p) + 1
<1> DEFINE n == Len(p)
           S == {h \in i + 1 .. n + 1 : TypeAt(p, h) # t} \cup {n + 1}
<1>1. n \in Nat /\ i \in 1 .. n /\ i \in Nat
  BY LenProperties
<1>2. FirstNot(p, i + 1, t) = Min(S)
  BY DEF FirstNot
<1> HIDE DEF n
<1>3. S \in SUBSET (i + 1 .. n + 1) /\ S # {} /\ S \in SUBSET Nat
  BY <1>1
<1> HIDE DEF S
<1>4. Min(S) \in S
  BY <1>3, MinIn
<1> QED
  BY <1>2, <1>3, <1>4 DEF n

\* The words of a header fill a nibble.
LEMMA HeaderNibble ==
  ASSUME NEW n \in Nat
  PROVE  (5 + n \div 4) % 16 \in 0 .. 15
<1> DEFINE x == n \div 4
<1>1. x \in Int
  OBVIOUS
<1> HIDE DEF x
<1>2. (5 + x) % 16 \in 0 .. 15
  BY <1>1
<1> QED
  BY <1>2 DEF x

\* Where the checksums are.
CksumAt(type) == CASE type = "UDP" -> 6 [] type = "TCP" -> 16 [] type = "ICMP6" -> 2

\* The compilers of the transports fill their other fields before they sum.
LEMMA CompiledBySum ==
  ASSUME NEW p \in Seq(Layer), NEW i \in 1 .. Len(p), p[i].type \in Transports,
         "CKSUM" \notin p[i].flags, Len(p[i].data) >= CksumAt(p[i].type) + 2
  PROVE  \E d \in Seq(Byte) :
           /\ Len(d) = Len(p[i].data)
           /\ CompileLayer(p, i) =
                SumWithPseudo(Sets(p, i, d), i, CksumAt(p[i].type), Pseudo(Sets(p, i, d), i))
<1> DEFINE D == p[i].data
           Done(d) == /\ Len(d) = Len(D)
                      /\ CompileLayer(p, i) =
                           SumWithPseudo(Sets(p, i, d), i, CksumAt(p[i].type), Pseudo(Sets(p, i, d), i))
<1>1. D \in Seq(Byte) /\ p[i].type # "NULL"
  BY ElementOfSeq DEF Layer, Transports
<1>2. Sets(p, i, D) = p
  BY SetsNothing
<1>3. CASE p[i].type = "ICMP6"
  <2>1. CompileLayer(p, i) = SumWithPseudo(p, i, 2, Pseudo(p, i))
    BY <1>3 DEF CompileLayer, ars_compiler_icmp6, Pseudo
  <2>2. Done(D)
    BY <1>2, <1>3, <2>1 DEF CksumAt
  <2> QED
    BY <1>1, <2>2
<1>4. CASE p[i].type = "UDP"
  <2> DEFINE w == Net(ars_relative_size(p, i), 2)
             e == Put(D, 4, w)
             d == IF "LEN" \in p[i].flags THEN D ELSE e
             q == Sets(p, i, d)
  <2>1. w \in Seq(Byte)
    <3>1. ars_relative_size(p, i) \in Nat
      BY <1>1, RelativeSizeType
    <3> QED
      BY <3>1, NetType
  <2> HIDE DEF w
  <2>2. e \in Seq(Byte) /\ Len(e) = Len(D)
    <3> HIDE DEF D
    <3> QED
      BY <1>1, <2>1, PutType
  <2> HIDE DEF e
  <2>3. d \in Seq(Byte) /\ Len(d) = Len(D)
    BY <1>1, <2>2
  <2>4. q[i].type = "UDP"
    <3> HIDE DEF d
    <3> QED
      BY <1>4, <2>3, SetsLayer
  <2>5. q = IF "LEN" \in p[i].flags THEN p ELSE Sets(p, i, e)
    BY <1>2
  <2>6. CompileLayer(p, i) = SumWithPseudo(q, i, 6, ars_udptcp_pseudo(q, i))
    <3> HIDE DEF q
    <3> QED
      BY <1>4, <2>5 DEF CompileLayer, ars_compiler_udp, e, w
  <2>7. ars_udptcp_pseudo(q, i) = Pseudo(q, i)
    <3> HIDE DEF q
    <3> QED
      BY <2>4 DEF Pseudo
  <2>8. Done(d)
    <3>1. CksumAt(p[i].type) = 6
      BY <1>4 DEF CksumAt
    <3> HIDE DEF d
    <3> QED
      BY <2>3, <2>6, <2>7, <3>1
  <2> QED
    BY <2>3, <2>8
<1>5. CASE p[i].type = "TCP"
  <2> DEFINE last == FirstNot(p, i + 1, "TCPOPT")
             R == RunSize(p, i + 1, last - 1)
             off == (5 + R \div 4) % 16
             v == 16 * off + Low(D[13])
             e == Put(D, 12, <<v>>)
             d == IF "HDRLEN" \in p[i].flags THEN D ELSE e
             q == Sets(p, i, d)
  <2>1. R \in Nat
    <3> DEFINE f == i + 1
               g == last - 1
    <3>1. last \in i + 1 .. Len(p) + 1
      BY FirstNotRange
    <3>2. f \in Nat /\ g \in Nat /\ 1 <= f /\ g <= Len(p)
      <4> HIDE DEF last
      <4> QED
        BY <3>1, LenProperties
    <3> HIDE DEF f, g
    <3>3. RunSize(p, f, g) \in Nat
      BY <3>2, RunSizeType
    <3> QED
      BY <3>3 DEF f, g
  <2>2. off \in 0 .. 15
    <3> HIDE DEF R
    <3> QED
      BY <2>1, HeaderNibble
  <2> HIDE DEF off
  <2>3. v \in Byte
    <3> DEFINE y == D[13]
    <3>1. 13 \in 1 .. Len(D)
      <4>1. Len(D) \in Nat /\ Len(D) >= 18
        BY <1>1, <1>5, LenProperties DEF CksumAt
      <4> QED
        BY <4>1
    <3>2. y \in Byte
      BY <1>1, <3>1, ElementOfSeq
    <3> HIDE DEF y
    <3>3. Low(y) \in 0 .. 15
      BY <3>2, Nibbles
    <3> DEFINE z == Low(y)
    <3> HIDE DEF z
    <3>4. 16 * off + z \in Byte
      <4>1. z \in 0 .. 15
        BY <3>3 DEF z
      <4> QED
        BY <2>2, <4>1 DEF Byte
    <3> QED
      BY <3>4 DEF y, z
  <2> HIDE DEF v
  <2>4. e \in Seq(Byte) /\ Len(e) = Len(D)
    <3> DEFINE o == <<v>>
    <3>1. o \in Seq(Byte)
      BY <2>3
    <3> HIDE DEF o, D
    <3>2. Put(D, 12, o) \in Seq(Byte) /\ Len(Put(D, 12, o)) = Len(D)
      BY <1>1, <3>1, PutType
    <3> QED
      BY <3>2 DEF o
  <2> HIDE DEF e
  <2>5. d \in Seq(Byte) /\ Len(d) = Len(D)
    BY <1>1, <2>4
  <2>6. q[i].type = "TCP"
    <3> HIDE DEF d
    <3> QED
      BY <1>5, <2>5, SetsLayer
  <2>7. q = IF "HDRLEN" \in p[i].flags THEN p ELSE Sets(p, i, e)
    BY <1>2
  <2>8. CompileLayer(p, i) = SumWithPseudo(q, i, 16, ars_udptcp_pseudo(q, i))
    <3> HIDE DEF q
    <3> QED
      BY <1>5, <2>7 DEF CompileLayer, ars_compiler_tcp, e, v, off
  <2>9. ars_udptcp_pseudo(q, i) = Pseudo(q, i)
    <3> HIDE DEF q
    <3> QED
      BY <2>6 DEF Pseudo
  <2>10. Done(d)
    <3>1. CksumAt(p[i].type) = 16
      BY <1>5 DEF CksumAt
    <3> HIDE DEF d
    <3> QED
      BY <2>5, <2>8, <2>9, <3>1
  <2> QED
    BY <2>5, <2>10
<1> QED
  BY <1>3, <1>4, <1>5 DEF Transports

\* What the compiler sums the dissector accepts (ars_compiler_udp(),
\* ars_compiler_tcp() and ars_compiler_icmp6(); ars_split_udp(),
\* ars_split_tcp() and ars_split_icmp6()): when such a layer is compiled
\* without an error, the dissector, behind headers c that have the types and
\* the addresses of the ones it was compiled behind, computes of the bytes
\* that are sent the checksum they carry, whatever layers follow and of
\* whatever sizes.
THEOREM CompiledSegmentIsGood ==
  \A p, c \in Seq(Layer) : \A i \in 1 .. Len(p) :
    LET r == CompileLayer(p, i)
        s == FlattenSeq(Chunks(r.p, i))
        off == CksumAt(p[i].type)
    IN  /\ p[i].type \in Transports /\ "CKSUM" \notin p[i].flags
        /\ p[i].size = Len(p[i].data) /\ p[i].size >= off + 2
        /\ WholeAddresses(p, i) /\ r.err = "OK"
        /\ Len(c) = i - 1 /\ WholeAddresses(c, i) /\ SameAddresses(p, c, i)
        => TempCksum(c, p[i].type, s, off) = Get16(s, off)
<1>1. SUFFICES ASSUME NEW p \in Seq(Layer), NEW c \in Seq(Layer), NEW i \in 1 .. Len(p),
                      p[i].type \in Transports, "CKSUM" \notin p[i].flags,
                      p[i].size = Len(p[i].data), p[i].size >= CksumAt(p[i].type) + 2,
                      WholeAddresses(p, i), CompileLayer(p, i).err = "OK",
                      Len(c) = i - 1, WholeAddresses(c, i), SameAddresses(p, c, i)
               PROVE  LET s == FlattenSeq(Chunks(CompileLayer(p, i).p, i))
                          off == CksumAt(p[i].type)
                      IN  TempCksum(c, p[i].type, s, off) = Get16(s, off)
  OBVIOUS
<1> DEFINE off == CksumAt(p[i].type)
           r == CompileLayer(p, i)
           s == FlattenSeq(Chunks(r.p, i))
<1>2. off \in Nat /\ Len(p[i].data) >= off + 2 /\ off + 2 <= Len(p[i].data)
  <2>1. off \in Nat
    BY <1>1 DEF CksumAt, Transports
  <2>2. p[i].data \in Seq(Byte)
    BY ElementOfSeq DEF Layer
  <2>3. Len(p[i].data) \in Nat
    BY <2>2, LenProperties
  <2> HIDE DEF off
  <2>4. Len(p[i].data) >= off + 2
    BY <1>1 DEF off
  <2> QED
    BY <2>1, <2>3, <2>4
<1>3. PICK d \in Seq(Byte) :
        /\ Len(d) = Len(p[i].data)
        /\ r = SumWithPseudo(Sets(p, i, d), i, off, Pseudo(Sets(p, i, d), i))
  BY <1>1, <1>2, CompiledBySum
<1>4. r.err = "OK"
  BY <1>1
<1> HIDE DEF off, r
<1>5. s \in Seq(Byte) /\ TempCksum(c, p[i].type, s, off) = Get16(s, off)
  BY <1>1, <1>2, <1>3, <1>4, SegmentIsGood
<1> QED
  BY <1>5 DEF off, r

-----------------------------------------------------------------------------
(* What the fields of a description make of a layer.                       *)

\* A field that is set leaves the layer's type, size and buffer as they are.
Kept(l, m) == m \in Layer /\ m.type = l.type /\ m.size = l.size /\ Len(m.data) = Len(l.data)
Fits(l, m) == m = Bad \/ Kept(l, m)

\* strtoul() gives a number (apd.c).
LEMMA AtouType ==
  ASSUME NEW v, Piece(v)
  PROVE  atou(v) \in Nat
BY DEF atou, Piece

\* Writing into the buffer of a layer.
LEMMA StoreKeeps ==
  ASSUME NEW l \in Layer, NEW off \in Int, NEW bytes \in Seq(Byte)
  PROVE  Kept(l, Store(l, off, bytes))
<1> DEFINE d == Put(l.data, off, bytes)
           m == Store(l, off, bytes)
<1>1. d \in Seq(Byte) /\ Len(d) = Len(l.data)
  BY PutType DEF Layer
<1>2. m = [l EXCEPT !.data = d]
  BY DEF Store
<1> HIDE DEF d, m
<1>3. /\ m.data = d /\ m.type = l.type /\ m.size = l.size
      /\ m \in [type : LayerTypes, size : Nat, flags : SUBSET LayerFlags, data : Seq(Byte)]
  BY <1>1, <1>2 DEF Layer
<1> QED
  BY <1>1, <1>3 DEF Kept, Layer, m

\* Taking a field over from its compiler.
LEMMA TakeFits ==
  ASSUME NEW l, NEW m, Fits(l, m), NEW f \in LayerFlags
  PROVE  Fits(l, Take(m, f))
<1>1. CASE m = Bad
  BY <1>1 DEF Take, Fits
<1>2. CASE m # Bad
  <2> DEFINE z == [m EXCEPT !.flags = @ \cup {f}]
  <2>1. m \in Layer /\ m.type = l.type /\ m.size = l.size /\ Len(m.data) = Len(l.data)
    BY <1>2 DEF Fits, Kept
  <2>2. /\ z.data = m.data /\ z.type = m.type /\ z.size = m.size
        /\ z \in [type : LayerTypes, size : Nat, flags : SUBSET LayerFlags, data : Seq(Byte)]
    BY <2>1 DEF Layer
  <2>3. Take(m, f) = z
    BY <1>2 DEF Take
  <2> HIDE DEF z
  <2> QED
    BY <2>1, <2>2, <2>3 DEF Fits, Kept, Layer
<1> QED
  BY <1>1, <1>2

\* A buffer that reaches as far as the field.
LEMMA BytesAt ==
  ASSUME NEW l \in Layer, NEW k \in 1 .. Len(l.data)
  PROVE  l.data[k] \in Byte
BY ElementOfSeq DEF Layer

\* The setters of whole bytes (apd.c: ip->tos = ars_atou(v) and the like).
LEMMA NumFits ==
  ASSUME NEW l \in Layer, NEW v, Piece(v), NEW off \in Nat
  PROVE  /\ Fits(l, Num8(l, off, v)) /\ Fits(l, Num16(l, off, v))
         /\ Fits(l, Num24(l, off, v)) /\ Fits(l, Num32(l, off, v))
         /\ Fits(l, Addr(l, off, v)) /\ Kept(l, Num16(l, off, v))
<1> DEFINE n == atou(v)
<1>1. n \in Nat
  BY AtouType
<1>2. Num8(l, off, v) = Store(l, off, Net(n, 1)) /\ Num16(l, off, v) = Store(l, off, Net(n, 2))
  BY DEF Num8, Num16
<1>3. Num24(l, off, v) = Store(l, off, Net(n, 3)) /\ Num32(l, off, v) = Store(l, off, Net(n, 4))
  BY DEF Num24, Num32
<1> HIDE DEF n
<1>4. Net(n, 1) \in Seq(Byte) /\ Net(n, 2) \in Seq(Byte) /\ Net(n, 3) \in Seq(Byte) /\ Net(n, 4) \in Seq(Byte)
  BY <1>1, NetBytes
<1>5. \A bytes \in Seq(Byte) : Kept(l, Store(l, off, bytes)) /\ Fits(l, Store(l, off, bytes))
  BY StoreKeeps DEF Fits
<1>6. Fits(l, Addr(l, off, v))
  BY <1>5 DEF Addr, Piece, Fits
<1> QED
  BY <1>2, <1>3, <1>4, <1>5, <1>6

\* The setters of half bytes.
LEMMA NibbleFits ==
  ASSUME NEW l \in Layer, NEW v, Piece(v), NEW off \in Nat, off < Len(l.data)
  PROVE  /\ Fits(l, HighNibble(l, off, v)) /\ Fits(l, LowNibble(l, off, v))
         /\ Kept(l, HighNibble(l, off, v)) /\ Kept(l, LowNibble(l, off, v))
<1> DEFINE n == atou(v)
           x == l.data[off + 1]
           low == 16 * (n % 16) + Low(x)
           high == 16 * High(x) + (n % 16)
<1>1. n \in Nat
  BY AtouType
<1>2. x \in 0 .. 255
  <2>1. Len(l.data) \in Nat
    BY LenProperties DEF Layer
  <2>2. off + 1 \in 1 .. Len(l.data)
    BY <2>1
  <2> QED
    BY <2>2, BytesAt DEF Byte
<1> HIDE DEF n, x
<1>3. low \in Byte /\ high \in Byte
  BY <1>1, <1>2 DEF Byte, High, Low
<1>4. HighNibble(l, off, v) = Store(l, off, <<low>>) /\ LowNibble(l, off, v) = Store(l, off, <<high>>)
  BY DEF HighNibble, LowNibble, n, x
<1> HIDE DEF low, high
<1> DEFINE u == <<low>>
           w == <<high>>
<1>5. u \in Seq(Byte) /\ w \in Seq(Byte)
  BY <1>3
<1> HIDE DEF u, w
<1>6. Kept(l, Store(l, off, u)) /\ Kept(l, Store(l, off, w))
  BY <1>5, StoreKeeps
<1> QED
  BY <1>4, <1>6 DEF Fits, u, w

\* The fragment offset and its flags (apd.c:200-225) are two bytes of the
\* header.
LEMMA FragFits ==
  ASSUME NEW l \in Layer, NEW v, Piece(v), Len(l.data) >= 8
  PROVE  Fits(l, FragOff(l, v)) /\ \A bit \in {32, 64, 128} : Fits(l, FragBit(l, bit, v))
<1> DEFINE n == atou(v)
           x == l.data[7]
           y == l.data[8]
           want == IF n = 0 THEN 0 ELSE 1
           q == n \div 8
           w == q % 65536
<1>1. n \in Nat
  BY AtouType
<1>2. x \in 0 .. 255 /\ y \in 0 .. 255
  <2>1. Len(l.data) \in Nat
    BY LenProperties DEF Layer
  <2>2. 7 \in 1 .. Len(l.data) /\ 8 \in 1 .. Len(l.data)
    BY <2>1
  <2> QED
    BY <2>2, BytesAt DEF Byte
<1> HIDE DEF n, x, y
<1>3. want \in 0 .. 1
  OBVIOUS
<1>4. q \in Nat
  BY <1>1
<1> DEFINE set(bit) == x + bit * (want - ((x \div bit) % 2))
<1>5. \A bit \in {32, 64, 128} : FragBit(l, bit, v) = Store(l, 6, <<set(bit)>>)
  BY DEF FragBit, n, x
<1>6. set(32) \in Byte /\ set(64) \in Byte /\ set(128) \in Byte
  <2> HIDE DEF want
  <2> QED
    BY <1>2, <1>3 DEF Byte
<1>7. FragOff(l, v) = Store(l, 6, <<w \div 256, KeepTop(y, w % 256)>>)
  BY SMTT(30) DEF FragOff, n, y
<1> HIDE DEF set, q
<1>8. w \in 0 .. 65535
  BY <1>4, SMTT(30)
<1> HIDE DEF w
<1>9. w \div 256 \in Byte /\ w % 256 \in Byte
  <2>1. w \in Int /\ 0 <= w /\ w <= 65535
    BY <1>8
  <2>2. w \div 256 \in Int /\ 0 <= w \div 256 /\ w \div 256 <= 255
    BY <2>1
  <2>3. w % 256 \in 0 .. 255
    BY <2>1
  <2> QED
    BY <2>1, <2>2, <2>3 DEF Byte
<1>10. ASSUME NEW u \in 0 .. 255 PROVE KeepTop(y, u) \in Byte
  <2> DEFINE a == (y \div 32) % 2
             c == (y \div 64) % 2
             d == (y \div 128) % 2
             e == (u \div 32) % 2
             f == (u \div 64) % 2
             g == (u \div 128) % 2
             r == u % 32
  <2>1. u = r + 32 * e + 64 * f + 128 * g
    BY <1>10
  <2>2. r \in 0 .. 31 /\ e \in 0 .. 1 /\ f \in 0 .. 1 /\ g \in 0 .. 1
    BY <1>10
  <2> DEFINE i == IF a = 1 /\ e = 0 THEN 32 ELSE 0
             j1 == IF c = 1 /\ f = 0 THEN 64 ELSE 0
             k == IF d = 1 /\ g = 0 THEN 128 ELSE 0
  <2>3. KeepTop(y, u) = u + i + j1 + k
    BY DEF KeepTop
  <2> HIDE DEF a, c, d, e, f, g, r
  <2>4. i = 0 \/ (i = 32 /\ e = 0)
    OBVIOUS
  <2>5. j1 = 0 \/ (j1 = 64 /\ f = 0)
    OBVIOUS
  <2>6. k = 0 \/ (k = 128 /\ g = 0)
    OBVIOUS
  <2> HIDE DEF i, j1, k
  <2>7. i \in Int /\ 0 <= i /\ i + 32 * e <= 32
    BY <2>2, <2>4
  <2>8. j1 \in Int /\ 0 <= j1 /\ j1 + 64 * f <= 64
    BY <2>2, <2>5
  <2>9. k \in Int /\ 0 <= k /\ k + 128 * g <= 128
    BY <2>2, <2>6
  <2>10. u + i + j1 + k \in 0 .. 255
    BY <2>1, <2>2, <2>7, <2>8, <2>9
  <2> QED
    BY <2>3, <2>10 DEF Byte
<1>11. \A bytes \in Seq(Byte) : Fits(l, Store(l, 6, bytes))
  BY StoreKeeps DEF Fits
<1>12. \A i, k \in Byte : <<i>> \in Seq(Byte) /\ <<i, k>> \in Seq(Byte)
  BY SMTT(30)
<1>13. KeepTop(y, w % 256) \in Byte
  BY <1>9, <1>10 DEF Byte
<1>14. Fits(l, FragOff(l, v))
  <2> DEFINE i == w \div 256
             k == KeepTop(y, w % 256)
  <2>1. i \in Byte /\ k \in Byte /\ FragOff(l, v) = Store(l, 6, <<i, k>>)
    BY <1>7, <1>9, <1>13
  <2> HIDE DEF i, k
  <2>2. <<i, k>> \in Seq(Byte)
    BY <1>12, <2>1
  <2> QED
    BY <1>11, <2>1, <2>2
<1>15. ASSUME NEW bit \in {32, 64, 128} PROVE Fits(l, FragBit(l, bit, v))
  <2>1. set(bit) \in Byte
    BY <1>6
  <2>2. <<set(bit)>> \in Seq(Byte)
    BY <2>1
  <2> QED
    BY <1>5, <1>11, <2>2
<1> QED
  BY <1>14, <1>15

\* The fields of the IP header (ars_d_set_ip(), apd.c:175-252).
LEMMA SetIp ==
  ASSUME NEW l \in Layer, NEW f, NEW v, Piece(v), Len(l.data) = 20
  PROVE  Fits(l, ars_d_set_ip(l, f, v))
<1>1. \A x : Piece(x) => \A off \in Nat : Fits(l, Num8(l, off, x)) /\ Fits(l, Num16(l, off, x)) /\ Fits(l, Addr(l, off, x))
  BY NumFits
<1>2. Fits(l, LowNibble(l, 0, v)) /\ Fits(l, HighNibble(l, 0, v))
  <2>1. 0 \in Nat /\ 0 < Len(l.data) /\ Len(l.data) >= 8
    OBVIOUS
  <2> QED
    BY <2>1, NibbleFits
<1>3. Fits(l, FragOff(l, v)) /\ Fits(l, FragBit(l, 32, v)) /\ Fits(l, FragBit(l, 64, v)) /\ Fits(l, FragBit(l, 128, v))
  <2>1. Len(l.data) >= 8
    OBVIOUS
  <2>2. \A bit \in {32, 64, 128} : Fits(l, FragBit(l, bit, v))
    BY <2>1, FragFits
  <2>3. Fits(l, FragOff(l, v))
    BY <2>1, FragFits
  <2> QED
    BY <2>2, <2>3
<1>4. \A m : Fits(l, m) => /\ Fits(l, Take(m, "HDRLEN")) /\ Fits(l, Take(m, "VERSION"))
                           /\ Fits(l, Take(m, "TOTLEN")) /\ Fits(l, Take(m, "PROTOCOL"))
                           /\ Fits(l, Take(m, "CKSUM"))
  BY TakeFits DEF LayerFlags
<1> DEFINE n == IF v[1] = "sym" /\ v[2] \in {"icmp", "udp", "tcp"}
                THEN [icmp |-> 1, udp |-> 17, tcp |-> 6][v[2]] ELSE atou(v)
<1>5. Piece(Num(n))
  <2>1. n \in Nat
    BY AtouType
  <2> HIDE DEF n
  <2> QED
    BY <2>1 DEF Piece, Num
<1>6. Fits(l, Bad)
  BY DEF Fits
<1> HIDE DEF n
<1>7. f = "proto" => ars_d_set_ip(l, f, v) = Take(Num8(l, 9, Num(n)), "PROTOCOL")
  BY DEF ars_d_set_ip, n
<1>8. Fits(l, Take(Num8(l, 9, Num(n)), "PROTOCOL"))
  BY <1>1, <1>4, <1>5
<1>9. f # "proto" => Fits(l, ars_d_set_ip(l, f, v))
  BY <1>1, <1>2, <1>3, <1>4, <1>6 DEF ars_d_set_ip
<1> QED
  BY <1>7, <1>8, <1>9

\* The setters that only store numbers (apd.c).
LEMMA SetNumbers ==
  ASSUME NEW l \in Layer, NEW f, NEW v, Piece(v)
  PROVE  /\ Fits(l, ars_d_set_udp(l, f, v))
         /\ Fits(l, ars_d_set_icmp(l, f, v)) /\ Fits(l, ars_d_set_icmp6(l, f, v))
         /\ Fits(l, ars_d_set_ipopt_dumb(l, f, v)) /\ Fits(l, ars_d_set_tcpopt_dumb(l, f, v))
         /\ Fits(l, ars_d_set_tcpopt_mss(l, f, v)) /\ Fits(l, ars_d_set_tcpopt_wscale(l, f, v))
         /\ Fits(l, ars_d_set_tcpopt_echo(l, f, v)) /\ Fits(l, ars_d_set_tcpopt_ts(l, f, v))
<1>1. \A off \in Nat : /\ Fits(l, Num8(l, off, v)) /\ Fits(l, Num16(l, off, v))
                       /\ Fits(l, Num32(l, off, v)) /\ Fits(l, Addr(l, off, v))
  BY NumFits
<1>2. \A m : Fits(l, m) => Fits(l, Take(m, "LEN")) /\ Fits(l, Take(m, "CKSUM"))
  BY TakeFits DEF LayerFlags
<1>3. Fits(l, Bad)
  BY DEF Fits
<1>4. Fits(l, ars_d_set_udp(l, f, v))
  BY <1>1, <1>2, <1>3 DEF ars_d_set_udp
<1>5. Fits(l, ars_d_set_icmp(l, f, v)) /\ Fits(l, ars_d_set_icmp6(l, f, v))
  BY <1>1, <1>2, <1>3 DEF ars_d_set_icmp, ars_d_set_icmp6
<1>6. Fits(l, ars_d_set_ipopt_dumb(l, f, v)) /\ Fits(l, ars_d_set_tcpopt_dumb(l, f, v))
  BY <1>1, <1>3 DEF ars_d_set_ipopt_dumb, ars_d_set_tcpopt_dumb
<1>7. Fits(l, ars_d_set_tcpopt_mss(l, f, v)) /\ Fits(l, ars_d_set_tcpopt_wscale(l, f, v))
  BY <1>1, <1>3 DEF ars_d_set_tcpopt_mss, ars_d_set_tcpopt_wscale
<1>8. Fits(l, ars_d_set_tcpopt_echo(l, f, v)) /\ Fits(l, ars_d_set_tcpopt_ts(l, f, v))
  BY <1>1, <1>3 DEF ars_d_set_tcpopt_echo, ars_d_set_tcpopt_ts
<1> QED
  BY <1>4, <1>5, <1>6, <1>7, <1>8

\* The flags of a segment are eight bits (apd.c: ars_d_set_tcp()).
LEMMA FlagByteType ==
  ASSUME NEW v
  PROVE  FlagByte(v) \in Byte
<1> DEFINE bit(k, value) == IF v[1] = "flags" /\ k \in v[2] THEN value ELSE 0
<1>1. FlagByte(v) = bit(0, 1) + bit(1, 2) + bit(2, 4) + bit(3, 8) + bit(4, 16) + bit(5, 32) + bit(6, 64) + bit(7, 128)
  BY DEF FlagByte
<1>2. \A k : \A value \in Nat : bit(k, value) \in 0 .. value
  OBVIOUS
<1> HIDE DEF bit
<1>3. /\ bit(0, 1) \in 0 .. 1 /\ bit(1, 2) \in 0 .. 2 /\ bit(2, 4) \in 0 .. 4 /\ bit(3, 8) \in 0 .. 8
      /\ bit(4, 16) \in 0 .. 16 /\ bit(5, 32) \in 0 .. 32 /\ bit(6, 64) \in 0 .. 64 /\ bit(7, 128) \in 0 .. 128
  BY <1>2
<1> DEFINE r == bit(0, 1)
           s == bit(1, 2)
           t == bit(2, 4)
           u == bit(3, 8)
           w == bit(4, 16)
           x == bit(5, 32)
           y == bit(6, 64)
           z == bit(7, 128)
<1>4. FlagByte(v) = r + s + t + u + w + x + y + z
  BY <1>1
<1>5. /\ r \in 0 .. 1 /\ s \in 0 .. 2 /\ t \in 0 .. 4 /\ u \in 0 .. 8
      /\ w \in 0 .. 16 /\ x \in 0 .. 32 /\ y \in 0 .. 64 /\ z \in 0 .. 128
  BY <1>3
<1> HIDE DEF r, s, t, u, w, x, y, z
<1> QED
  BY <1>4, <1>5 DEF Byte

\* The fields of the TCP header (ars_d_set_tcp(), apd.c).
LEMMA SetTcp ==
  ASSUME NEW l \in Layer, NEW f, NEW v, Piece(v), Len(l.data) = 20
  PROVE  Fits(l, ars_d_set_tcp(l, f, v))
<1>1. \A off \in Nat : Fits(l, Num16(l, off, v)) /\ Fits(l, Num32(l, off, v))
  BY NumFits
<1>2. Fits(l, LowNibble(l, 12, v)) /\ Fits(l, HighNibble(l, 12, v))
  <2>1. 12 \in Nat /\ 12 < Len(l.data)
    OBVIOUS
  <2> QED
    BY <2>1, NibbleFits
<1>3. \A m : Fits(l, m) => Fits(l, Take(m, "HDRLEN")) /\ Fits(l, Take(m, "CKSUM"))
  BY TakeFits DEF LayerFlags
<1>4. Fits(l, Bad)
  BY DEF Fits
<1>5. Fits(l, Store(l, 13, <<FlagByte(v)>>))
  <2> DEFINE bytes == <<FlagByte(v)>>
  <2>1. bytes \in Seq(Byte)
    BY FlagByteType
  <2> HIDE DEF bytes
  <2>2. Kept(l, Store(l, 13, bytes))
    BY <2>1, StoreKeeps
  <2> QED
    BY <2>2 DEF Fits, bytes
<1> QED
  BY <1>1, <1>2, <1>3, <1>4, <1>5 DEF ars_d_set_tcp

\* The fields of the IPv6 header (ars_d_set_ip6(), apd.c).
LEMMA SetIp6 ==
  ASSUME NEW l \in Layer, NEW f, NEW v, Piece(v), Len(l.data) = 40
  PROVE  Fits(l, ars_d_set_ip6(l, f, v))
<1> DEFINE n == atou(v)
           names == [icmp6 |-> 58, icmpv6 |-> 58, udp |-> 17, tcp |-> 6, none |-> 59]
           nh == IF v[1] = "sym" /\ v[2] \in DOMAIN names THEN names[v[2]] ELSE n
<1>1. n \in Nat /\ nh \in Nat
  BY AtouType
<1> DEFINE class == n \div 16
           flow == n \div 65536
<1>2. class \in Nat /\ flow \in Nat
  BY <1>1
<1>3. /\ f = "tclass" => ars_d_set_ip6(l, f, v) = HighNibble(LowNibble(l, 0, Num(class)), 1, v)
      /\ f = "flow" => ars_d_set_ip6(l, f, v) = Num16(LowNibble(l, 1, Num(flow)), 2, v)
      /\ f \in {"nh", "nexthdr"} => ars_d_set_ip6(l, f, v) = Take(Num8(l, 6, Num(nh)), "NEXTHDR")
  BY DEF ars_d_set_ip6
<1> HIDE DEF n, nh, class, flow
<1>4. Piece(Num(class)) /\ Piece(Num(flow)) /\ Piece(Num(nh))
  BY <1>1, <1>2 DEF Piece, Num
<1>5. \A x : Piece(x) => \A off \in Nat : Fits(l, Num8(l, off, x)) /\ Fits(l, Num16(l, off, x)) /\ Fits(l, Addr(l, off, x))
  BY NumFits
<1>6. \A m : Fits(l, m) => /\ Fits(l, Take(m, "VERSION")) /\ Fits(l, Take(m, "PAYLOADLEN"))
                           /\ Fits(l, Take(m, "NEXTHDR"))
  BY TakeFits DEF LayerFlags
<1>7. Fits(l, Bad)
  BY DEF Fits
<1>8. \A m \in Layer : \A x : Len(m.data) = 40 /\ Piece(x) =>
         Kept(m, HighNibble(m, 0, x)) /\ Kept(m, LowNibble(m, 0, x)) /\ Kept(m, LowNibble(m, 1, x)) /\ Kept(m, HighNibble(m, 1, x))
  <2>1. 0 \in Nat /\ 1 \in Nat /\ 0 < 40 /\ 1 < 40
    OBVIOUS
  <2> QED
    BY <2>1, NibbleFits
<1>9. \A m, z : Kept(l, m) /\ Kept(m, z) => Fits(l, z)
  BY DEF Kept, Fits
<1>10. CASE f = "tclass"
  <2> DEFINE m == LowNibble(l, 0, Num(class))
  <2>1. Kept(l, m)
    BY <1>4, <1>8
  <2> HIDE DEF m
  <2>2. m \in Layer /\ Len(m.data) = 40
    BY <2>1 DEF Kept
  <2>3. Kept(m, HighNibble(m, 1, v))
    BY <1>8, <2>2
  <2> QED
    BY <1>3, <1>9, <1>10, <2>1, <2>3 DEF m
<1>11. CASE f = "flow"
  <2> DEFINE m == LowNibble(l, 1, Num(flow))
  <2>1. Kept(l, m)
    BY <1>4, <1>8
  <2> HIDE DEF m
  <2>2. m \in Layer
    BY <2>1 DEF Kept
  <2>3. Kept(m, Num16(m, 2, v))
    BY <2>2, NumFits
  <2> QED
    BY <1>3, <1>9, <1>11, <2>1, <2>3 DEF m
<1>12. CASE f \in {"nh", "nexthdr"}
  BY <1>3, <1>4, <1>5, <1>6, <1>12
<1>13. CASE f \notin {"nh", "nexthdr", "tclass", "flow"}
  <2>1. Fits(l, HighNibble(l, 0, v))
    BY <1>8 DEF Fits
  <2> QED
    BY <1>5, <1>6, <1>7, <1>13, <2>1 DEF ars_d_set_ip6
<1> QED
  BY <1>10, <1>11, <1>12, <1>13

\* The fields of the IGRP header and of its entries (apd.c).
LEMMA SetIgrp ==
  ASSUME NEW l \in Layer, NEW f, NEW v, Piece(v)
  PROVE  /\ Len(l.data) = 12 => Fits(l, ars_d_set_igrp(l, f, v))
         /\ Fits(l, ars_d_set_igrpentry(l, f, v))
<1>1. \A off \in Nat : /\ Fits(l, Num8(l, off, v)) /\ Fits(l, Num16(l, off, v))
                       /\ Fits(l, Num24(l, off, v))
  BY NumFits
<1>2. \A m : Fits(l, m) => Fits(l, Take(m, "CKSUM"))
  BY TakeFits DEF LayerFlags
<1>3. Fits(l, Bad)
  BY DEF Fits
<1>4. Fits(l, igrp_set_dest(l, v))
  BY <1>3, StoreKeeps DEF igrp_set_dest, Piece, Fits
<1>5. Fits(l, ars_d_set_igrpentry(l, f, v))
  BY <1>1, <1>3, <1>4 DEF ars_d_set_igrpentry
<1>6. ASSUME Len(l.data) = 12 PROVE Fits(l, ars_d_set_igrp(l, f, v))
  <2> DEFINE x == IF v[1] = "sym" /\ v[2] \in {"update", "request"}
                  THEN Num([update |-> 1, request |-> 2][v[2]]) ELSE v
  <2>1. Piece(x)
    BY DEF Piece, Num
  <2>2. f = "opcode" => ars_d_set_igrp(l, f, v) = LowNibble(l, 0, x)
    BY DEF ars_d_set_igrp
  <2> HIDE DEF x
  <2>3. 0 \in Nat /\ 0 < Len(l.data)
    BY <1>6
  <2>4. Fits(l, LowNibble(l, 0, x)) /\ Fits(l, HighNibble(l, 0, v))
    BY <2>1, <2>3, NibbleFits
  <2>5. f # "opcode" => Fits(l, ars_d_set_igrp(l, f, v))
    BY <1>1, <1>2, <1>3, <2>4 DEF ars_d_set_igrp
  <2> QED
    BY <2>2, <2>4, <2>5
<1> QED
  BY <1>5, <1>6

\* Flattening what is a sequence of bytes piece by piece.
LEMMA FlatPieces ==
  ASSUME NEW T, NEW n \in Nat, NEW f \in [1 .. n -> Seq(T)]
  PROVE  FlattenSeq(f) \in Seq(T)
<1>1. f \in Seq(Seq(T))
  BY IsASeq
<1> QED
  BY <1>1, FlattenLen

\* The pieces of a list, max of them at most (strftok()).
LEMMA PiecesType ==
  ASSUME NEW v, Lexeme(v), v[1] = "list", NEW max \in Nat
  PROVE  Len(Pieces(v, max)) \in Nat /\ \A k \in 1 .. Len(Pieces(v, max)) : Piece(Pieces(v, max)[k])
<1> DEFINE s == v[2]
           T == ToSet(s)
           n == Len(s)
           m == Min({max, n})
<1>1. s \in Seq(T) /\ \A y \in T : Piece(y)
  BY DEF Lexeme
<1> HIDE DEF s, T
<1>2. n \in Nat
  BY <1>1, LenProperties
<1>3. m = IF max <= n THEN max ELSE n
  BY <1>2, MinOfTwo
<1> HIDE DEF m
<1>4. m \in Nat /\ m <= n
  BY <1>2, <1>3
<1>5. SubSeq(s, 1, m) \in Seq(T) /\ Len(SubSeq(s, 1, m)) = m
  BY <1>1, <1>4, SubSeqProperties, ElementOfSeq
<1>6. Pieces(v, max) = SubSeq(s, 1, m)
  BY DEF Pieces, s, m
<1> QED
  BY <1>1, <1>4, <1>5, <1>6, ElementOfSeq

\* The pointer of an option (apd.c: ars_d_set_ipopt_rr()).
LEMMA PtrFits ==
  ASSUME NEW l \in Layer, NEW m, Kept(l, m), NEW n \in Nat
  PROVE  Fits(l, SetPtr(m, n))
<1> DEFINE x == n % 256
           bytes == <<x>>
<1>1. bytes \in Seq(Byte)
  BY DEF Byte
<1>2. SetPtr(m, n) = IF "PTR" \in m.flags THEN m ELSE Store(m, 2, bytes)
  BY DEF SetPtr
<1> HIDE DEF bytes
<1>3. Kept(m, Store(m, 2, bytes))
  BY <1>1, StoreKeeps DEF Kept
<1> QED
  BY <1>2, <1>3 DEF Kept, Fits

\* The route options (ars_d_set_ipopt_rr(), apd.c:254-295).
LEMMA SetRr ==
  ASSUME NEW l \in Layer, NEW f, NEW v, Lexeme(v)
  PROVE  Fits(l, ars_d_set_ipopt_rr(l, f, v))
<1> DEFINE addrs == Pieces(v, 9)
           n == Len(addrs)
           bytes == [k \in 1 .. n |-> addrs[k][2]]
           ptr == IF l.data[1] = IPOPT.rr THEN 4 + 4 * n ELSE 4
<1>1. Fits(l, Bad)
  BY DEF Fits
<1>2. Fits(l, Num8(l, 1, v)) /\ Fits(l, Num8(l, 2, v))
  BY NumFits DEF Lexeme
<1>3. Fits(l, Take(Num8(l, 2, v), "PTR"))
  BY <1>2, TakeFits DEF LayerFlags
<1>4. f # "data" => Fits(l, ars_d_set_ipopt_rr(l, f, v))
  BY <1>1, <1>2, <1>3 DEF ars_d_set_ipopt_rr
<1>5. f = "data" => \/ ars_d_set_ipopt_rr(l, f, v) = Bad
                    \/ /\ v[1] = "list" /\ \A k \in 1 .. n : addrs[k][1] = "addr"
                       /\ ars_d_set_ipopt_rr(l, f, v) = SetPtr(Store(l, 3, FlattenSeq(bytes)), ptr)
  BY DEF ars_d_set_ipopt_rr, StoreAll
<1>6. ASSUME v[1] = "list", \A k \in 1 .. n : addrs[k][1] = "addr"
      PROVE  Fits(l, SetPtr(Store(l, 3, FlattenSeq(bytes)), ptr))
  <2>1. n \in Nat /\ \A k \in 1 .. n : Piece(addrs[k])
    BY <1>6, PiecesType
  <2> HIDE DEF addrs
  <2>2. \A k \in 1 .. n : addrs[k][2] \in Seq(Byte)
    BY <1>6, <2>1 DEF Piece
  <2> HIDE DEF n
  <2>3. bytes \in [1 .. n -> Seq(Byte)] /\ ptr \in Nat
    BY <2>1, <2>2
  <2> HIDE DEF bytes, ptr
  <2>4. FlattenSeq(bytes) \in Seq(Byte)
    BY <2>1, <2>3, FlatPieces
  <2>5. Kept(l, Store(l, 3, FlattenSeq(bytes)))
    BY <2>4, StoreKeeps
  <2> QED
    BY <2>3, <2>5, PtrFits
<1> QED
  BY <1>1, <1>4, <1>5, <1>6

\* The characters of a value are bytes.
LEMMA CharsType ==
  ASSUME NEW v, Piece(v)
  PROVE  Chars(v) \in Seq(Byte)
<1>1. \A x \in {40, 41, 43, 44, 61} : <<x>> \in Seq(Byte)
  BY DEF Byte
<1>2. << >> \in Seq(Byte)
  BY EmptySeq
<1>3. CASE v[1] = "text"
  <2>1. \A x : v = <<x>> => x = "text"
    BY <1>3
  <2> QED
    BY <1>3, <2>1 DEF Chars, Piece
<1>4. CASE v[1] # "text"
  BY <1>1, <1>2, <1>4 DEF Chars
<1> QED
  BY <1>3, <1>4

\* Two hexadecimal digits are one byte.
LEMMA HexType ==
  ASSUME NEW c \in Seq(Byte), IsHex(c)
  PROVE  HexBytes(c) \in Seq(Byte) /\ Len(HexBytes(c)) = Len(c) \div 2
<1> DEFINE n == Len(c) \div 2
           e(k) == 16 * hexval(c[2 * k - 1]) + hexval(c[2 * k])
           f == [k \in 1 .. n |-> e(k)]
<1>1. Len(c) \in Nat
  BY LenProperties
<1>2. n \in Nat
  BY <1>1
<1>3. \A k \in 1 .. n : 2 * k - 1 \in 1 .. Len(c) /\ 2 * k \in 1 .. Len(c)
  BY <1>1
<1>4. \A k \in 1 .. Len(c) : hexval(c[k]) \in 0 .. 15
  <2>1. \A x \in Byte : hexval(x) \in -1 .. 15
    BY DEF hexval, Byte
  <2>2. \A k \in 1 .. Len(c) : c[k] \in Byte /\ hexval(c[k]) >= 0
    BY ElementOfSeq DEF IsHex
  <2> QED
    BY <2>1, <2>2
<1>5. ASSUME NEW k \in 1 .. n PROVE e(k) \in Byte
  <2> DEFINE x == hexval(c[2 * k - 1])
             y == hexval(c[2 * k])
  <2>1. x \in 0 .. 15 /\ y \in 0 .. 15
    BY <1>3, <1>4
  <2>2. e(k) = 16 * x + y
    OBVIOUS
  <2> HIDE DEF x, y, e
  <2> QED
    BY <2>1, <2>2 DEF Byte
<1>6. f = HexBytes(c)
  BY DEF HexBytes
<1> HIDE DEF e, n
<1>7. f \in [1 .. n -> Byte]
  BY <1>5
<1> HIDE DEF f
<1>8. f \in Seq(Byte) /\ Len(f) = n
  BY <1>2, <1>7
<1> QED
  BY <1>6, <1>8 DEF n

\* Host order is the reverse of network order.
LEMMA ReverseType ==
  ASSUME NEW n \in Nat
  PROVE  Reverse(Net(n, 2)) \in Seq(Byte)
<1> DEFINE s == Net(n, 2)
           f == [i \in 1 .. Len(s) |-> s[(Len(s) - i) + 1]]
<1>1. s \in Seq(Byte) /\ Len(s) = 2
  BY NetBytes
<1>2. Reverse(s) = f
  BY DEF Reverse
<1> HIDE DEF s
<1>3. \A i \in 1 .. Len(s) : (Len(s) - i) + 1 \in 1 .. Len(s)
  BY <1>1
<1>4. f \in [1 .. Len(s) -> Byte]
  BY <1>1, <1>3, ElementOfSeq
<1> HIDE DEF f
<1>5. f \in Seq(Byte)
  <2> DEFINE m == Len(s)
  <2>1. m \in Nat /\ f \in [1 .. m -> Byte]
    BY <1>1, <1>4
  <2> HIDE DEF m
  <2> QED
    BY <2>1, IsASeq
<1> QED
  BY <1>2, <1>5 DEF s

\* The stream and security options (apd.c: ars_d_set_ipopt_sid(), _sec()).
LEMMA SetSidSec ==
  ASSUME NEW l \in Layer, NEW f, NEW v, Piece(v)
  PROVE  Fits(l, ars_d_set_ipopt_sid(l, f, v)) /\ Fits(l, ars_d_set_ipopt_sec(l, f, v))
<1>1. Fits(l, Bad) /\ Fits(l, Num8(l, 1, v))
  BY NumFits DEF Fits
<1> DEFINE bytes == Reverse(Net(atou(v), 2))
           c == Chars(v)
<1>2. bytes \in Seq(Byte) /\ c \in Seq(Byte)
  BY AtouType, ReverseType, CharsType
<1> HIDE DEF bytes, c
<1>3. Fits(l, Store(l, 2, bytes)) /\ Fits(l, Store(l, 4, bytes))
  BY <1>2, StoreKeeps DEF Fits
<1>4. IsHex(c) => Fits(l, Store(l, 6, HexBytes(c))) /\ Fits(l, Store(l, 8, HexBytes(c)))
  BY <1>2, HexType, StoreKeeps DEF Fits
<1>5. Fits(l, ars_d_set_ipopt_sid(l, f, v))
  BY <1>1, <1>3 DEF ars_d_set_ipopt_sid, bytes
<1>6. Fits(l, ars_d_set_ipopt_sec(l, f, v))
  BY <1>1, <1>3, <1>4 DEF ars_d_set_ipopt_sec, bytes, c
<1> QED
  BY <1>5, <1>6

\* Selective acknowledgments (apd.c: ars_d_set_tcpopt_sack()).
LEMMA SetSack ==
  ASSUME NEW l \in Layer, NEW f, NEW v, Lexeme(v)
  PROVE  Fits(l, ars_d_set_tcpopt_sack(l, f, v))
<1> DEFINE blocks == Pieces(v, 4)
           n == Len(blocks)
           bytes == [k \in 1 .. n |-> Net(blocks[k][2], 4) \o Net(blocks[k][3], 4)]
<1>1. Fits(l, Bad) /\ Fits(l, Num8(l, 1, v))
  BY NumFits DEF Fits, Lexeme
<1>2. f # "blocks" => Fits(l, ars_d_set_tcpopt_sack(l, f, v))
  BY <1>1 DEF ars_d_set_tcpopt_sack
<1>3. f = "blocks" => \/ ars_d_set_tcpopt_sack(l, f, v) = Bad
                      \/ /\ v[1] = "list" /\ \A k \in 1 .. n : blocks[k][1] = "pair"
                         /\ ars_d_set_tcpopt_sack(l, f, v) = Store(l, 2, FlattenSeq(bytes))
  BY DEF ars_d_set_tcpopt_sack, StoreAll
<1>4. ASSUME v[1] = "list", \A k \in 1 .. n : blocks[k][1] = "pair"
      PROVE  Fits(l, Store(l, 2, FlattenSeq(bytes)))
  <2>1. n \in Nat /\ \A k \in 1 .. n : Piece(blocks[k])
    BY <1>4, PiecesType
  <2> HIDE DEF blocks
  <2>2. \A k \in 1 .. n : blocks[k][2] \in Nat /\ blocks[k][3] \in Nat
    BY <1>4, <2>1 DEF Piece
  <2>3. \A x, y \in Nat : Net(x, 4) \o Net(y, 4) \in Seq(Byte)
    BY NetLong, ConcatProperties
  <2> HIDE DEF n
  <2>4. bytes \in [1 .. n -> Seq(Byte)]
    BY <2>2, <2>3
  <2> HIDE DEF bytes
  <2>5. FlattenSeq(bytes) \in Seq(Byte)
    BY <2>1, <2>4, FlatPieces
  <2> QED
    BY <2>5, StoreKeeps DEF Fits
<1> QED
  BY <1>1, <1>2, <1>3, <1>4

\* Time stamps (ars_d_set_ipopt_ts(), apd.c:297-385).
LEMMA SetTs ==
  ASSUME NEW l \in Layer, NEW f, NEW v, Lexeme(v), Len(l.data) = 40
  PROVE  Fits(l, ars_d_set_ipopt_ts(l, f, v))
<1> DEFINE entries == Pieces(v, 9)
           n == Len(entries)
           m == Min({n, IF entries # << >> /\ entries[1][1] = "at" THEN 4 ELSE 9})
           fit == SubSeq(entries, 1, m)
           data(e) == IF e[1] = "at" THEN e[3] \o Net(e[2], 4) ELSE Net(atou(e), 4)
           bytes == [k \in 1 .. Len(fit) |-> data(fit[k])]
           ptr == 5 + n * IF Low(l.data[4]) \in {1, 3} THEN 8 ELSE 4
           sym == [tsonly |-> 0, tsandaddr |-> 1, prespec |-> 3][v[2]]
<1>1. Piece(v) /\ Fits(l, Bad)
  BY DEF Lexeme, Fits
<1>2. Fits(l, Num8(l, 1, v)) /\ Fits(l, Num8(l, 2, v))
  BY <1>1, NumFits
<1>3. Fits(l, Take(Num8(l, 2, v), "PTR"))
  BY <1>2, TakeFits DEF LayerFlags
<1>4. ASSUME NEW x, Piece(x) PROVE Fits(l, LowNibble(l, 3, x)) /\ Fits(l, HighNibble(l, 3, x))
  <2>1. 3 \in Nat /\ 3 < Len(l.data)
    OBVIOUS
  <2> QED
    BY <1>4, <2>1, NibbleFits
<1>5. v[2] \in {"tsonly", "tsandaddr", "prespec"} => Piece(Num(sym))
  BY DEF Piece, Num
<1>6. f = "flags" => \/ ars_d_set_ipopt_ts(l, f, v) \in {Bad, LowNibble(l, 3, v)}
                     \/ /\ v[2] \in {"tsonly", "tsandaddr", "prespec"}
                        /\ ars_d_set_ipopt_ts(l, f, v) = LowNibble(l, 3, Num(sym))
  BY DEF ars_d_set_ipopt_ts
<1>7. f = "data" => \/ ars_d_set_ipopt_ts(l, f, v) = Bad
                    \/ /\ v[1] = "list"
                       /\ ars_d_set_ipopt_ts(l, f, v) = SetPtr(Store(l, 4, FlattenSeq(bytes)), ptr)
  BY DEF ars_d_set_ipopt_ts, StoreAll
<1>8. f \notin {"flags", "data"} => Fits(l, ars_d_set_ipopt_ts(l, f, v))
  BY <1>1, <1>2, <1>3, <1>4 DEF ars_d_set_ipopt_ts
<1>9. ASSUME v[1] = "list" PROVE Fits(l, SetPtr(Store(l, 4, FlattenSeq(bytes)), ptr))
  <2>1. n \in Nat /\ \A k \in 1 .. n : Piece(entries[k])
    BY <1>9, PiecesType
  <2> HIDE DEF entries
  <2>2. m \in 0 .. n
    <3> DEFINE most == IF entries # << >> /\ entries[1][1] = "at" THEN 4 ELSE 9
    <3>1. most \in Nat
      OBVIOUS
    <3> HIDE DEF most, n
    <3>2. Min({n, most}) = IF n <= most THEN n ELSE most
      BY <2>1, <3>1, MinOfTwo
    <3> QED
      BY <2>1, <3>1, <3>2 DEF most
  <2> HIDE DEF m
  <2>3. fit = [k \in 1 .. m |-> entries[k]]
    BY <2>1, <2>2
  <2> HIDE DEF fit
  <2>4. Len(fit) = m /\ \A k \in 1 .. m : Piece(fit[k])
    BY <2>1, <2>2, <2>3
  <2>5. ASSUME NEW e, Piece(e) PROVE data(e) \in Seq(Byte)
    BY <2>5, AtouType, NetLong, ConcatProperties DEF Piece
  <2>6. ptr \in Nat
    <3> HIDE DEF n
    <3> QED
      BY <2>1
  <2> HIDE DEF data, ptr
  <2>7. bytes \in [1 .. m -> Seq(Byte)] /\ m \in Nat
    BY <2>1, <2>2, <2>4, <2>5
  <2> HIDE DEF bytes
  <2>8. FlattenSeq(bytes) \in Seq(Byte)
    BY <2>7, FlatPieces
  <2>9. Kept(l, Store(l, 4, FlattenSeq(bytes)))
    BY <2>8, StoreKeeps
  <2> QED
    BY <2>6, <2>9, PtrFits
<1> HIDE DEF entries, ptr, bytes, sym
<1> QED
  BY <1>1, <1>4, <1>5, <1>6, <1>7, <1>8, <1>9

\* Decoding the escapes of a string gives bytes (ars_decode_string(), apd.c).
LEMMA DecodeType ==
  ASSUME NEW c \in Seq(Byte)
  PROVE  ars_decode_string(c) \in Seq(Byte)
<1> DEFINE n == Len(c)
           last == n + 1
           New(h, k) == CASE k > n -> << >>
                          [] k <= n /\ c[k] = 92 /\ k + 2 <= n
                               /\ IsHex(SubSeq(c, k + 1, k + 2)) ->
                               HexBytes(SubSeq(c, k + 1, k + 2)) \o h[k + 3]
                          [] OTHER -> <<c[k]>> \o h[k + 1]
           Decodes(h, a) == \A k \in a .. last : h[k] = New(h, k)
           S == {m \in Nat : \E h \in [last - m .. last -> Seq(Byte)] : Decodes(h, last - m)}
<1>1. n \in Nat /\ \A k \in 1 .. n : c[k] \in Byte
  BY LenProperties, ElementOfSeq
<1>2. ASSUME NEW k \in 1 .. n, NEW h,
             h[k + 1] \in Seq(Byte), k + 2 <= n => h[k + 3] \in Seq(Byte)
      PROVE  New(h, k) \in Seq(Byte)
  <2>1. c[k] \in Byte /\ ~ (k > n)
    BY <1>1
  <2>2. <<c[k]>> \o h[k + 1] \in Seq(Byte)
    BY <1>2, <2>1
  <2>3. k + 2 <= n /\ IsHex(SubSeq(c, k + 1, k + 2)) =>
          HexBytes(SubSeq(c, k + 1, k + 2)) \o h[k + 3] \in Seq(Byte)
    <3>1. SUFFICES ASSUME k + 2 <= n, IsHex(SubSeq(c, k + 1, k + 2))
                   PROVE  HexBytes(SubSeq(c, k + 1, k + 2)) \o h[k + 3] \in Seq(Byte)
      OBVIOUS
    <3> DEFINE y == k + 2
               pair == SubSeq(c, k + 1, y)
    <3>2. k \in Nat /\ y \in Nat /\ k <= y /\ y <= Len(c)
      BY <1>1, <3>1
    <3>3. pair \in Seq(Byte)
      <4> HIDE DEF y, n
      <4> QED
        BY <3>2, PieceType
    <3>4. IsHex(pair)
      BY <3>1
    <3> HIDE DEF pair
    <3>5. HexBytes(pair) \in Seq(Byte)
      BY <3>3, <3>4, HexType
    <3>6. HexBytes(pair) \o h[k + 3] \in Seq(Byte)
      BY <1>2, <3>1, <3>5
    <3> QED
      BY <3>6 DEF pair
  <2> DEFINE one == <<c[k]>> \o h[k + 1]
             two == HexBytes(SubSeq(c, k + 1, k + 2)) \o h[k + 3]
             esc == c[k] = 92 /\ k + 2 <= n /\ IsHex(SubSeq(c, k + 1, k + 2))
  <2>4. New(h, k) = IF esc THEN two ELSE one
    <3>1. k <= n
      OBVIOUS
    <3> QED
      BY <2>1, <3>1
  <2>5. one \in Seq(Byte) /\ (esc => two \in Seq(Byte))
    BY <2>2, <2>3
  <2> HIDE DEF one, two, esc, New
  <2> QED
    BY <2>4, <2>5
<1>3. 0 \in S
  <2> DEFINE h == [k \in last .. last |-> << >>]
  <2>1. h \in [last - 0 .. last -> Seq(Byte)] /\ h[last] = << >> /\ last > n
    BY <1>1
  <2>2. New(h, last) = << >>
    BY <2>1
  <2>3. \A k \in last - 0 .. last : k = last
    BY <1>1
  <2> HIDE DEF h, New, last
  <2> QED
    BY <2>1, <2>2, <2>3
<1>4. ASSUME NEW m \in 0 .. n - 1, m \in S PROVE m + 1 \in S
  <2> DEFINE a == last - m
             e == last - (m + 1)
  <2>1. PICK h \in [a .. last -> Seq(Byte)] : Decodes(h, a)
    BY <1>4
  <2> DEFINE g == [k \in e .. last |-> IF k = e THEN New(h, e) ELSE h[k]]
  <2>2. e \in 1 .. n /\ a = e + 1 /\ a <= last /\ last = n + 1
    BY <1>1
  <2>3. New(h, e) \in Seq(Byte)
    <3>1. h[e + 1] \in Seq(Byte) /\ (e + 2 <= n => h[e + 3] \in Seq(Byte))
      <4> HIDE DEF a, e, n, last
      <4> QED
        BY <1>1, <2>1, <2>2
    <3> HIDE DEF e, New, n
    <3> QED
      BY <1>2, <2>2, <3>1
  <2>4. g \in [e .. last -> Seq(Byte)] /\ g[e] = New(h, e) /\ \A k \in a .. last : g[k] = h[k]
    <3> HIDE DEF New, a, e, n, last
    <3> QED
      BY <1>1, <2>1, <2>2, <2>3
  <2>5. ASSUME NEW k \in e .. last PROVE g[k] = New(g, k)
    <3>1. g[k] = New(h, k)
      <4>1. CASE k = e
        BY <4>1, <2>4
      <4>2. CASE k \in a .. last
        <5> HIDE DEF g, New, a
        <5> QED
          BY <4>2, <2>1, <2>4
      <4> HIDE DEF g, New, a, e, n, last
      <4> QED
        BY <1>1, <2>2, <4>1, <4>2
    <3>2. New(h, k) = New(g, k)
      <4>1. CASE k > n
        BY <4>1
      <4>2. CASE k <= n
        <5>1. g[k + 1] = h[k + 1] /\ (k + 2 <= n => g[k + 3] = h[k + 3])
          <6> HIDE DEF g, a, e, n, last
          <6>1. k + 1 \in a .. last /\ (k + 2 <= n => k + 3 \in a .. last)
            BY <1>1, <2>2, <4>2
          <6> QED
            BY <6>1, <2>4
        <5> HIDE DEF g, n
        <5> QED
          BY <5>1
      <4> HIDE DEF n, New, g, e, last
      <4> QED
        BY <1>1, <2>2, <4>1, <4>2
    <3> QED
      BY <3>1, <3>2
  <2>6. Decodes(g, e)
    <3> HIDE DEF g, New, e, last
    <3> QED
      BY <2>5
  <2> HIDE DEF g, Decodes, n
  <2> QED
    BY <2>4, <2>6
<1> HIDE DEF S
<1>5. n \in S
  <2> HIDE DEF n
  <2>1. \A m \in 0 .. n : m \in S
    BY <1>1, <1>3, <1>4, UpTo
  <2> QED
    BY <1>1, <2>1
<1>6. PICK h \in [1 .. last -> Seq(Byte)] : Decodes(h, 1)
  <2>1. last - n = 1
    BY <1>1
  <2> HIDE DEF Decodes, last, n
  <2> QED
    BY <1>5, <2>1 DEF S
<1> DEFINE Eqn(f) == f = [k \in 1 .. Len(c) + 1 |->
                            CASE k > Len(c) -> << >>
                              [] k <= Len(c) /\ c[k] = 92 /\ k + 2 <= Len(c)
                                   /\ IsHex(SubSeq(c, k + 1, k + 2)) ->
                                   HexBytes(SubSeq(c, k + 1, k + 2)) \o f[k + 3]
                              [] OTHER -> <<c[k]>> \o f[k + 1]]
           dec == CHOOSE f : Eqn(f)
<1>7. Eqn(h)
  <2>1. h = [k \in 1 .. last |-> h[k]]
    BY <1>6
  <2>2. \A k \in 1 .. last : h[k] = New(h, k)
    BY <1>6
  <2>3. h = [k \in 1 .. last |-> New(h, k)]
    <3> HIDE DEF New, last
    <3> QED
      BY <2>1, <2>2
  <2> QED
    BY <2>3
<1>8. Eqn(dec)
  <2> HIDE DEF Eqn
  <2> QED
    BY <1>7
<1>9. \A k \in 1 .. last : dec[k] = New(dec, k)
  <2> HIDE DEF dec
  <2>1. dec = [k \in 1 .. last |-> New(dec, k)]
    BY <1>8
  <2> HIDE DEF New, last
  <2> QED
    BY <2>1
<1>10. ars_decode_string(c) = dec[1]
  BY DEF ars_decode_string
<1> HIDE DEF dec, Eqn
<1> DEFINE R == {m \in Nat : \A k \in last - m .. last : k >= 1 => dec[k] \in Seq(Byte)}
<1>11. 0 \in R
  <2>1. New(dec, last) = << >> /\ last \in 1 .. last
    BY <1>1
  <2>2. dec[last] \in Seq(Byte)
    <3>1. << >> \in Seq(Byte)
      OBVIOUS
    <3>2. dec[last] = New(dec, last)
      <4> HIDE DEF New, last
      <4> QED
        BY <1>9, <2>1
    <3> HIDE DEF New, last
    <3> QED
      BY <2>1, <3>1, <3>2
  <2>3. \A k \in last - 0 .. last : k = last
    BY <1>1
  <2> HIDE DEF last
  <2> QED
    BY <2>2, <2>3
<1>12. ASSUME NEW m \in 0 .. n - 1, m \in R PROVE m + 1 \in R
  <2> DEFINE e == last - (m + 1)
  <2>1. e \in 1 .. n /\ e + 1 = last - m /\ last = n + 1 /\ m + 1 \in Nat
    BY <1>1
  <2>2. \A k \in e + 1 .. last : dec[k] \in Seq(Byte)
    <3>1. \A k \in last - m .. last : k >= 1 => dec[k] \in Seq(Byte)
      BY <1>12
    <3> HIDE DEF e, last, n
    <3> QED
      BY <1>1, <2>1, <3>1
  <2>3. dec[e] \in Seq(Byte)
    <3>1. dec[e + 1] \in Seq(Byte) /\ (e + 2 <= n => dec[e + 3] \in Seq(Byte))
      <4> HIDE DEF e, last, n
      <4> QED
        BY <1>1, <2>1, <2>2
    <3>2. e \in 1 .. last
      <4> HIDE DEF e, last, n
      <4> QED
        BY <1>1, <2>1
    <3> HIDE DEF New, e, n, last
    <3> QED
      BY <1>2, <1>9, <2>1, <3>1, <3>2
  <2>4. \A k \in e .. last : dec[k] \in Seq(Byte)
    <3> HIDE DEF e, last, n
    <3>1. \A k \in e .. last : k = e \/ k \in e + 1 .. last
      BY <1>1, <2>1
    <3> QED
      BY <2>2, <2>3, <3>1
  <2> HIDE DEF last, n
  <2> QED
    BY <2>1, <2>4
<1>13. n \in R
  <2> HIDE DEF n, R
  <2>1. \A m \in 0 .. n : m \in R
    BY <1>1, <1>11, <1>12, UpTo
  <2> QED
    BY <1>1, <2>1
<1>14. dec[1] \in Seq(Byte)
  <2>1. 1 \in last - n .. last
    BY <1>1
  <2> HIDE DEF last, n
  <2> QED
    BY <1>13, <2>1
<1> QED
  BY <1>10, <1>14

\* Data fields append to the layer (ars_push_data(), apd.c).
LEMMA PushType ==
  ASSUME NEW l \in Layer, NEW bytes \in Seq(Byte)
  PROVE  ars_push_data(l, bytes) \in Layer /\ ars_push_data(l, bytes).type = l.type
<1> DEFINE n == l.size + Len(bytes)
           d == Bytes(l) \o bytes
<1>1. Bytes(l) \in Seq(Byte) /\ Len(Bytes(l)) = l.size /\ l.size \in Nat
  BY BytesType DEF Layer
<1>2. Len(bytes) \in Nat
  BY LenProperties
<1>3. d \in Seq(Byte) /\ Len(d) = n
  BY <1>1, ConcatProperties
<1>4. n \in Nat
  BY <1>1, <1>2
<1>5. ars_push_data(l, bytes) = [type |-> l.type, size |-> n, flags |-> l.flags, data |-> d]
  <2>1. l \in [type : LayerTypes, size : Nat, flags : SUBSET LayerFlags, data : Seq(Byte)]
    BY DEF Layer
  <2>2. l = [type |-> l.type, size |-> l.size, flags |-> l.flags, data |-> l.data]
    BY <2>1
  <2>3. ars_push_data(l, bytes) = [l EXCEPT !.data = d, !.size = n]
    BY <2>1 DEF ars_push_data
  <2> HIDE DEF d, n
  <2> QED
    BY <2>2, <2>3
<1>6. l.type \in LayerTypes /\ l.flags \in SUBSET LayerFlags
  BY DEF Layer
<1> HIDE DEF n, d
<1> QED
  BY <1>3, <1>4, <1>5, <1>6 DEF Layer

\* Every field of data makes a layer of it (ars_d_set_data(), apd.c).
LEMMA SetData ==
  ASSUME NEW l \in Layer, NEW f, NEW v, Piece(v)
  PROVE  LET m == ars_d_set_data(l, f, v)
         IN  m = Bad \/ (m \in Layer /\ m.type = l.type)
<1> DEFINE Good(m) == m = Bad \/ (m \in Layer /\ m.type = l.type)
<1>1. Chars(v) \in Seq(Byte)
  BY CharsType
<1>2. atou(v) \in Nat
  BY AtouType
<1>3. \A bytes \in Seq(Byte) : Good(ars_push_data(l, bytes))
  BY PushType
<1>4. ars_decode_string(Chars(v)) \in Seq(Byte)
  BY <1>1, DecodeType
<1>5. IsHex(Chars(v)) => HexBytes(Chars(v)) \in Seq(Byte)
  BY <1>1, HexType
<1>6. Net(atou(v), 4) \in Seq(Byte) /\ Net(atou(v), 3) \in Seq(Byte)
      /\ Net(atou(v), 2) \in Seq(Byte) /\ Net(atou(v), 1) \in Seq(Byte)
  BY <1>2, NetBytes
<1>7. v[1] = "file" => SubSeq(v[2], 1, Min({4096, Len(v[2])})) \in Seq(Byte)
  <2>1. ASSUME NEW d \in Seq(Byte) PROVE SubSeq(d, 1, Min({4096, Len(d)})) \in Seq(Byte)
    <3>1. Len(d) \in Nat
      BY LenProperties
    <3>2. ASSUME NEW x \in Nat, x <= Len(d) PROVE SubSeq(d, 1, x) \in Seq(Byte)
      <4>1. SubSeq(d, 0 + 1, x) \in Seq(Byte)
        BY <3>1, <3>2, PieceType
      <4>2. 0 + 1 = 1
        OBVIOUS
      <4> QED
        BY <4>1, <4>2
    <3> QED
      BY <3>1, <3>2, MinOfTwo
  <2>2. v[1] = "file" => v[2] \in Seq(Byte)
    BY DEF Piece
  <2> QED
    BY <2>1, <2>2
<1>8. Good(Bad)
  OBVIOUS
<1> HIDE DEF Good
<1>9. Good(ars_d_set_data(l, f, v))
  <2>1. v[1] = "file" => Good(ars_push_data(l, SubSeq(v[2], 1, Min({4096, Len(v[2])}))))
    <3> DEFINE bytes == SubSeq(v[2], 1, Min({4096, Len(v[2])}))
    <3>1. v[1] = "file" => bytes \in Seq(Byte)
      BY <1>7
    <3> HIDE DEF bytes
    <3>2. v[1] = "file" => Good(ars_push_data(l, bytes))
      BY <1>3, <3>1
    <3> QED
      BY <3>2 DEF bytes
  <2>2. Good(ars_push_data(l, ars_decode_string(Chars(v))))
    BY <1>3, <1>4
  <2>3. IsHex(Chars(v)) => Good(ars_push_data(l, HexBytes(Chars(v))))
    BY <1>3, <1>5
  <2>4. Good(ars_push_data(l, Net(atou(v), 4))) /\ Good(ars_push_data(l, Net(atou(v), 3)))
        /\ Good(ars_push_data(l, Net(atou(v), 2))) /\ Good(ars_push_data(l, Net(atou(v), 1)))
    BY <1>3, <1>6
  <2> DEFINE file == ars_push_data(l, SubSeq(v[2], 1, Min({4096, Len(v[2])})))
             str == ars_push_data(l, ars_decode_string(Chars(v)))
             hex == ars_push_data(l, HexBytes(Chars(v)))
             u4 == ars_push_data(l, Net(atou(v), 4))
             u3 == ars_push_data(l, Net(atou(v), 3))
             u2 == ars_push_data(l, Net(atou(v), 2))
             u1 == ars_push_data(l, Net(atou(v), 1))
             isfile == v[1] = "file"
             ishex == IsHex(Chars(v))
             even == Len(Chars(v)) % 2 = 0
  <2>5. ars_d_set_data(l, f, v) = CASE f = "file"   -> IF isfile THEN file ELSE Bad
    [] f = "str"    -> str
    [] f = "hex"    -> IF even /\ ishex THEN hex ELSE Bad
    [] f = "uint32" -> u4
    [] f = "uint24" -> u3
    [] f = "uint16" -> u2
    [] f = "uint8"  -> u1
    [] OTHER        -> Bad
    BY DEF ars_d_set_data
  <2>6. isfile => Good(file)
    BY <2>1
  <2>7. ishex => Good(hex)
    BY <2>3
  <2>8. Good(str) /\ Good(u4) /\ Good(u3) /\ Good(u2) /\ Good(u1)
    BY <2>2, <2>4
  <2> HIDE DEF file, str, hex, u4, u3, u2, u1, isfile, ishex, even
  <2> QED
    BY <1>8, <2>5, <2>6, <2>7, <2>8
<1> QED
  BY <1>9 DEF Good

\* What the setters of a keyword rely on and keep: the header their layer was
\* added with.
Shape(kw, l) ==
  /\ kw \in {"ip", "tcp"} => Len(l.data) = 20
  /\ kw \in {"ip6", "ip.ts"} => Len(l.data) = 40
  /\ kw = "igrp" => Len(l.data) = 12
  /\ kw = "data" => l.type = "DATA"
  /\ Whole(l.type, Len(l.data))

\* A setter keeps the header, or fails (ars_d_build(), apd.c).
LEMMA SetShape ==
  ASSUME NEW l \in Layer, NEW kw \in Keywords, Shape(kw, l), NEW f, NEW v, Lexeme(v)
  PROVE  LET m == ki_set(kw, l, f, v)
         IN  m = Bad \/ (m \in Layer /\ Shape(kw, m))
<1>1. Piece(v)
  BY DEF Lexeme
<1>2. ASSUME NEW m, Fits(l, m) PROVE m = Bad \/ (m \in Layer /\ Shape(kw, m))
  BY <1>2 DEF Fits, Kept, Shape
<1>3. CASE kw = "ip"
  <2>1. Len(l.data) = 20
    BY <1>3 DEF Shape
  <2>2. Fits(l, ars_d_set_ip(l, f, v))
    BY <1>1, <2>1, SetIp
  <2>3. ki_set(kw, l, f, v) = ars_d_set_ip(l, f, v)
    BY <1>3 DEF ki_set
  <2> QED
    BY <1>2, <2>2, <2>3
<1>4. CASE kw = "tcp"
  <2>1. Len(l.data) = 20
    BY <1>4 DEF Shape
  <2>2. Fits(l, ars_d_set_tcp(l, f, v))
    BY <1>1, <2>1, SetTcp
  <2>3. ki_set(kw, l, f, v) = ars_d_set_tcp(l, f, v)
    BY <1>4 DEF ki_set
  <2> QED
    BY <1>2, <2>2, <2>3
<1>5. CASE kw = "ip6"
  <2>1. Len(l.data) = 40
    BY <1>5 DEF Shape
  <2>2. Fits(l, ars_d_set_ip6(l, f, v))
    BY <1>1, <2>1, SetIp6
  <2>3. ki_set(kw, l, f, v) = ars_d_set_ip6(l, f, v)
    BY <1>5 DEF ki_set
  <2> QED
    BY <1>2, <2>2, <2>3
<1>6. CASE kw = "ip.ts"
  <2>1. Len(l.data) = 40
    BY <1>6 DEF Shape
  <2>2. Fits(l, ars_d_set_ipopt_ts(l, f, v))
    BY <2>1, SetTs
  <2>3. ki_set(kw, l, f, v) = ars_d_set_ipopt_ts(l, f, v)
    BY <1>6 DEF ki_set
  <2> QED
    BY <1>2, <2>2, <2>3
<1>7. CASE kw = "igrp"
  <2>1. Len(l.data) = 12
    BY <1>7 DEF Shape
  <2>2. Fits(l, ars_d_set_igrp(l, f, v))
    BY <1>1, <2>1, SetIgrp
  <2>3. ki_set(kw, l, f, v) = ars_d_set_igrp(l, f, v)
    BY <1>7 DEF ki_set
  <2> QED
    BY <1>2, <2>2, <2>3
<1>8. CASE kw = "data"
  <2> DEFINE m == ars_d_set_data(l, f, v)
  <2>1. l.type = "DATA"
    BY <1>8 DEF Shape
  <2>2. m = Bad \/ (m \in Layer /\ m.type = l.type)
    BY <1>1, SetData
  <2>3. ki_set(kw, l, f, v) = m
    BY <1>8 DEF ki_set
  <2> HIDE DEF m
  <2> QED
    BY <1>8, <2>1, <2>2, <2>3 DEF Shape, Whole
<1>9. CASE kw \in {"udp", "icmp", "icmp6", "igrp.entry", "ip.eol", "ip.nop", "tcp.eol", "tcp.nop",
                   "tcp.sackperm", "tcp.mss", "tcp.wscale", "tcp.echo", "tcp.echoreq",
                   "tcp.echoreply", "tcp.ts", "tcp.timestamp"}
  <2>1. ki_set(kw, l, f, v) \in {ars_d_set_udp(l, f, v), ars_d_set_icmp(l, f, v),
          ars_d_set_icmp6(l, f, v), ars_d_set_igrpentry(l, f, v), ars_d_set_ipopt_dumb(l, f, v),
          ars_d_set_tcpopt_dumb(l, f, v), ars_d_set_tcpopt_mss(l, f, v),
          ars_d_set_tcpopt_wscale(l, f, v), ars_d_set_tcpopt_echo(l, f, v),
          ars_d_set_tcpopt_ts(l, f, v)}
    BY <1>9 DEF ki_set
  <2>2. Fits(l, ki_set(kw, l, f, v))
    BY <1>1, <2>1, SetNumbers, SetIgrp
  <2> QED
    BY <1>2, <2>2
<1>10. CASE kw \in {"ip.lsrr", "ip.ssrr", "ip.rr", "ip.sid", "ip.sec", "tcp.sack"}
  <2>1. ki_set(kw, l, f, v) \in {ars_d_set_ipopt_rr(l, f, v), ars_d_set_ipopt_sid(l, f, v),
          ars_d_set_ipopt_sec(l, f, v), ars_d_set_tcpopt_sack(l, f, v)}
    BY <1>10 DEF ki_set
  <2>2. Fits(l, ki_set(kw, l, f, v))
    BY <1>1, <2>1, SetRr, SetSidSec, SetSack
  <2> QED
    BY <1>2, <2>2
<1>11. kw \in Headers \/ kw \in DOMAIN IpoptKeywords \/ kw \in DOMAIN TcpoptKeywords
  BY DEF Keywords
<1>12. kw \in Headers => kw \in {"ip", "udp", "tcp", "icmp", "ip6", "icmp6", "igrp", "igrp.entry", "data"}
  BY DEF Headers
<1>13. kw \in DOMAIN IpoptKeywords =>
         kw \in {"ip.eol", "ip.nop", "ip.sec", "ip.sid", "ip.lsrr", "ip.ssrr", "ip.rr", "ip.ts"}
  BY DEF IpoptKeywords
<1>14. kw \in DOMAIN TcpoptKeywords =>
         kw \in {"tcp.eol", "tcp.nop", "tcp.mss", "tcp.wscale", "tcp.sackperm", "tcp.sack", "tcp.echo",
                 "tcp.echoreq", "tcp.echoreply", "tcp.ts", "tcp.timestamp"}
  BY DEF TcpoptKeywords
<1> QED
  BY <1>3, <1>4, <1>5, <1>6, <1>7, <1>8, <1>9, <1>10, <1>11, <1>12, <1>13, <1>14

\* A layer that a keyword adds has the header that its setters rely on
\* (ars_add_*(), ars.c).
LEMMA AddShape ==
  ASSUME NEW p \in Seq(Layer), NEW kw \in Keywords
  PROVE  \E l \in Layer : ki_add(kw, p) = Append(p, l) /\ Shape(kw, l)
<1> DEFINE Of(type, data) == [type |-> type, size |-> Len(data), flags |-> {}, data |-> data]
<1>1. ASSUME NEW type \in LayerTypes, NEW data \in Seq(Byte)
      PROVE  Of(type, data) \in Layer
  <2>1. Len(data) \in Nat /\ {} \in SUBSET LayerFlags
    BY LenProperties
  <2> QED
    BY <2>1 DEF Layer
<1>2. ASSUME NEW type \in LayerTypes, NEW data \in Seq(Byte), Shape(kw, Of(type, data)),
             ki_add(kw, p) = ars_add_generic(p, type, data)
      PROVE  \E l \in Layer : ki_add(kw, p) = Append(p, l) /\ Shape(kw, l)
  <2>1. ki_add(kw, p) = Append(p, Of(type, data))
    BY <1>2 DEF ars_add_generic
  <2> QED
    BY <1>1, <1>2, <2>1
<1>3. ASSUME NEW type \in LayerTypes, NEW data, Whole(type, Len(data)),
             kw \in {"ip", "tcp"} => Len(data) = 20, kw = "ip6" => Len(data) = 40,
             kw = "igrp" => Len(data) = 12, kw = "data" => type = "DATA", kw # "ip.ts"
      PROVE  Shape(kw, Of(type, data))
  BY <1>3 DEF Shape
<1>4. CASE kw \in Headers
  <2>1. << >> \in Seq(Byte) /\ Len(<< >>) = 0
    OBVIOUS
  <2> DEFINE z20 == Zero(20)
             z8 == Zero(8)
             z14 == Zero(14)
             icmp == Put(Zero(8), 0, <<8>>)
             icmp6 == Put(Zero(8), 0, <<128>>)
             ip6 == Put(Put(Zero(40), 0, <<96>>), 7, <<64>>)
             igrp == Put(Zero(12), 0, <<16 + 2>>)
             none == << >>
  <2>2. igrp \in Seq(Byte) /\ Len(igrp) = 12
    <3> DEFINE x == 16 + 2
               d == Zero(12)
               off == 0
    <3>1. x \in Byte /\ off \in Int
      BY DEF Byte
    <3>2. d \in Seq(Byte) /\ Len(d) = 12
      BY Presets
    <3> HIDE DEF x, d, off
    <3>3. Put(d, off, <<x>>) \in Seq(Byte) /\ Len(Put(d, off, <<x>>)) = 12
      BY <3>1, <3>2, PutOne
    <3> QED
      BY <3>3 DEF x, d, off
  <2>3. /\ z20 \in Seq(Byte) /\ Len(z20) = 20 /\ z8 \in Seq(Byte) /\ Len(z8) = 8
        /\ z14 \in Seq(Byte) /\ Len(z14) = 14 /\ icmp \in Seq(Byte) /\ Len(icmp) = 8
        /\ icmp6 \in Seq(Byte) /\ Len(icmp6) = 8 /\ ip6 \in Seq(Byte) /\ Len(ip6) = 40
        /\ none \in Seq(Byte)
    BY <2>1, Presets
  <2>4. \E type \in LayerTypes, data \in {z20, z8, z14, icmp, icmp6, ip6, igrp, none} :
          /\ ki_add(kw, p) = ars_add_generic(p, type, data)
          /\ type = "IP" => kw = "ip" /\ data = z20
          /\ type = "UDP" => kw = "udp" /\ data = z8
          /\ type = "TCP" => kw = "tcp" /\ data = z20
          /\ type = "ICMP" => kw = "icmp" /\ data = icmp
          /\ type = "IP6" => kw = "ip6" /\ data = ip6
          /\ type = "ICMP6" => kw = "icmp6" /\ data = icmp6
          /\ type = "IGRP" => kw = "igrp" /\ data = igrp
          /\ type = "IGRPENTRY" => kw = "igrp.entry" /\ data = z14
          /\ type = "DATA" => kw = "data"
          /\ type \in {"IP", "UDP", "TCP", "ICMP", "IP6", "ICMP6", "IGRP", "IGRPENTRY", "DATA"}
    <3>1. kw \notin DOMAIN IpoptKeywords /\ kw \notin DOMAIN TcpoptKeywords
      BY <1>4 DEF Headers, IpoptKeywords, TcpoptKeywords
    <3> HIDE DEF z20, z8, z14, icmp, icmp6, ip6, igrp, none
    <3>2. /\ kw = "ip" => ki_add(kw, p) = ars_add_generic(p, "IP", z20)
          /\ kw = "udp" => ki_add(kw, p) = ars_add_generic(p, "UDP", z8)
          /\ kw = "tcp" => ki_add(kw, p) = ars_add_generic(p, "TCP", z20)
          /\ kw = "icmp" => ki_add(kw, p) = ars_add_generic(p, "ICMP", icmp)
          /\ kw = "ip6" => ki_add(kw, p) = ars_add_generic(p, "IP6", ip6)
      BY <3>1 DEF ki_add, ars_add_iphdr, ars_add_udphdr, ars_add_tcphdr, ars_add_icmphdr,
         ars_add_ip6hdr, z20, z8, icmp, ip6
    <3>3. /\ kw = "icmp6" => ki_add(kw, p) = ars_add_generic(p, "ICMP6", icmp6)
          /\ kw = "igrp" => ki_add(kw, p) = ars_add_generic(p, "IGRP", igrp)
          /\ kw = "igrp.entry" => ki_add(kw, p) = ars_add_generic(p, "IGRPENTRY", z14)
          /\ kw = "data" => ki_add(kw, p) = ars_add_generic(p, "DATA", none)
      BY <3>1 DEF ki_add, ars_add_icmp6hdr, ars_add_igrphdr, ars_add_igrpentry, ars_add_data,
         icmp6, igrp, z14, none
    <3>4. {"IP", "UDP", "TCP", "ICMP", "IP6", "ICMP6", "IGRP", "IGRPENTRY", "DATA"} \subseteq LayerTypes
      BY DEF LayerTypes
    <3> QED
      BY <1>4, <3>2, <3>3, <3>4 DEF Headers
  <2> HIDE DEF z20, z8, z14, icmp, icmp6, ip6, igrp, none
  <2>5. PICK type \in LayerTypes, data \in {z20, z8, z14, icmp, icmp6, ip6, igrp, none} :
          /\ ki_add(kw, p) = ars_add_generic(p, type, data)
          /\ type = "IP" => kw = "ip" /\ data = z20
          /\ type = "UDP" => kw = "udp" /\ data = z8
          /\ type = "TCP" => kw = "tcp" /\ data = z20
          /\ type = "ICMP" => kw = "icmp" /\ data = icmp
          /\ type = "IP6" => kw = "ip6" /\ data = ip6
          /\ type = "ICMP6" => kw = "icmp6" /\ data = icmp6
          /\ type = "IGRP" => kw = "igrp" /\ data = igrp
          /\ type = "IGRPENTRY" => kw = "igrp.entry" /\ data = z14
          /\ type = "DATA" => kw = "data"
          /\ type \in {"IP", "UDP", "TCP", "ICMP", "IP6", "ICMP6", "IGRP", "IGRPENTRY", "DATA"}
    BY <2>4
  <2>6. data \in Seq(Byte)
    BY <2>2, <2>3
  <2>7. Whole(type, Len(data))
    BY <2>2, <2>3, <2>5 DEF Whole
  <2>8. /\ kw \in {"ip", "tcp"} => Len(data) = 20
        /\ kw = "ip6" => Len(data) = 40
        /\ kw = "igrp" => Len(data) = 12
        /\ kw = "data" => type = "DATA"
        /\ kw # "ip.ts"
    BY <1>4, <2>2, <2>3, <2>5 DEF Headers
  <2>9. Shape(kw, Of(type, data))
    BY <1>3, <2>7, <2>8
  <2> QED
    BY <1>2, <2>5, <2>6, <2>9
<1>5. CASE kw \in DOMAIN TcpoptKeywords
  <2> DEFINE opt == TcpoptKeywords[kw]
             size == TcpoptSize[opt]
             kind == TCPOPT[opt]
             head == IF size = 1 THEN <<kind>> ELSE <<kind, size>>
             data == Put(Zero(size), 0, head)
  <2>1. opt \in {"eol", "nop", "mss", "wscale", "sackperm", "sack", "echo", "echoreply", "ts"}
    BY <1>5 DEF TcpoptKeywords
  <2> HIDE DEF opt
  <2>2. size \in Byte /\ kind \in Byte
    <3>1. /\ TcpoptSize["eol"] \in Byte /\ TcpoptSize["nop"] \in Byte /\ TcpoptSize["mss"] \in Byte
          /\ TcpoptSize["wscale"] \in Byte /\ TcpoptSize["sackperm"] \in Byte
          /\ TcpoptSize["sack"] \in Byte /\ TcpoptSize["echo"] \in Byte
          /\ TcpoptSize["echoreply"] \in Byte /\ TcpoptSize["ts"] \in Byte
      BY DEF TcpoptSize, Byte
    <3>2. /\ TCPOPT["eol"] \in Byte /\ TCPOPT["nop"] \in Byte /\ TCPOPT["mss"] \in Byte
          /\ TCPOPT["wscale"] \in Byte /\ TCPOPT["sackperm"] \in Byte
          /\ TCPOPT["sack"] \in Byte /\ TCPOPT["echo"] \in Byte
          /\ TCPOPT["echoreply"] \in Byte /\ TCPOPT["ts"] \in Byte
      BY DEF TCPOPT, Byte
    <3> QED
      BY <2>1, <3>1, <3>2
  <2>3. ki_add(kw, p) = ars_add_generic(p, "TCPOPT", data)
    <3>1. kw \notin DOMAIN IpoptKeywords
      BY <1>5 DEF IpoptKeywords, TcpoptKeywords
    <3>2. ki_add(kw, p) = ars_add_tcpopt(p, opt)
      <4>1. kw \notin {"ip", "udp", "tcp", "icmp", "ip6", "icmp6", "igrp", "igrp.entry", "data"}
        BY <1>5 DEF TcpoptKeywords
      <4> QED
        BY <1>5, <3>1, <4>1 DEF ki_add, opt
    <3> QED
      BY <3>2 DEF ars_add_tcpopt
  <2> HIDE DEF size, kind
  <2>4. head \in Seq(Byte)
    BY <2>2
  <2>5. size \in Nat
    BY <2>2 DEF Byte
  <2>6. data \in Seq(Byte)
    <3>1. Zero(size) \in Seq(Byte) /\ 0 \in Int
      BY <2>5, ZeroType
    <3> HIDE DEF head
    <3> QED
      BY <2>4, <3>1, PutType
  <2> HIDE DEF data, head
  <2>7. "TCPOPT" \in LayerTypes
    BY DEF LayerTypes
  <2>8. Shape(kw, Of("TCPOPT", data))
    <3>1. kw \notin {"ip", "tcp", "ip6", "igrp", "data", "ip.ts"}
      BY <1>5 DEF TcpoptKeywords
    <3> QED
      BY <3>1 DEF Shape, Whole
  <2> QED
    BY <1>2, <2>3, <2>6, <2>7, <2>8
<1>6. CASE kw \in DOMAIN IpoptKeywords
  <2> DEFINE opt == IpoptKeywords[kw]
             head == CASE opt \in {"eol", "nop"} -> << >>
                       [] opt = "sec" -> <<11>>
                       [] opt = "sid" -> <<4>>
                       [] opt \in {"lsrr", "ssrr", "rr"} -> <<40 - 2 - 3, 4>>
                       [] opt = "ts" -> <<40 - 2 - 4, 5, 0>>
             size == CASE opt \in {"eol", "nop"} -> 1
                       [] opt = "sec" -> 11
                       [] opt = "sid" -> 4
                       [] OTHER -> 40
             data == Put(Zero(size), 0, <<IPOPT[opt]>> \o head)
  <2>1. opt \in {"eol", "nop", "sec", "sid", "lsrr", "ssrr", "rr", "ts"}
    BY <1>6 DEF IpoptKeywords
  <2>2. kw = "ip.ts" => opt = "ts"
    BY DEF IpoptKeywords
  <2> HIDE DEF opt
  <2>3. size \in Nat /\ (opt = "ts" => size = 40)
    BY <2>1
  <2>4. ki_add(kw, p) = ars_add_generic(p, "IPOPT", data)
    <3>1. ki_add(kw, p) = ars_add_ipopt(p, opt)
      <4>1. kw \notin {"ip", "udp", "tcp", "icmp", "ip6", "icmp6", "igrp", "igrp.entry", "data"}
        BY <1>6 DEF IpoptKeywords
      <4>2. kw \notin DOMAIN TcpoptKeywords
        BY <1>6 DEF IpoptKeywords, TcpoptKeywords
      <4> QED
        BY <1>6, <4>1, <4>2 DEF ki_add, opt
    <3> QED
      BY <3>1 DEF ars_add_ipopt
  <2>5. head \in Seq(Byte)
    <3>1. << >> \in Seq(Byte) /\ <<11>> \in Seq(Byte) /\ <<4>> \in Seq(Byte)
      BY DEF Byte
    <3>2. <<40 - 2 - 3, 4>> \in Seq(Byte)
      BY DEF Byte
    <3>3. <<40 - 2 - 4, 5, 0>> \in Seq(Byte)
      BY DEF Byte
    <3> QED
      BY <2>1, <3>1, <3>2, <3>3
  <2>6. IPOPT[opt] \in Byte
    <3>1. /\ IPOPT["eol"] \in Byte /\ IPOPT["nop"] \in Byte /\ IPOPT["sec"] \in Byte
          /\ IPOPT["sid"] \in Byte /\ IPOPT["lsrr"] \in Byte /\ IPOPT["ssrr"] \in Byte
          /\ IPOPT["rr"] \in Byte /\ IPOPT["ts"] \in Byte
      BY DEF IPOPT, Byte
    <3> QED
      BY <2>1, <3>1
  <2> HIDE DEF size, head
  <2>7. <<IPOPT[opt]>> \o head \in Seq(Byte)
    <3>1. <<IPOPT[opt]>> \in Seq(Byte)
      BY <2>6
    <3> QED
      BY <2>5, <3>1, ConcatProperties
  <2>8. data \in Seq(Byte) /\ Len(data) = size
    <3> DEFINE bytes == <<IPOPT[opt]>> \o head
    <3>1. Zero(size) \in Seq(Byte) /\ Len(Zero(size)) = size /\ 0 \in Int /\ bytes \in Seq(Byte)
      BY <2>3, <2>7, ZeroType
    <3> HIDE DEF bytes
    <3>2. Put(Zero(size), 0, bytes) \in Seq(Byte) /\ Len(Put(Zero(size), 0, bytes)) = size
      BY <3>1, PutType
    <3> QED
      BY <3>2 DEF bytes
  <2> HIDE DEF data
  <2>9. "IPOPT" \in LayerTypes
    BY DEF LayerTypes
  <2>10. Shape(kw, Of("IPOPT", data))
    <3>1. kw \notin {"ip", "tcp", "ip6", "igrp", "data"}
      BY <1>6 DEF IpoptKeywords
    <3> QED
      BY <3>1, <2>2, <2>3, <2>8 DEF Shape, Whole
  <2> QED
    BY <1>2, <2>4, <2>8, <2>9, <2>10
<1> QED
  BY <1>4, <1>5, <1>6 DEF Keywords

-----------------------------------------------------------------------------
(* Texts, and the parser that reads them.                                  *)

\* What a text is made of.
LEMMA TextOf ==
  ASSUME NEW T, NEW t \in Seq(T), \A x \in T : Lexeme(x)
  PROVE  IsText(t)
<1>1. Len(t) \in Nat /\ DOMAIN t = 1 .. Len(t) /\ \A i \in 1 .. Len(t) : t[i] \in T
  BY LenProperties, ElementOfSeq
<1>2. \A x \in ToSet(t) : x \in T
  BY <1>1 DEF ToSet
<1>3. t \in Seq(ToSet(t))
  <2>1. \A i \in 1 .. Len(t) : t[i] \in ToSet(t)
    BY <1>1 DEF ToSet
  <2>2. t = [i \in 1 .. Len(t) |-> t[i]]
    BY <1>1, LenProperties
  <2> DEFINE n == Len(t)
             S == ToSet(t)
  <2>3. n \in Nat /\ t = [i \in 1 .. n |-> t[i]] /\ \A i \in 1 .. n : t[i] \in S
    BY <1>1, <2>1, <2>2
  <2> HIDE DEF n, S
  <2>4. t \in Seq(S)
    BY <2>3
  <2> QED
    BY <2>4 DEF S
<1> QED
  BY <1>2, <1>3 DEF IsText

\* The lexemes of a text.
LEMMA TextIs ==
  ASSUME NEW t, IsText(t)
  PROVE  /\ t \in Seq(ToSet(t)) /\ Len(t) \in Nat /\ \A x \in ToSet(t) : Lexeme(x)
         /\ \A i \in 1 .. Len(t) : t[i] \in ToSet(t) /\ Lexeme(t[i])
<1>1. t \in Seq(ToSet(t)) /\ \A x \in ToSet(t) : Lexeme(x)
  BY DEF IsText
<1>2. Len(t) \in Nat
  BY <1>1, LenProperties
<1>3. \A i \in 1 .. Len(t) : t[i] \in ToSet(t)
  BY <1>1, ElementOfSeq
<1> QED
  BY <1>1, <1>2, <1>3

\* One text after the other.
LEMMA TextConcat ==
  ASSUME NEW s, NEW t, IsText(s), IsText(t)
  PROVE  IsText(s \o t)
<1> DEFINE T == ToSet(s) \cup ToSet(t)
<1>1. s \in Seq(ToSet(s)) /\ t \in Seq(ToSet(t)) /\ \A x \in T : Lexeme(x)
  BY TextIs
<1>2. \A x \in ToSet(s) : x \in T
  OBVIOUS
<1>3. \A x \in ToSet(t) : x \in T
  OBVIOUS
<1> HIDE DEF T
<1>4. s \in Seq(T) /\ t \in Seq(T)
  <2>1. ToSet(s) \subseteq T /\ ToSet(t) \subseteq T
    BY <1>2, <1>3
  <2> QED
    BY <1>1, <2>1, ElementOfSeq, LenProperties
<1>5. s \o t \in Seq(T)
  BY <1>4, ConcatProperties
<1> QED
  BY <1>1, <1>5, TextOf

\* A part of a text.
LEMMA TextPart ==
  ASSUME NEW t, IsText(t), NEW a \in Nat, NEW k \in Int, k <= Len(t)
  PROVE  IsText(SubSeq(t, a + 1, k))
<1>1. t \in Seq(ToSet(t)) /\ Len(t) \in Nat /\ \A x \in ToSet(t) : Lexeme(x)
  BY TextIs
<1> DEFINE T == ToSet(t)
<1>2. t \in Seq(T) /\ \A x \in T : Lexeme(x)
  BY <1>1
<1> HIDE DEF T
<1>3. \A i \in 1 .. Len(t) : t[i] \in T
  BY <1>2, ElementOfSeq
<1>4. SubSeq(t, a + 1, k) \in Seq(T)
  <2>1. \A i \in a + 1 .. k : t[i] \in T
    BY <1>1, <1>3
  <2> QED
    BY <1>2, <2>1, SubSeqProperties
<1> QED
  BY <1>2, <1>4, TextOf

\* Texts flattened into one.
LEMMA TextFlat ==
  ASSUME NEW n \in Nat, NEW f, f = [k \in 1 .. n |-> f[k]], \A k \in 1 .. n : IsText(f[k])
  PROVE  IsText(FlattenSeq(f))
<1> DEFINE T == UNION {ToSet(f[k]) : k \in 1 .. n}
<1>1. ASSUME NEW k \in 1 .. n PROVE f[k] \in Seq(T)
  <2> DEFINE S == ToSet(f[k])
  <2>1. f[k] \in Seq(S)
    BY TextIs
  <2>2. S \subseteq T
    OBVIOUS
  <2> HIDE DEF S, T
  <2> QED
    BY <2>1, <2>2, ElementOfSeq, LenProperties
<1>2. \A x \in T : Lexeme(x)
  <2>1. \A k \in 1 .. n : \A x \in ToSet(f[k]) : Lexeme(x)
    BY TextIs
  <2> QED
    BY <2>1
<1> HIDE DEF T
<1>3. f \in [1 .. n -> Seq(T)]
  BY <1>1
<1>4. FlattenSeq(f) \in Seq(T)
  BY <1>3, FlatPieces
<1> QED
  BY <1>2, <1>4, TextOf

\* The parser takes a lexeme off a text, or the text is read
\* (ars_d_parser(), apd.c).
LEMMA ParserText ==
  ASSUME NEW t, IsText(t), ars_d_parser(t) # << >>
  PROVE  /\ Lexeme(ars_d_parser(t)[1])
         /\ IsText(ars_d_parser(t)[2])
<1> DEFINE written == {k \in 1 .. Len(t) : ~ Empty(t[k])}
           m == Min(written)
<1>1. Len(t) \in Nat /\ \A i \in 1 .. Len(t) : Lexeme(t[i])
  BY TextIs
<1>2. written # {}
  BY DEF ars_d_parser
<1>3. m \in 1 .. Len(t)
  <2>1. written \in SUBSET Nat
    BY <1>1
  <2>2. m \in written
    <3> HIDE DEF written
    <3> QED
      BY <1>2, <2>1, MinIn
  <2> QED
    BY <2>2
<1>4. ars_d_parser(t) = <<t[m], SubSeq(t, m + 1, Len(t))>>
  BY <1>2 DEF ars_d_parser
<1> HIDE DEF m
<1>5. Lexeme(t[m])
  BY <1>1, <1>3
<1>6. IsText(SubSeq(t, m + 1, Len(t)))
  <2> DEFINE k == Len(t)
  <2>1. k \in Int /\ k <= Len(t) /\ m \in Nat
    BY <1>1, <1>3
  <2> HIDE DEF k
  <2>2. IsText(SubSeq(t, m + 1, k))
    BY <2>1, TextPart
  <2> QED
    BY <2>2 DEF k
<1> QED
  BY <1>4, <1>5, <1>6

\* A stack of layers with whole headers, no more than there are slots.
Stack(p) ==
  /\ p \in Seq(Layer) /\ Len(p) <= ARS_MAX_LAYER
  /\ \A k \in 1 .. Len(p) : Whole(p[k].type, Len(p[k].data))

\* An empty packet.
LEMMA StackEmpty == Stack(<< >>)
<1>1. << >> \in Seq(Layer) /\ Len(<< >>) = 0
  OBVIOUS
<1>2. ARS_MAX_LAYER \in Nat
  BY MaxLayerAssumption
<1> QED
  BY <1>1, <1>2 DEF Stack

\* A layer is pushed while there is space.
LEMMA StackAppend ==
  ASSUME NEW p, Stack(p), ~ ars_nospace(p), NEW l \in Layer, Whole(l.type, Len(l.data))
  PROVE  Stack(Append(p, l)) /\ Last(Append(p, l)) = l /\ Append(p, l) # << >>
<1> DEFINE q == Append(p, l)
           n == Len(p)
<1>1. p \in Seq(Layer) /\ n <= ARS_MAX_LAYER /\ n # ARS_MAX_LAYER /\ ARS_MAX_LAYER \in Nat
  BY MaxLayerAssumption DEF Stack, ars_nospace
<1>2. n \in Nat
  BY <1>1, LenProperties
<1>3. q \in Seq(Layer) /\ Len(q) = n + 1 /\ q[n + 1] = l /\ \A k \in 1 .. n : q[k] = p[k]
  BY <1>1, AppendProperties
<1>4. \A k \in 1 .. n : Whole(p[k].type, Len(p[k].data))
  BY DEF Stack
<1> HIDE DEF q, n
<1>5. \A k \in 1 .. n + 1 : Whole(q[k].type, Len(q[k].data))
  BY <1>2, <1>3, <1>4
<1>6. n + 1 <= ARS_MAX_LAYER
  BY <1>1, <1>2
<1>7. Last(q) = l
  BY <1>3 DEF Last
<1>8. q # << >>
  BY <1>2, <1>3
<1> QED
  BY <1>3, <1>5, <1>6, <1>7, <1>8 DEF Stack, q

\* A layer takes the place of the last one, or of another.
LEMMA StackReplace ==
  ASSUME NEW p, Stack(p), NEW i \in 1 .. Len(p), NEW l \in Layer, Whole(l.type, Len(l.data))
  PROVE  LET q == [p EXCEPT ![i] = l]
         IN  Stack(q) /\ Len(q) = Len(p) /\ q[i] = l
<1> DEFINE q == [p EXCEPT ![i] = l]
           n == Len(p)
<1>1. p \in Seq(Layer) /\ n <= ARS_MAX_LAYER /\ n \in Nat
  BY LenProperties DEF Stack
<1>2. q \in Seq(Layer) /\ Len(q) = n /\ q[i] = l /\ \A k \in 1 .. n : k # i => q[k] = p[k]
  <2>1. i \in 1 .. Len(p)
    OBVIOUS
  <2> QED
    BY <1>1, <2>1, ExceptSeq, LenProperties, ElementOfSeq
<1>3. \A k \in 1 .. n : Whole(p[k].type, Len(p[k].data))
  BY DEF Stack
<1> HIDE DEF q, n
<1>4. \A k \in 1 .. n : Whole(q[k].type, Len(q[k].data))
  BY <1>2, <1>3
<1> QED
  BY <1>1, <1>2, <1>4 DEF Stack, q, n

\* The last layer of a stack.
LEMMA StackLast ==
  ASSUME NEW p, Stack(p), p # << >>
  PROVE  /\ Len(p) \in Nat /\ Len(p) \in 1 .. Len(p)
         /\ Last(p) \in Layer /\ Last(p) = p[Len(p)] /\ Whole(Last(p).type, Len(Last(p).data))
<1>1. p \in Seq(Layer)
  BY DEF Stack
<1>2. Len(p) \in Nat /\ Len(p) # 0
  BY <1>1, LenProperties, EmptySeq
<1>3. Len(p) \in 1 .. Len(p)
  BY <1>2
<1> QED
  BY <1>1, <1>2, <1>3, ElementOfSeq DEF Stack, Last

\* The length after a layer (ars_d_setlayer_size(), apd.c).
LEMMA SizeStack ==
  ASSUME NEW p, Stack(p), p # << >>, NEW v, Lexeme(v), ars_d_setlayer_size(p, v) # << >>
  PROVE  Stack(ars_d_setlayer_size(p, v))
<1> DEFINE n == Len(p)
           l == p[n]
           m == [l EXCEPT !.size = atou(v)]
<1>1. n \in 1 .. n /\ Last(p) = l /\ l \in Layer /\ Whole(l.type, Len(l.data))
  BY StackLast
<1>2. atou(v) \in 1 .. l.size /\ ars_d_setlayer_size(p, v) = [p EXCEPT ![n].size = atou(v)]
  BY <1>1 DEF ars_d_setlayer_size
<1>3. p \in Seq(Layer)
  BY DEF Stack
<1>4. [p EXCEPT ![n].size = atou(v)] = [p EXCEPT ![n] = m]
  BY <1>1, <1>3
<1>5. m \in Layer /\ m.type = l.type /\ m.data = l.data
  <2>1. atou(v) \in Nat /\ l.size \in Nat /\ atou(v) <= l.size
    BY <1>1, <1>2 DEF Layer
  <2> HIDE DEF l
  <2> QED
    BY <1>1, <2>1 DEF Layer
<1>6. Whole(m.type, Len(m.data))
  BY <1>1, <1>5
<1> HIDE DEF m
<1>7. Stack([p EXCEPT ![n] = m])
  BY <1>1, <1>5, <1>6, StackReplace
<1> QED
  BY <1>2, <1>4, <1>7

\* The variables of ars_d_build() in the states of its machine: in front of a
\* field there is a layer with the header of its keyword.
FieldStates == {"OBRACE_OR_PLUS", "FIELD_OR_CBRACE", "EQUAL", "VALUE", "COMMA_OR_CBRACE"}
ParserOf(text, state, kw, field, p, err) ==
  [text |-> text, state |-> state, kw |-> kw, field |-> field, p |-> p, err |-> err]
Steady(text, state, kw, p) ==
  /\ IsText(text) /\ Stack(p)
  /\ state \in FieldStates \cup {"LAYER", "LEN_OR_PLUS", "PLUS"}
  /\ state \in FieldStates \cup {"LEN_OR_PLUS"} => p # << >>
  /\ state \in FieldStates => kw \in Keywords /\ Shape(kw, Last(p))
Building(q) ==
  /\ q = ParserOf(q.text, q.state, q.kw, q.field, q.p, q.err)
  /\ Steady(q.text, q.state, q.kw, q.p)

\* The variables of the machine.
LEMMA ParserFields ==
  ASSUME NEW t, NEW s, NEW k, NEW f, NEW p, NEW e
  PROVE  /\ ParserOf(t, s, k, f, p, e).text = t /\ ParserOf(t, s, k, f, p, e).state = s
         /\ ParserOf(t, s, k, f, p, e).kw = k /\ ParserOf(t, s, k, f, p, e).field = f
         /\ ParserOf(t, s, k, f, p, e).p = p /\ ParserOf(t, s, k, f, p, e).err = e
BY DEF ParserOf

\* What the steps of the machine assign.
Moved(q, x) == [q EXCEPT !.state = x]
Named(q, n, x) == [q EXCEPT !.field = n, !.state = x]
Filled(q, u, x) == [q EXCEPT !.p = u, !.state = x]
Opened(q, w, u, x) == [q EXCEPT !.kw = w, !.p = u, !.state = x]
\* They give the variables of the machine again.
LEMMA ParserStep ==
  ASSUME NEW t, NEW s, NEW k, NEW f, NEW p, NEW e, NEW x, NEW n, NEW u, NEW w
  PROVE  /\ Moved(ParserOf(t, s, k, f, p, e), x) = ParserOf(t, x, k, f, p, e)
         /\ Named(ParserOf(t, s, k, f, p, e), n, x) = ParserOf(t, x, k, n, p, e)
         /\ Filled(ParserOf(t, s, k, f, p, e), u, x) = ParserOf(t, x, k, f, u, e)
         /\ Opened(ParserOf(t, s, k, f, p, e), w, u, x) = ParserOf(t, x, w, f, u, e)
<1> DEFINE q == ParserOf(t, s, k, f, p, e)
           q1 == [q EXCEPT !.field = n]
           q2 == [q EXCEPT !.p = u]
           q3 == [q EXCEPT !.kw = w]
           q4 == [q3 EXCEPT !.p = u]
<1>1. ASSUME NEW kk, NEW ff, NEW pp, NEW z, z = ParserOf(t, s, kk, ff, pp, e)
      PROVE  [z EXCEPT !.state = x] = ParserOf(t, x, kk, ff, pp, e)
  BY <1>1 DEF ParserOf
<1>2. q1 = ParserOf(t, s, k, n, p, e)
  BY DEF ParserOf
<1>3. ASSUME NEW kk, NEW z, z = ParserOf(t, s, kk, f, p, e)
      PROVE  [z EXCEPT !.p = u] = ParserOf(t, s, kk, f, u, e)
  BY <1>3 DEF ParserOf
<1>4. q3 = ParserOf(t, s, w, f, p, e)
  BY DEF ParserOf
<1>5. q2 = ParserOf(t, s, k, f, u, e)
  BY <1>3
<1>6. q4 = ParserOf(t, s, w, f, u, e)
  <2> HIDE DEF q3
  <2> QED
    BY <1>3, <1>4
<1>7. ASSUME NEW z
      PROVE  /\ Moved(z, x) = [z EXCEPT !.state = x]
             /\ Named(z, n, x) = [[z EXCEPT !.field = n] EXCEPT !.state = x]
             /\ Filled(z, u, x) = [[z EXCEPT !.p = u] EXCEPT !.state = x]
             /\ Opened(z, w, u, x) = [[[z EXCEPT !.kw = w] EXCEPT !.p = u] EXCEPT !.state = x]
  BY SMTT(30) DEF Moved, Named, Filled, Opened
<1>8. /\ Moved(q, x) = [q EXCEPT !.state = x] /\ Named(q, n, x) = [q1 EXCEPT !.state = x]
      /\ Filled(q, u, x) = [q2 EXCEPT !.state = x] /\ Opened(q, w, u, x) = [q4 EXCEPT !.state = x]
  BY <1>7
<1>9. /\ [q EXCEPT !.state = x] = ParserOf(t, x, k, f, p, e)
      /\ [q1 EXCEPT !.state = x] = ParserOf(t, x, k, n, p, e)
      /\ [q2 EXCEPT !.state = x] = ParserOf(t, x, k, f, u, e)
      /\ [q4 EXCEPT !.state = x] = ParserOf(t, x, w, f, u, e)
  <2>1. q = ParserOf(t, s, k, f, p, e)
    OBVIOUS
  <2> HIDE DEF q, q1, q2, q3, q4
  <2> QED
    BY <2>1, <1>1, <1>2, <1>5, <1>6
<1> QED
  BY <1>8, <1>9

\* The machine is ready for a text.
LEMMA BuildingInit ==
  ASSUME NEW t, IsText(t)
  PROVE  Building(BuildInit(t))
<1> DEFINE s == "LAYER"
           k == ""
           p == << >>
           e == "OK"
<1>1. Steady(t, s, k, p)
  BY StackEmpty DEF Steady, FieldStates
<1>2. BuildInit(t) = ParserOf(t, s, k, k, p, e)
  BY DEF BuildInit, ParserOf
<1> HIDE DEF s, k, p, e
<1> QED
  BY <1>1, <1>2, ParserFields DEF Building

\* A token keeps the machine in order, whether it fails or goes on.
LEMMA BuildingToken ==
  ASSUME NEW q, Building(q), NEW tok, Lexeme(tok), NEW rest, IsText(rest),
         NEW r, ars_d_parser(q.text) = <<tok, rest>>, r = ars_d_build(q)
  PROVE  Building(r)
<1> DEFINE s == q.state
           k == q.kw
           f == q.field
           p == q.p
           e == q.err
           c == ParserOf(rest, s, k, f, p, e)
<1>1. Steady(q.text, s, k, p) /\ q = ParserOf(q.text, s, k, f, p, e)
  BY DEF Building
<1>2. Steady(rest, s, k, p)
  BY <1>1 DEF Steady
<1>3. [q EXCEPT !.text = rest] = c
  <2> DEFINE t == q.text
  <2> HIDE DEF s, k, f, p, e, t
  <2>1. q = ParserOf(t, s, k, f, p, e)
    BY <1>1 DEF t, s, k, f, p, e
  <2> QED
    BY <2>1 DEF ParserOf
<1>0. c = ParserOf(rest, s, k, f, p, e)
  OBVIOUS
<1> HIDE DEF k, f, p, e
<1>4. ASSUME NEW x, NEW y, NEW z, NEW u, NEW w, Steady(rest, x, y, u)
      PROVE  Building(ParserOf(rest, x, y, z, u, w))
  BY <1>4, ParserFields DEF Building
<1>5. Building(Fail(c))
  <2> HIDE DEF s
  <2>1. Fail(c) = ParserOf(rest, s, k, f, p, "INVALID")
    <3> HIDE DEF c
    <3> QED
      BY <1>0 DEF Fail, ParserOf
  <2> QED
    BY <1>2, <1>4, <2>1
<1>6. ASSUME NEW x, Steady(rest, x, k, p) PROVE Building([c EXCEPT !.state = x])
  <2>1. Moved(c, x) = ParserOf(rest, x, k, f, p, e)
    <3> HIDE DEF c
    <3> QED
      BY <1>0, ParserStep
  <2> QED
    BY <1>4, <1>6, <2>1 DEF Moved
<1>7. ASSUME NEW x, Steady(rest, x, k, p), NEW d PROVE Building(Expect(c, tok, d, x))
  <2> HIDE DEF c
  <2> QED
    BY <1>5, <1>6, <1>7 DEF Expect
<1>8. q.state = s
  OBVIOUS
<1>9. r = CASE s = "LAYER" -> OnLayer(c, tok)
            [] s = "OBRACE_OR_PLUS" ->
                 IF tok = <<"+">> THEN [c EXCEPT !.state = "LAYER"]
                 ELSE Expect(c, tok, <<"(">>, "FIELD_OR_CBRACE")
            [] s = "FIELD_OR_CBRACE" ->
                 IF tok = <<")">> THEN [c EXCEPT !.state = "LEN_OR_PLUS"]
                 ELSE [c EXCEPT !.field = Last(tok), !.state = "EQUAL"]
            [] s = "EQUAL" -> Expect(c, tok, <<"=">>, "VALUE")
            [] s = "VALUE" -> OnValue(c, tok)
            [] s = "COMMA_OR_CBRACE" ->
                 IF tok = <<",">> THEN [c EXCEPT !.state = "FIELD_OR_CBRACE"]
                 ELSE Expect(c, tok, <<")">>, "LEN_OR_PLUS")
            [] s = "LEN_OR_PLUS" ->
                 IF tok = <<"+">> THEN [c EXCEPT !.state = "LAYER"] ELSE OnLength(c, tok)
            [] s = "PLUS" -> Expect(c, tok, <<"+">>, "LAYER")
  <2> HIDE DEF c
  <2>1. <<tok, rest>>[1] = tok /\ <<tok, rest>>[2] = rest
    OBVIOUS
  <2>2. [q EXCEPT !.text = <<tok, rest>>[2]] = c
    BY <1>3, <2>1
  <2> QED
    BY <2>1, <2>2 DEF ars_d_build
<1>10. /\ Steady(rest, "LAYER", k, p)
       /\ s = "FIELD_OR_CBRACE" \/ s = "COMMA_OR_CBRACE" => Steady(rest, "LEN_OR_PLUS", k, p)
       /\ s \in FieldStates => \A x \in FieldStates : Steady(rest, x, k, p)
  <2> HIDE DEF s
  <2> QED
    BY <1>2 DEF Steady, FieldStates
<1>11. s \in {"OBRACE_OR_PLUS", "FIELD_OR_CBRACE", "EQUAL", "VALUE", "COMMA_OR_CBRACE",
              "LAYER", "LEN_OR_PLUS", "PLUS"}
  <2> HIDE DEF s
  <2> QED
    BY <1>2 DEF Steady, FieldStates
<1>12. c.text = rest /\ c.state = s /\ c.kw = k /\ c.field = f /\ c.p = p /\ c.err = e
  <2> HIDE DEF s
  <2> QED
    BY ParserFields
<1>13. CASE s = "LAYER"
  <2>1. CASE tok[1] # "word" \/ Len(tok) # 2 \/ ars_nospace(p) \/ tok[2] \notin Keywords
    <3>1. OnLayer(c, tok) = Fail(c)
      <4> HIDE DEF c
      <4> QED
        BY <1>12, <2>1 DEF OnLayer
    <3> QED
      BY <1>5, <1>9, <1>13, <3>1
  <2>2. CASE ~ (tok[1] # "word" \/ Len(tok) # 2) /\ ~ ars_nospace(p) /\ tok[2] \in Keywords
    <3> DEFINE kw == tok[2]
               u == ki_add(kw, p)
               x == "OBRACE_OR_PLUS"
    <3>1. OnLayer(c, tok) = [c EXCEPT !.kw = kw, !.p = u, !.state = x]
      <4> HIDE DEF c
      <4> QED
        BY <1>12, <2>2 DEF OnLayer
    <3>2. kw \in Keywords /\ p \in Seq(Layer) /\ Stack(p)
      BY <1>2, <2>2 DEF Steady, Stack
    <3>3. x \in FieldStates
      BY DEF FieldStates
    <3> HIDE DEF kw, x, c, s
    <3>4. PICK l \in Layer : u = Append(p, l) /\ Shape(kw, l)
      BY <3>2, AddShape
    <3>5. Stack(u) /\ Last(u) = l /\ u # << >>
      BY <2>2, <3>2, <3>4, StackAppend DEF Shape
    <3> HIDE DEF u
    <3>6. Steady(rest, x, kw, u)
      BY <3>2, <3>3, <3>4, <3>5 DEF Steady
    <3>7. Building(ParserOf(rest, x, kw, f, u, e))
      BY <1>4, <3>6
    <3>8. [c EXCEPT !.kw = kw, !.p = u, !.state = x] = ParserOf(rest, x, kw, f, u, e)
      <4>1. Opened(c, kw, u, x) = ParserOf(rest, x, kw, f, u, e)
        BY <1>0, ParserStep
      <4> QED
        BY <4>1 DEF Opened
    <3>9. r = OnLayer(c, tok)
      BY <1>9, <1>13 DEF s
    <3> QED
      BY <3>1, <3>7, <3>8, <3>9
  <2> QED
    BY <2>1, <2>2
<1>14. CASE s = "VALUE"
  <2> DEFINE l == ki_set(k, Last(p), f, tok)
             x == "COMMA_OR_CBRACE"
             u == ReplaceAt(p, Len(p), l)
  <2>1. /\ Stack(p) /\ p # << >> /\ k \in Keywords /\ Shape(k, Last(p))
    BY <1>2, <1>14 DEF Steady, FieldStates
  <2>2. Last(p) \in Layer /\ Len(p) \in 1 .. Len(p)
    BY <2>1, StackLast
  <2>3. l = Bad \/ (l \in Layer /\ Shape(k, l))
    BY <2>1, <2>2, SetShape
  <2>4. OnValue(c, tok) = IF l = Bad THEN Fail(c) ELSE [c EXCEPT !.p = ReplaceAt(@, Len(@), l), !.state = x]
    <3> HIDE DEF c
    <3> QED
      BY <1>12 DEF OnValue
  <2>5. [c EXCEPT !.p = ReplaceAt(@, Len(@), l), !.state = x] = [c EXCEPT !.p = u, !.state = x]
    BY DEF ParserOf
  <2>6. x \in FieldStates
    BY DEF FieldStates
  <2>7. r = OnValue(c, tok)
    <3> HIDE DEF c
    <3> QED
      BY <1>9, <1>14
  <2> HIDE DEF x, c, s, l
  <2>8. CASE l # Bad
    <3>1. Stack(u) /\ Len(u) = Len(p) /\ u[Len(p)] = l
      <4>1. Whole(l.type, Len(l.data))
        BY <2>3, <2>8 DEF Shape
      <4> QED
        BY <2>1, <2>2, <2>3, <2>8, <4>1, StackReplace DEF ReplaceAt
    <3>2. Last(u) = l /\ u # << >>
      <4> HIDE DEF u
      <4>1. Len(u) # 0
        BY <2>2, <3>1
      <4>2. Len(<< >>) = 0
        OBVIOUS
      <4> QED
        BY <3>1, <4>1, <4>2 DEF Last
    <3> HIDE DEF u
    <3>3. Steady(rest, x, k, u)
      BY <2>1, <2>3, <2>6, <2>8, <3>1, <3>2, <1>2 DEF Steady
    <3>4. Building(ParserOf(rest, x, k, f, u, e))
      BY <1>4, <3>3
    <3>5. [c EXCEPT !.p = u, !.state = x] = ParserOf(rest, x, k, f, u, e)
      <4>1. Filled(c, u, x) = ParserOf(rest, x, k, f, u, e)
        BY <1>0, ParserStep
      <4> QED
        BY <4>1 DEF Filled
    <3> QED
      BY <2>4, <2>5, <2>7, <2>8, <3>4, <3>5
  <2> QED
    BY <1>5, <2>4, <2>7, <2>8
<1>15. CASE s = "LEN_OR_PLUS"
  <2> DEFINE u == ars_d_setlayer_size(p, tok)
             x == "PLUS"
  <2>1. Stack(p) /\ p # << >> /\ IsText(rest)
    BY <1>2, <1>15 DEF Steady, FieldStates
  <2>2. OnLength(c, tok) = IF u = << >> THEN Fail(c) ELSE [c EXCEPT !.p = u, !.state = x]
    <3> HIDE DEF c
    <3> QED
      BY <1>12 DEF OnLength
  <2>3. x \in FieldStates \cup {"LAYER", "LEN_OR_PLUS", "PLUS"}
        /\ x \notin FieldStates \cup {"LEN_OR_PLUS"} /\ x \notin FieldStates
    BY DEF FieldStates
  <2>4. tok # <<"+">> => r = OnLength(c, tok)
    <3> HIDE DEF c
    <3> QED
      BY <1>9, <1>15
  <2>5. tok = <<"+">> => r = [c EXCEPT !.state = "LAYER"]
    <3> HIDE DEF c
    <3> QED
      BY <1>9, <1>15
  <2> HIDE DEF x, c, s, u
  <2>6. CASE u # << >>
    <3>1. Stack(u)
      BY <2>1, <2>6, SizeStack DEF u
    <3>2. Steady(rest, x, k, u)
      BY <2>1, <2>3, <3>1 DEF Steady
    <3>3. Building(ParserOf(rest, x, k, f, u, e))
      BY <1>4, <3>2
    <3>4. [c EXCEPT !.p = u, !.state = x] = ParserOf(rest, x, k, f, u, e)
      <4>1. Filled(c, u, x) = ParserOf(rest, x, k, f, u, e)
        BY <1>0, ParserStep
      <4> QED
        BY <4>1 DEF Filled
    <3>5. Building([c EXCEPT !.state = "LAYER"])
      BY <1>6, <1>10
    <3> QED
      BY <2>2, <2>4, <2>5, <2>6, <3>3, <3>4, <3>5
  <2>7. CASE u = << >>
    <3>1. Building([c EXCEPT !.state = "LAYER"])
      BY <1>6, <1>10
    <3> QED
      BY <1>5, <2>2, <2>4, <2>5, <2>7, <3>1
  <2> QED
    BY <2>6, <2>7
<1>16. CASE s = "FIELD_OR_CBRACE"
  <2> DEFINE name == Last(tok)
             x == "EQUAL"
  <2>1. x \in FieldStates /\ s \in FieldStates
    BY <1>16 DEF FieldStates
  <2>2. tok # <<")">> => r = [c EXCEPT !.field = name, !.state = x]
    <3> HIDE DEF c
    <3> QED
      BY <1>9, <1>16
  <2>3. tok = <<")">> => r = [c EXCEPT !.state = "LEN_OR_PLUS"]
    <3> HIDE DEF c
    <3> QED
      BY <1>9, <1>16
  <2> HIDE DEF x, c, s, name
  <2>4. Steady(rest, x, k, p)
    BY <1>10, <2>1
  <2>5. Building(ParserOf(rest, x, k, name, p, e))
    BY <1>4, <2>4
  <2>6. [c EXCEPT !.field = name, !.state = x] = ParserOf(rest, x, k, name, p, e)
    <3>1. Named(c, name, x) = ParserOf(rest, x, k, name, p, e)
      BY <1>0, ParserStep
    <3> QED
      BY <3>1 DEF Named
  <2>7. Building([c EXCEPT !.state = "LEN_OR_PLUS"])
    BY <1>6, <1>10, <1>16
  <2> QED
    BY <2>2, <2>3, <2>5, <2>6, <2>7
<1>17. CASE s \in {"OBRACE_OR_PLUS", "EQUAL", "COMMA_OR_CBRACE", "PLUS"}
  <2>1. /\ Building([c EXCEPT !.state = "LAYER"])
        /\ Building(Expect(c, tok, <<"+">>, "LAYER"))
    BY <1>6, <1>7, <1>10
  <2>2. /\ "FIELD_OR_CBRACE" \in FieldStates /\ "VALUE" \in FieldStates
        /\ s # "PLUS" => s \in FieldStates
    BY <1>17 DEF FieldStates
  <2>3. s # "PLUS" => /\ Building(Expect(c, tok, <<"(">>, "FIELD_OR_CBRACE"))
                      /\ Building(Expect(c, tok, <<"=">>, "VALUE"))
                      /\ Building([c EXCEPT !.state = "FIELD_OR_CBRACE"])
    BY <1>6, <1>7, <1>10, <2>2
  <2>4. s = "COMMA_OR_CBRACE" => Building(Expect(c, tok, <<")">>, "LEN_OR_PLUS"))
    BY <1>7, <1>10
  <2> HIDE DEF c, s
  <2> QED
    BY <1>9, <1>17, <2>1, <2>3, <2>4
<1> QED
  BY <1>11, <1>13, <1>14, <1>15, <1>16, <1>17

-----------------------------------------------------------------------------
(* The compilers keep the stack.                                           *)

\* Sums are words.
LEMMA MultiRange ==
  ASSUME NEW chunks \in Seq(Seq(Byte))
  PROVE  ars_multi_cksum(chunks) \in Nat /\ ars_multi_cksum(chunks) <= 65535
<1>1. ars_multi_cksum(chunks) = ars_cksum(FlattenSeq(chunks))
  BY ChunksDoNotMatter
<1>2. FlattenSeq(chunks) \in Seq(Byte)
  BY FlattenConcat
<1> QED
  BY <1>1, <1>2, CksumRange

\* A layer keeps its header when its bytes are set.
LEMMA SetsStack ==
  ASSUME NEW p, Stack(p), NEW i \in 1 .. Len(p), NEW d \in Seq(Byte), Len(d) = Len(p[i].data)
  PROVE  LET q == Sets(p, i, d)
         IN  /\ Stack(q) /\ Len(q) = Len(p) /\ q[i].type = p[i].type /\ q[i].data = d
             /\ q[i].flags = p[i].flags
<1> DEFINE q == Sets(p, i, d)
           n == Len(p)
<1>1. p \in Seq(Layer) /\ n <= ARS_MAX_LAYER /\ \A k \in 1 .. n : Whole(p[k].type, Len(p[k].data))
  BY DEF Stack
<1>2. /\ q \in Seq(Layer) /\ Len(q) = n /\ q[i].data = d /\ q[i].type = p[i].type
      /\ q[i].flags = p[i].flags /\ \A k \in 1 .. n : k # i => q[k] = p[k]
  BY <1>1, SetsLayer
<1> HIDE DEF q
<1>3. \A k \in 1 .. n : Whole(q[k].type, Len(q[k].data))
  BY <1>1, <1>2
<1> QED
  BY <1>1, <1>2, <1>3 DEF Stack, q, n

\* Bytes are put into the header of a layer.
LEMMA PutStack ==
  ASSUME NEW p, Stack(p), NEW i \in 1 .. Len(p), NEW off \in Int, NEW bytes \in Seq(Byte)
  PROVE  LET q == Sets(p, i, Put(p[i].data, off, bytes))
         IN  /\ Stack(q) /\ Len(q) = Len(p) /\ q[i].type = p[i].type
             /\ q[i].data \in Seq(Byte) /\ Len(q[i].data) = Len(p[i].data)
<1> DEFINE d == Put(p[i].data, off, bytes)
<1>1. p[i].data \in Seq(Byte)
  BY ElementOfSeq DEF Stack, Layer
<1>2. d \in Seq(Byte) /\ Len(d) = Len(p[i].data)
  BY <1>1, PutType
<1> HIDE DEF d
<1>3. LET q == Sets(p, i, d)
      IN  /\ Stack(q) /\ Len(q) = Len(p) /\ q[i].type = p[i].type /\ q[i].data = d
  BY <1>2, SetsStack
<1> QED
  BY <1>2, <1>3 DEF d

\* The chunks from a layer on are bytes.
LEMMA StackChunks ==
  ASSUME NEW p, Stack(p), NEW i \in 1 .. Len(p), p[i].type # "NULL"
  PROVE  Chunks(p, i) \in Seq(Seq(Byte)) /\ ars_relative_size(p, i) \in Nat
BY RelativeSizeIsLen, RelativeSizeType DEF Stack

\* The two ways of storing a checksum keep the stack.
LEMMA SumsStack ==
  ASSUME NEW p, Stack(p), NEW i \in 1 .. Len(p), p[i].type # "NULL", NEW off \in Int,
         NEW pseudo \in Seq(Byte)
  PROVE  /\ Stack(SumWithPseudo(p, i, off, pseudo).p) /\ Len(SumWithPseudo(p, i, off, pseudo).p) = Len(p)
         /\ Stack(SumAlone(p, i, off).p) /\ Len(SumAlone(p, i, off).p) = Len(p)
<1> DEFINE q == Sets(p, i, Put(p[i].data, off, <<0, 0>>))
           a == ars_multi_cksum(<<pseudo>> \o Chunks(q, i))
           e == ars_multi_cksum(Chunks(q, i))
           qa == Sets(q, i, Put(q[i].data, off, Net(a, 2)))
           qe == Sets(p, i, Put(q[i].data, off, Net(e, 2)))
<1>1. <<0, 0>> \in Seq(Byte)
  BY DEF Byte
<1>2. /\ Stack(q) /\ Len(q) = Len(p) /\ q[i].type # "NULL"
      /\ q[i].data \in Seq(Byte) /\ Len(q[i].data) = Len(p[i].data)
  BY <1>1, PutStack
<1>3. /\ SumWithPseudo(p, i, off, pseudo).p = IF pseudo = << >> THEN q ELSE qa
      /\ SumAlone(p, i, off).p = qe
  <2>1. SumWithPseudo(p, i, off, pseudo) = IF pseudo = << >> THEN Invalid(q) ELSE Ok(qa)
    BY DEF SumWithPseudo
  <2>2. SumAlone(p, i, off) = Ok(qe)
    BY DEF SumAlone
  <2>3. \A x : Ok(x).p = x /\ Invalid(x).p = x
    BY DEF Ok, Invalid
  <2> HIDE DEF q, qa, qe
  <2> QED
    BY <2>1, <2>2, <2>3
<1> HIDE DEF q
<1>4. Chunks(q, i) \in Seq(Seq(Byte))
  BY <1>2, StackChunks
<1>5. <<pseudo>> \o Chunks(q, i) \in Seq(Seq(Byte))
  <2>1. <<pseudo>> \in Seq(Seq(Byte))
    OBVIOUS
  <2> QED
    BY <1>4, <2>1, ConcatProperties
<1>6. a \in Nat /\ e \in Nat
  <2> DEFINE x == <<pseudo>> \o Chunks(q, i)
             y == Chunks(q, i)
  <2>1. x \in Seq(Seq(Byte)) /\ y \in Seq(Seq(Byte))
    BY <1>4, <1>5
  <2> HIDE DEF x, y
  <2>2. ars_multi_cksum(x) \in Nat /\ ars_multi_cksum(y) \in Nat
    BY <2>1, MultiRange
  <2> QED
    BY <2>2 DEF x, y
<1> HIDE DEF a, e
<1>7. Net(a, 2) \in Seq(Byte) /\ Net(e, 2) \in Seq(Byte)
  BY <1>6, NetType
<1>8. i \in 1 .. Len(q)
  BY <1>2
<1>9. Stack(qa) /\ Len(qa) = Len(q)
  BY <1>2, <1>7, <1>8, PutStack
<1>10. Stack(qe) /\ Len(qe) = Len(p)
  <2> DEFINE d == Put(q[i].data, off, Net(e, 2))
  <2>1. d \in Seq(Byte) /\ Len(d) = Len(q[i].data)
    <3> DEFINE x == q[i].data
               w == Net(e, 2)
    <3>1. x \in Seq(Byte) /\ w \in Seq(Byte)
      BY <1>2, <1>7
    <3> HIDE DEF x, w
    <3>2. Put(x, off, w) \in Seq(Byte) /\ Len(Put(x, off, w)) = Len(x)
      BY <3>1, PutType
    <3> QED
      BY <3>2 DEF x, w
  <2> HIDE DEF d
  <2>2. Stack(Sets(p, i, d)) /\ Len(Sets(p, i, d)) = Len(p)
    BY <1>2, <2>1, SetsStack
  <2> QED
    BY <2>2 DEF d
<1> HIDE DEF qa, qe
<1> QED
  BY <1>2, <1>3, <1>9, <1>10

\* The bytes of the layers behind a layer are counted.
LEMMA SizeBehind ==
  ASSUME NEW p, Stack(p), NEW i \in 1 .. Len(p), NEW t
  PROVE  /\ ars_relative_size(p, i + 1) \in Nat
         /\ RunSize(p, i + 1, FirstNot(p, i + 1, t) - 1) \in Nat
<1> DEFINE n == Len(p)
           S == {h \in i + 1 .. n + 1 : TypeAt(p, h) = "NULL"} \cup {n + 1}
           f == i + 1
           last == FirstNot(p, i + 1, t)
           g == last - 1
           h == Hole(p, f) - 1
<1>1. p \in Seq(Layer) /\ n \in Nat /\ i \in 1 .. n
  BY LenProperties DEF Stack
<1>2. Hole(p, f) = Min(S)
  BY DEF Hole
<1>3. S \in SUBSET (i + 1 .. n + 1) /\ S # {} /\ S \in SUBSET Nat
  <2> HIDE DEF n
  <2> QED
    BY <1>1
<1>4. Min(S) \in i + 1 .. n + 1
  <2> HIDE DEF S, n
  <2> QED
    BY <1>3, MinIn
<1>5. last \in i + 1 .. n + 1
  BY <1>1, FirstNotRange
<1>6. f \in Nat /\ 1 <= f /\ g \in Nat /\ g <= n /\ h \in Nat /\ h <= n
  <2> HIDE DEF last, S, n
  <2> QED
    BY <1>1, <1>2, <1>4, <1>5
<1> HIDE DEF f, g, h
<1>7. RunSize(p, f, g) \in Nat /\ RunSize(p, f, h) \in Nat
  BY <1>1, <1>6, RunSizeType DEF n
<1>8. ars_relative_size(p, f) = RunSize(p, f, h)
  BY DEF ars_relative_size, h
<1> QED
  BY <1>7, <1>8 DEF f, g, last

\* A layer of a stack, and the byte at an offset of its header.
LEMMA StackLayer ==
  ASSUME NEW p, Stack(p), NEW i \in 1 .. Len(p)
  PROVE  /\ p[i] \in Layer /\ p[i].data \in Seq(Byte) /\ Whole(p[i].type, Len(p[i].data))
         /\ \A k \in 1 .. Len(p[i].data) : High(p[i].data[k]) \in 0 .. 15 /\ Low(p[i].data[k]) \in 0 .. 15
<1>1. p[i] \in Layer /\ Whole(p[i].type, Len(p[i].data))
  BY ElementOfSeq DEF Stack
<1> DEFINE d == p[i].data
<1>2. d \in Seq(Byte)
  BY <1>1 DEF Layer
<1> HIDE DEF d
<1>3. \A k \in 1 .. Len(d) : d[k] \in Byte
  BY <1>2, ElementOfSeq
<1>4. \A k \in 1 .. Len(d) : High(d[k]) \in 0 .. 15 /\ Low(d[k]) \in 0 .. 15
  BY <1>3, Nibbles
<1> QED
  BY <1>1, <1>2, <1>4 DEF d

\* Two nibbles are a byte.
LEMMA TwoNibbles ==
  ASSUME NEW x \in 0 .. 15, NEW y \in 0 .. 15
  PROVE  16 * x + y \in Byte /\ <<16 * x + y>> \in Seq(Byte)
BY DEF Byte

\* The transports are compiled to a stack (ars_compiler_udp(),
\* ars_compiler_tcp(), ars_compiler_icmp6(), ars.c).
LEMMA TransportStack ==
  ASSUME NEW p, Stack(p), NEW i \in 1 .. Len(p), p[i].type \in Transports
  PROVE  Stack(CompileLayer(p, i).p) /\ Len(CompileLayer(p, i).p) = Len(p)
<1>1. ASSUME NEW q, Stack(q), Len(q) = Len(p), q[i].type = p[i].type, NEW off \in Int
      PROVE  /\ Stack(SumWithPseudo(q, i, off, Pseudo(q, i)).p)
             /\ Len(SumWithPseudo(q, i, off, Pseudo(q, i)).p) = Len(p)
  <2>1. q \in Seq(Layer) /\ i \in 1 .. Len(q) /\ q[i].type # "NULL"
    BY <1>1 DEF Stack, Transports
  <2>2. WholeAddresses(q, i)
    <3>1. \A k \in 1 .. i - 1 : k \in 1 .. Len(q)
      BY <1>1, <2>1, LenProperties
    <3>2. \A k \in 1 .. Len(q) : Whole(q[k].type, Len(q[k].data))
      BY <1>1 DEF Stack
    <3>3. ASSUME NEW k \in 1 .. i - 1, q[k].type \in {"IP", "IP6"}
          PROVE  Len(q[k].data) >= IF q[k].type = "IP" THEN 20 ELSE 40
      <4>1. Whole(q[k].type, Len(q[k].data))
        BY <3>1, <3>2
      <4>2. Len(q[k].data) = IF q[k].type = "IP" THEN 20 ELSE 40
        BY <3>3, <4>1 DEF Whole
      <4> QED
        BY <4>2
    <3> QED
      BY <3>3 DEF WholeAddresses
  <2>3. Pseudo(q, i) \in Seq(Byte)
    BY <2>1, <2>2, PseudoType
  <2> QED
    BY <1>1, <2>1, <2>3, SumsStack
<1>2. CASE p[i].type = "ICMP6"
  <2>1. CompileLayer(p, i) = IF "CKSUM" \in p[i].flags THEN Ok(p) ELSE SumWithPseudo(p, i, 2, Pseudo(p, i))
    BY <1>2 DEF CompileLayer, ars_compiler_icmp6, Pseudo
  <2>2. Ok(p).p = p
    BY DEF Ok
  <2> QED
    BY <1>1, <2>1, <2>2
<1>3. CASE p[i].type = "UDP"
  <2> DEFINE w == Net(ars_relative_size(p, i), 2)
             e == Sets(p, i, Put(p[i].data, 4, w))
             q == IF "LEN" \in p[i].flags THEN p ELSE e
  <2>1. w \in Seq(Byte)
    <3>1. ars_relative_size(p, i) \in Nat
      BY <1>3, StackChunks
    <3> QED
      BY <3>1, NetType
  <2>2. CompileLayer(p, i) = IF "CKSUM" \in p[i].flags THEN Ok(q)
                             ELSE SumWithPseudo(q, i, 6, ars_udptcp_pseudo(q, i))
    BY <1>3 DEF CompileLayer, ars_compiler_udp
  <2> HIDE DEF w
  <2>3. Stack(e) /\ Len(e) = Len(p) /\ e[i].type = p[i].type
    <3> DEFINE at == 4
    <3>1. at \in Int
      OBVIOUS
    <3> HIDE DEF at
    <3>2. Stack(Sets(p, i, Put(p[i].data, at, w))) /\ Len(Sets(p, i, Put(p[i].data, at, w))) = Len(p)
          /\ Sets(p, i, Put(p[i].data, at, w))[i].type = p[i].type
      BY <2>1, <3>1, PutStack
    <3> QED
      BY <3>2 DEF at
  <2> HIDE DEF e
  <2>4. Stack(q) /\ Len(q) = Len(p) /\ q[i].type = p[i].type
    BY <2>3
  <2> HIDE DEF q
  <2>5. ars_udptcp_pseudo(q, i) = Pseudo(q, i)
    BY <1>3, <2>4 DEF Pseudo
  <2>6. Ok(q).p = q
    BY DEF Ok
  <2> QED
    BY <1>1, <2>2, <2>4, <2>5, <2>6
<1>4. CASE p[i].type = "TCP"
  <2> DEFINE last == FirstNot(p, i + 1, "TCPOPT")
             R == RunSize(p, i + 1, last - 1)
             off == (5 + R \div 4) % 16
             low == Low(p[i].data[13])
             w == <<16 * off + low>>
             e == Sets(p, i, Put(p[i].data, 12, w))
             q == IF "HDRLEN" \in p[i].flags THEN p ELSE e
  <2>1. R \in Nat
    BY SizeBehind
  <2>2. CompileLayer(p, i) = IF "CKSUM" \in p[i].flags THEN Ok(q)
                             ELSE SumWithPseudo(q, i, 16, ars_udptcp_pseudo(q, i))
    BY <1>4 DEF CompileLayer, ars_compiler_tcp
  <2> HIDE DEF R
  <2>3. off \in 0 .. 15
    BY <2>1, HeaderNibble
  <2>4. low \in 0 .. 15
    <3>1. Whole(p[i].type, Len(p[i].data))
      BY StackLayer
    <3>2. Len(p[i].data) = 20
      BY <1>4, <3>1 DEF Whole
    <3>3. \A k \in 1 .. Len(p[i].data) : Low(p[i].data[k]) \in 0 .. 15
      BY StackLayer
    <3>4. 13 \in 1 .. 20
      OBVIOUS
    <3> QED
      BY <3>2, <3>3, <3>4
  <2> HIDE DEF off, low
  <2>5. w \in Seq(Byte)
    BY <2>3, <2>4, TwoNibbles
  <2> HIDE DEF w
  <2>6. Stack(e) /\ Len(e) = Len(p) /\ e[i].type = p[i].type
    <3> DEFINE at == 12
    <3>1. at \in Int
      OBVIOUS
    <3> HIDE DEF at
    <3>2. Stack(Sets(p, i, Put(p[i].data, at, w))) /\ Len(Sets(p, i, Put(p[i].data, at, w))) = Len(p)
          /\ Sets(p, i, Put(p[i].data, at, w))[i].type = p[i].type
      BY <2>5, <3>1, PutStack
    <3> QED
      BY <3>2 DEF at
  <2> HIDE DEF e
  <2>7. Stack(q) /\ Len(q) = Len(p) /\ q[i].type = p[i].type
    BY <2>6
  <2> HIDE DEF q
  <2>8. ars_udptcp_pseudo(q, i) = Pseudo(q, i)
    BY <1>4, <2>7 DEF Pseudo
  <2>9. Ok(q).p = q
    BY DEF Ok
  <2> QED
    BY <1>1, <2>2, <2>7, <2>8, <2>9
<1> QED
  BY <1>2, <1>3, <1>4 DEF Transports

\* The padding of the last option of a run (ars_compiler_ipopt(),
\* ars_compiler_tcpopt(), ars.c).
LEMMA PadStack ==
  ASSUME NEW p, Stack(p), NEW i \in 1 .. Len(p), NEW type, p[i].type \in {"IPOPT", "TCPOPT"}
  PROVE  Stack(PadOptions(p, i, type).p) /\ Len(PadOptions(p, i, type).p) = Len(p)
<1> DEFINE S == {0} \cup {h \in 1 .. i - 1 : TypeAt(p, h) # type}
           first == Max(S) + 1
           rest == RunSize(p, first, i) % 4
           nops == [k \in 1 .. 4 - rest |-> 1]
           d == Bytes(p[i]) \o nops
           l == [p[i] EXCEPT !.data = d, !.size = @ + 4 - rest]
           q == [p EXCEPT ![i].data = d, ![i].size = @ + 4 - rest]
<1>1. /\ p \in Seq(Layer) /\ i \in Nat /\ i >= 1 /\ i <= Len(p) /\ p[i] \in Layer
      /\ p[i].size \in Nat /\ p[i].size <= Len(p[i].data)
  BY StackLayer, LenProperties DEF Stack, Layer
<1>2. S \in SUBSET (0 .. i - 1) /\ S # {} /\ i - 1 \in Nat
  BY <1>1
<1>3. Max(S) \in 0 .. i - 1
  <2> DEFINE n == i - 1
  <2>1. S \in SUBSET (0 .. n) /\ S # {} /\ n \in Nat
    BY <1>2
  <2> HIDE DEF S, n
  <2>2. Max(S) \in S
    BY <2>1, MaxIn
  <2> QED
    BY <2>1, <2>2 DEF n
<1>4. first \in Nat /\ 1 <= first
  <2> HIDE DEF S
  <2> QED
    BY <1>1, <1>3
<1>5. PadOptions(p, i, type).p = IF TypeAt(p, i + 1) = type \/ rest = 0 THEN p ELSE q
  <2>1. PadOptions(p, i, type) = IF TypeAt(p, i + 1) = type \/ rest = 0 THEN Ok(p) ELSE Ok(q)
    BY DEF PadOptions
  <2>2. \A x : Ok(x).p = x
    BY DEF Ok
  <2> HIDE DEF q, rest
  <2> QED
    BY <2>1, <2>2
<1> HIDE DEF first
<1>6. RunSize(p, first, i) \in Nat
  BY <1>1, <1>4, RunSizeType
<1>7. rest \in 0 .. 3
  <2> DEFINE x == RunSize(p, first, i)
  <2> HIDE DEF x
  <2>1. x \in Nat
    BY <1>6 DEF x
  <2>2. x % 4 \in 0 .. 3
    BY <2>1
  <2> QED
    BY <2>2 DEF x
<1> HIDE DEF rest
<1>8. nops \in Seq(Byte) /\ Len(nops) = 4 - rest
  <2> DEFINE m == 4 - rest
  <2>1. m \in Nat
    BY <1>7
  <2> HIDE DEF m
  <2>2. [k \in 1 .. m |-> 1] \in Seq(Byte) /\ Len([k \in 1 .. m |-> 1]) = m
    BY <2>1 DEF Byte
  <2> QED
    BY <2>2 DEF m
<1> HIDE DEF nops
<1>9. Bytes(p[i]) \in Seq(Byte) /\ Len(Bytes(p[i])) = p[i].size
  BY <1>1, BytesType
<1>10. d \in Seq(Byte) /\ Len(d) = p[i].size + (4 - rest)
  <2> DEFINE e == Bytes(p[i])
  <2> HIDE DEF e
  <2>1. e \in Seq(Byte) /\ Len(e) = p[i].size
    BY <1>9 DEF e
  <2>2. e \o nops \in Seq(Byte) /\ Len(e \o nops) = Len(e) + Len(nops)
    BY <1>8, <2>1, ConcatProperties
  <2> QED
    BY <1>8, <2>1, <2>2 DEF e
<1> HIDE DEF d
<1>11. l \in Layer /\ l.type = p[i].type
  <2>1. p[i].size + 4 - rest = p[i].size + (4 - rest) /\ p[i].size + 4 - rest \in Nat
    BY <1>1, <1>7
  <2> DEFINE m == p[i].size + 4 - rest
             old == p[i]
  <2>2. l = [old EXCEPT !.data = d, !.size = m]
    OBVIOUS
  <2>3. old \in [type : LayerTypes, size : Nat, flags : SUBSET LayerFlags, data : Seq(Byte)]
    BY <1>1 DEF Layer
  <2>4. m \in Nat /\ m = Len(d)
    BY <1>10, <2>1
  <2> HIDE DEF old, m, l
  <2>5. l \in [type : LayerTypes, size : Nat, flags : SUBSET LayerFlags, data : Seq(Byte)]
        /\ l.size = m /\ l.data = d /\ l.type = old.type
    BY <1>10, <2>2, <2>3, <2>4
  <2>6. l.size <= Len(l.data)
    BY <2>4, <2>5
  <2> QED
    BY <2>5, <2>6 DEF Layer, old
<1>12. Whole(l.type, Len(l.data))
  BY <1>11 DEF Whole
<1>13. q = [p EXCEPT ![i] = l]
  BY <1>1
<1> HIDE DEF l, q
<1>14. Stack(q) /\ Len(q) = Len(p)
  BY <1>11, <1>12, <1>13, StackReplace
<1> QED
  BY <1>5, <1>14

\* Writing at any of the offsets the compilers know.
LEMMA PutSame ==
  ASSUME NEW d \in Seq(Byte), NEW bytes \in Seq(Byte), NEW off \in 0 .. 40
  PROVE  Put(d, off, bytes) \in Seq(Byte) /\ Len(Put(d, off, bytes)) = Len(d)
<1>1. off \in Int
  OBVIOUS
<1> QED
  BY <1>1, PutType

\* The IP header is compiled to a stack (ars_compiler_ip(), ars.c).
LEMMA IpStack ==
  ASSUME NEW p, Stack(p), NEW i \in 1 .. Len(p), p[i].type = "IP"
  PROVE  Stack(ars_compiler_ip(p, i).p) /\ Len(ars_compiler_ip(p, i).p) = Len(p)
<1> DEFINE l == p[i]
           computed(f) == f \notin l.flags
           last == FirstNot(p, i + 1, "IPOPT")
           R == RunSize(p, i + 1, last - 1)
           ver  == IF computed("VERSION") THEN 4 ELSE High(l.data[1])
           sum  == (5 + R \div 4) % 16
           ihl  == IF computed("HDRLEN") THEN sum ELSE Low(l.data[1])
           next == FirstNot(p, IF computed("HDRLEN") THEN last ELSE i, "IPOPT")
           b1 == <<16 * ver + ihl>>
           proto == <<IpProtocol(TypeAt(p, next))>>
           len == Net(ars_relative_size(p, i), 2)
           d1 == Put(l.data, 0, b1)
           d2 == IF computed("TOTLEN") THEN Put(d1, 2, len) ELSE d1
           d3 == IF computed("PROTOCOL") THEN Put(d2, 9, proto) ELSE d2
           zeros == <<0, 0>>
           z == Put(d3, 10, zeros)
           options == [k \in 1 .. last - i - 1 |-> Bytes(p[i + k])]
           head == SubSeq(z, 1, 20)
           check == Net(ars_multi_cksum(<<head>> \o options), 2)
           d == IF computed("CKSUM") THEN Put(z, 10, check) ELSE d3
<1>1. ars_compiler_ip(p, i).p = Sets(p, i, d)
  BY Zenon DEF ars_compiler_ip, Ok
<1>2. l.data \in Seq(Byte) /\ Len(l.data) = 20
  <2>1. l.data \in Seq(Byte) /\ Whole(l.type, Len(l.data))
    BY StackLayer
  <2> QED
    BY <2>1 DEF Whole
<1>3. ver \in 0 .. 15 /\ ihl \in 0 .. 15
  <2>1. High(l.data[1]) \in 0 .. 15 /\ Low(l.data[1]) \in 0 .. 15
    <3>1. \A k \in 1 .. Len(l.data) : High(l.data[k]) \in 0 .. 15 /\ Low(l.data[k]) \in 0 .. 15
      BY StackLayer
    <3>2. 1 \in 1 .. 20
      OBVIOUS
    <3> QED
      BY <1>2, <3>1, <3>2
  <2>2. R \in Nat
    BY SizeBehind
  <2> HIDE DEF R
  <2>3. sum \in 0 .. 15
    BY <2>2, HeaderNibble
  <2> HIDE DEF sum, l
  <2> QED
    BY <2>1, <2>3
<1>4. b1 \in Seq(Byte)
  <2> HIDE DEF ver, ihl
  <2> QED
    BY <1>3, TwoNibbles
<1>5. proto \in Seq(Byte)
  <2>1. IpProtocol(TypeAt(p, next)) \in Byte
    BY DEF IpProtocol, Byte
  <2> DEFINE x == IpProtocol(TypeAt(p, next))
  <2>2. x \in Byte
    BY <2>1
  <2> HIDE DEF x
  <2> QED
    BY <2>2 DEF x
<1>6. len \in Seq(Byte)
  <2> DEFINE c == ars_relative_size(p, i)
  <2>1. c \in Nat
    BY StackChunks
  <2> HIDE DEF c
  <2>2. Net(c, 2) \in Seq(Byte)
    BY <2>1, NetType
  <2> QED
    BY <2>2 DEF c
<1>7. options \in Seq(Seq(Byte))
  <2>1. OptionChunks(p, i) \in Seq(Seq(Byte))
    BY OptionsBehind DEF Stack
  <2> QED
    BY <2>1 DEF OptionChunks
<1>8. zeros \in Seq(Byte)
  BY DEF Byte
<1> HIDE DEF b1, proto, len, l, options, zeros
<1>9. d1 \in Seq(Byte) /\ Len(d1) = 20
  BY <1>2, <1>4, PutSame
<1> HIDE DEF d1
<1>10. d2 \in Seq(Byte) /\ Len(d2) = 20
  BY <1>6, <1>9, PutSame
<1> HIDE DEF d2
<1>11. d3 \in Seq(Byte) /\ Len(d3) = 20
  BY <1>5, <1>10, PutSame
<1> HIDE DEF d3
<1>12. z \in Seq(Byte) /\ Len(z) = 20
  BY <1>8, <1>11, PutSame
<1> HIDE DEF z
<1>13. check \in Seq(Byte)
  <2>1. head \in Seq(Byte)
    <3>1. 20 \in 0 .. Len(z) /\ 0 \in 0 .. 20
      BY <1>12
    <3> QED
      BY <1>12, <3>1, PrefixOfPrefix
  <2> HIDE DEF head
  <2> DEFINE c == <<head>> \o options
  <2>2. c \in Seq(Seq(Byte))
    BY <1>7, <2>1
  <2> HIDE DEF c
  <2>3. ars_multi_cksum(c) \in Nat
    BY <2>2, MultiRange
  <2> DEFINE s == ars_multi_cksum(c)
  <2>4. s \in Nat
    BY <2>3
  <2> HIDE DEF s
  <2>5. Net(s, 2) \in Seq(Byte)
    BY <2>4, NetType
  <2> QED
    BY <2>5 DEF c, s
<1> HIDE DEF check
<1>14. d \in Seq(Byte) /\ Len(d) = 20
  BY <1>11, <1>12, <1>13, PutSame
<1> HIDE DEF d
<1>15. Stack(Sets(p, i, d)) /\ Len(Sets(p, i, d)) = Len(p)
  <2>1. Len(d) = Len(p[i].data)
    BY <1>2, <1>14 DEF l
  <2> QED
    BY <1>14, <2>1, SetsStack
<1> QED
  BY <1>1, <1>15

\* So is the IPv6 header (ars_compiler_ip6(), ars.c).
LEMMA Ip6Stack ==
  ASSUME NEW p, Stack(p), NEW i \in 1 .. Len(p), p[i].type = "IP6"
  PROVE  Stack(ars_compiler_ip6(p, i).p) /\ Len(ars_compiler_ip6(p, i).p) = Len(p)
<1> DEFINE l == p[i]
           low == Low(l.data[1])
           b1 == <<96 + low>>
           len == Net(ars_relative_size(p, i + 1), 2)
           next == TypeAt(p, i + 1)
           n == CASE next = "IP6" -> 41 [] next = "IP" -> 4 [] next = "ICMP6" -> 58
                  [] next = "ICMP" -> 1 [] next = "UDP" -> 17 [] next = "TCP" -> 6
                  [] OTHER -> 59
           nexthdr == <<n>>
           d1 == IF "VERSION" \in l.flags THEN l.data ELSE Put(l.data, 0, b1)
           d2 == IF "PAYLOADLEN" \in l.flags THEN d1 ELSE Put(d1, 4, len)
           d == IF "NEXTHDR" \in l.flags THEN d2 ELSE Put(d2, 6, nexthdr)
<1>1. ars_compiler_ip6(p, i).p = Sets(p, i, d)
  BY DEF ars_compiler_ip6, Ok
<1>2. l.data \in Seq(Byte) /\ Len(l.data) = 40
  <2>1. l.data \in Seq(Byte) /\ Whole(l.type, Len(l.data))
    BY StackLayer
  <2> QED
    BY <2>1 DEF Whole
<1>3. b1 \in Seq(Byte)
  <2>1. \A k \in 1 .. Len(l.data) : Low(l.data[k]) \in 0 .. 15
    BY StackLayer
  <2>2. 1 \in 1 .. 40
    OBVIOUS
  <2>3. low \in 0 .. 15
    BY <1>2, <2>1, <2>2
  <2> HIDE DEF low
  <2>4. 96 + low \in Byte
    BY <2>3 DEF Byte
  <2> QED
    BY <2>4
<1>4. len \in Seq(Byte)
  <2> DEFINE c == ars_relative_size(p, i + 1)
  <2>1. c \in Nat
    BY SizeBehind
  <2> HIDE DEF c
  <2>2. Net(c, 2) \in Seq(Byte)
    BY <2>1, NetType
  <2> QED
    BY <2>2 DEF c
<1>5. nexthdr \in Seq(Byte)
  <2>1. n \in Byte
    BY DEF Byte
  <2> HIDE DEF n
  <2> QED
    BY <2>1
<1> HIDE DEF b1, len, nexthdr, l
<1>6. d1 \in Seq(Byte) /\ Len(d1) = 40
  BY <1>2, <1>3, PutSame
<1> HIDE DEF d1
<1>7. d2 \in Seq(Byte) /\ Len(d2) = 40
  BY <1>4, <1>6, PutSame
<1> HIDE DEF d2
<1>8. d \in Seq(Byte) /\ Len(d) = 40
  BY <1>5, <1>7, PutSame
<1> HIDE DEF d
<1>9. Stack(Sets(p, i, d)) /\ Len(Sets(p, i, d)) = Len(p)
  <2>1. Len(d) = Len(p[i].data)
    BY <1>2, <1>8 DEF l
  <2> QED
    BY <1>8, <2>1, SetsStack
<1> QED
  BY <1>1, <1>9

\* Whatever layer is compiled, a stack stays a stack (ars_compile(), ars.c).
LEMMA CompileStack ==
  ASSUME NEW p, Stack(p), NEW i \in 1 .. Len(p)
  PROVE  Stack(CompileLayer(p, i).p) /\ Len(CompileLayer(p, i).p) = Len(p)
<1>1. p[i].type \in LayerTypes
  <2>1. p[i] \in Layer
    BY StackLayer
  <2> QED
    BY <2>1 DEF Layer
<1>2. CASE p[i].type \in Transports
  BY <1>2, TransportStack
<1>3. CASE p[i].type \in {"IPOPT", "TCPOPT"}
  <2>1. CompileLayer(p, i) = PadOptions(p, i, p[i].type)
    BY <1>3 DEF CompileLayer, ars_compiler_ipopt, ars_compiler_tcpopt
  <2> QED
    BY <1>3, <2>1, PadStack
<1>4. CASE p[i].type = "IP"
  <2>1. CompileLayer(p, i) = ars_compiler_ip(p, i)
    BY <1>4 DEF CompileLayer
  <2> QED
    BY <1>4, <2>1, IpStack
<1>5. CASE p[i].type = "IP6"
  <2>1. CompileLayer(p, i) = ars_compiler_ip6(p, i)
    BY <1>5 DEF CompileLayer
  <2> QED
    BY <1>5, <2>1, Ip6Stack
<1>6. CASE p[i].type \in {"ICMP", "IGRP"}
  <2> DEFINE off == IF p[i].type = "ICMP" THEN 2 ELSE 10
  <2>1. CompileLayer(p, i) = IF "CKSUM" \in p[i].flags THEN Ok(p) ELSE SumAlone(p, i, off)
    BY <1>6 DEF CompileLayer, ars_compiler_icmp, ars_compiler_igrp
  <2>2. off \in Int /\ p[i].type # "NULL"
    BY <1>6
  <2> HIDE DEF off
  <2>3. << >> \in Seq(Byte)
    OBVIOUS
  <2>4. Stack(SumAlone(p, i, off).p) /\ Len(SumAlone(p, i, off).p) = Len(p)
    BY <2>2, <2>3, SumsStack
  <2>5. Ok(p).p = p
    BY DEF Ok
  <2> QED
    BY <2>1, <2>4, <2>5
<1>7. CASE p[i].type \in {"NULL", "DATA", "IGRPENTRY"}
  <2>1. CompileLayer(p, i) = Ok(p) /\ Ok(p).p = p
    BY <1>7 DEF CompileLayer, Ok
  <2> QED
    BY <2>1
<1> QED
  BY <1>1, <1>2, <1>3, <1>4, <1>5, <1>6, <1>7 DEF LayerTypes, Transports

\* The end of a description (ars_d_build(), apd.c).
LEMMA BuildingEnd ==
  ASSUME NEW q, Building(q)
  PROVE  Building(BuildEnd(q)) /\ BuildEnd(q).p = q.p
<1>1. Fail(q) = ParserOf(q.text, q.state, q.kw, q.field, q.p, "INVALID")
  <2> DEFINE t == q.text
             s == q.state
             k == q.kw
             f == q.field
             u == q.p
             e == q.err
  <2>1. q = ParserOf(t, s, k, f, u, e)
    BY DEF Building
  <2> HIDE DEF t, s, k, f, u, e
  <2>2. [ParserOf(t, s, k, f, u, e) EXCEPT !.err = "INVALID"] = ParserOf(t, s, k, f, u, "INVALID")
    BY DEF ParserOf
  <2>3. Fail(q) = ParserOf(t, s, k, f, u, "INVALID")
    BY <2>1, <2>2 DEF Fail
  <2> QED
    BY <2>3 DEF t, s, k, f, u
<1>2. Steady(q.text, q.state, q.kw, q.p)
  BY DEF Building
<1> DEFINE x == Fail(q)
<1>3. x = ParserOf(q.text, q.state, q.kw, q.field, q.p, "INVALID")
  BY <1>1
<1>4. /\ x.text = q.text /\ x.state = q.state /\ x.kw = q.kw
      /\ x.field = q.field /\ x.p = q.p /\ x.err = "INVALID"
  BY <1>3, ParserFields
<1> HIDE DEF x
<1>5. x = ParserOf(x.text, x.state, x.kw, x.field, x.p, x.err)
  BY <1>3, <1>4
<1>6. Building(x) /\ x.p = q.p
  BY <1>2, <1>4, <1>5 DEF Building
<1> QED
  BY <1>6 DEF BuildEnd, x

\* The bytes of a packet (ars_build_packet(), ars.c).
LEMMA PacketBytes ==
  ASSUME NEW p, Stack(p)
  PROVE  ars_build_packet(p) \in Seq(Byte)
<1> DEFINE n == Len(p)
           S == {k \in 1 .. n + 1 : TypeAt(p, k) = "NULL"} \cup {n + 1}
           h == Hole(p, 1)
           m == h - 1
           C == Chunks(p, 1)
<1>1. n \in Nat /\ p \in Seq(Layer)
  BY LenProperties DEF Stack
<1>2. S \in SUBSET Nat /\ S # {} /\ S \in SUBSET (1 .. n + 1)
  <2> HIDE DEF n
  <2> QED
    BY <1>1
<1>3. h \in 1 .. n + 1
  <2>1. h = Min(S)
    BY DEF Hole
  <2> HIDE DEF S
  <2> QED
    BY <1>2, <2>1, MinIn
<1> HIDE DEF h
<1>4. \A k \in 1 .. n : Bytes(p[k]) \in Seq(Byte)
  BY <1>1, BytesType, ElementOfSeq
<1> HIDE DEF n
<1>5. m \in Nat /\ \A k \in 1 .. m : 1 + k - 1 \in 1 .. n
  BY <1>1, <1>3
<1>6. C = [k \in 1 .. m |-> Bytes(p[1 + k - 1])]
  BY DEF Chunks, h
<1> HIDE DEF C, m
<1>7. C \in [1 .. m -> Seq(Byte)]
  BY <1>4, <1>5, <1>6
<1>8. FlattenSeq(C) \in Seq(Byte)
  BY <1>5, <1>7, FlatPieces
<1> QED
  BY <1>8 DEF C, ars_build_packet

\* What the network makes of the bytes of a packet.
LEMMA WireBytes ==
  ASSUME NEW d \in Seq(Byte)
  PROVE  /\ \A n \in Nat : d \o Zero(n) \in Seq(Byte) /\ Zero(n) \o d \in Seq(Byte)
         /\ \A n \in Nat : n < Len(d) => SubSeq(d, 1, n) \in Seq(Byte)
         /\ \A k \in 1 .. Len(d) : [d EXCEPT ![k] = (@ + 1) % 256] \in Seq(Byte)
<1>1. ASSUME NEW n \in Nat
      PROVE  d \o Zero(n) \in Seq(Byte) /\ Zero(n) \o d \in Seq(Byte)
  BY ZeroType, ConcatProperties
<1>2. ASSUME NEW n \in Nat, n < Len(d)
      PROVE  SubSeq(d, 1, n) \in Seq(Byte)
  <2>1. n \in 0 .. Len(d) /\ 0 \in 0 .. n
    BY <1>2
  <2> QED
    BY <2>1, PrefixOfPrefix
<1>3. ASSUME NEW k \in 1 .. Len(d)
      PROVE  [d EXCEPT ![k] = (@ + 1) % 256] \in Seq(Byte)
  <2> DEFINE x == (d[k] + 1) % 256
  <2>1. d[k] \in 0 .. 255
    BY ElementOfSeq DEF Byte
  <2>2. x \in Byte
    <3> DEFINE y == d[k]
    <3>1. y \in 0 .. 255
      BY <2>1
    <3> HIDE DEF y
    <3>2. (y + 1) % 256 \in 0 .. 255
      BY <3>1
    <3> QED
      BY <3>2 DEF y, Byte
  <2>3. [d EXCEPT ![k] = (@ + 1) % 256] = [d EXCEPT ![k] = x]
    OBVIOUS
  <2> HIDE DEF x
  <2>4. [d EXCEPT ![k] = x] \in Seq(Byte)
    BY <2>2, ExceptSeq
  <2> QED
    BY <2>3, <2>4
<1> QED
  BY <1>1, <1>2, <1>3

\* What a handler does with a packet it cannot complete: without room it
\* leaves the packet as it was; it fails for want of room, or of an IP header
\* for the checksum, and then the temporary layer stays (split.c).
GivesUp(p, s, r) ==
  /\ ars_nospace(p) => r.p = p
  /\ r.err # "OK" => \/ r.p = p
                     \/ /\ ~ ars_nospace(p)
                        /\ \E type \in {"UDP", "TCP"}, off \in {6, 16} :
                             r.p = ars_add_generic(p, type, Put(s, off, <<0, 0>>))

\* What a step and a failure do to the packet.
LEMMA StepsGiveUp ==
  ASSUME NEW p, NEW s
  PROVE  /\ \A err : GivesUp(p, s, Nospace(p, err))
         /\ \A q, len, state, aux, proto :
              ~ ars_nospace(p) \/ q = p => GivesUp(p, s, Step(q, len, state, aux, proto))
         /\ \A type \in {"UDP", "TCP"}, off \in {6, 16} : \A err :
              ~ ars_nospace(p) =>
                GivesUp(p, s, Nospace(ars_add_generic(p, type, Put(s, off, <<0, 0>>)), err))
BY DEF GivesUp, Nospace, Step

\* No handler does anything else (ars_split_state_handler(), split.c).
LEMMA HandlerGivesUp ==
  ASSUME NEW p, NEW s, NEW aux, NEW proto, NEW state \in States
  PROVE  GivesUp(p, s, ars_split_state_handler(state, p, s, aux, proto))
<1> DEFINE r == ars_split_state_handler(state, p, s, aux, proto)
<1>1. \A err : GivesUp(p, s, Nospace(p, err))
  BY StepsGiveUp
<1>2. \A q, len, st, x, y : ~ ars_nospace(p) \/ q = p => GivesUp(p, s, Step(q, len, st, x, y))
  BY StepsGiveUp
<1>3. \A type \in {"UDP", "TCP"}, off \in {6, 16} : \A err :
        ~ ars_nospace(p) =>
          GivesUp(p, s, Nospace(ars_add_generic(p, type, Put(s, off, <<0, 0>>)), err))
  BY StepsGiveUp
<1>4. CASE state = "GET_IP"
  BY <1>1, <1>2, <1>4 DEF ars_split_state_handler, ars_split_ip
<1>5. CASE state = "GET_IP6"
  BY <1>1, <1>2, <1>5 DEF ars_split_state_handler, ars_split_ip6
<1>6. CASE state = "GET_IPOPT"
  BY <1>1, <1>2, <1>6 DEF ars_split_state_handler, ars_split_ipopt
<1>7. CASE state = "GET_TCPOPT"
  BY <1>1, <1>2, <1>7 DEF ars_split_state_handler, ars_split_tcpopt
<1>8. CASE state = "GET_ICMP"
  BY <1>1, <1>2, <1>8 DEF ars_split_state_handler, ars_split_icmp
<1>9. CASE state = "GET_ICMP6"
  BY <1>1, <1>2, <1>9 DEF ars_split_state_handler, ars_split_icmp6
<1>10. CASE state = "GET_UDP"
  BY <1>1, <1>2, <1>3, <1>10 DEF ars_split_state_handler, ars_split_udp
<1>11. CASE state = "GET_TCP"
  BY <1>1, <1>2, <1>3, <1>11 DEF ars_split_state_handler, ars_split_tcp
<1>12. CASE state = "GET_IGRP"
  BY <1>1, <1>2, <1>12 DEF ars_split_state_handler, ars_split_igrp, IgrpStep
<1>13. CASE state = "GET_IGRPENTRY"
  BY <1>1, <1>2, <1>13 DEF ars_split_state_handler, ars_split_igrpentry, IgrpStep
<1>14. CASE state = "GET_DATA"
  BY <1>1, <1>2, <1>14 DEF ars_split_state_handler, ars_split_data
<1> QED
  BY <1>4, <1>5, <1>6, <1>7, <1>8, <1>9, <1>10, <1>11, <1>12, <1>13, <1>14 DEF States, OptStates

\* A packet that may end in the temporary layer of a checksum.
Capture(p) == p \in Seq(Layer) /\ Len(p) <= ARS_MAX_LAYER

\* A handler that goes on leaves a stack with whole headers, and one that
\* gives up a packet of layers (SplitStep of ars_split_packet(), split.c).
LEMMA SplitStepStack ==
  ASSUME Reading, Stack(captured), SplitStep
  PROVE  Capture(captured') /\ (pc' = "split" => Stack(captured'))
<1> DEFINE s == cur.rest
           c == captured
           r == ars_split_state_handler(cur.state, captured, cur.rest, cur.aux, cur.proto)
<1>1. captured' = r.p /\ pc' = IF r.err = "OK" THEN "split" ELSE "failed"
  BY DEF SplitStep
<1>2. /\ c \in Seq(Layer) /\ s \in Seq(Byte) /\ Feeds(cur.state, s, cur.aux)
      /\ cur.state \in States /\ Stack(c)
  BY DEF SplitStep, Reading, Feeds
<1>3. GivesUp(c, s, r)
  BY <1>2, HandlerGivesUp
<1>4. Capture(c)
  BY <1>2 DEF Capture, Stack
<1>5. CASE r.err = "OK"
  <2>1. Takes(c, s, r)
    BY <1>2, <1>5, HandlerTakes
  <2>2. PICK l \in Layer : TakesLayer(c, s, r, l)
    BY <2>1 DEF Takes
  <2>3. r.p = Append(c, l) /\ Whole(l.type, Len(l.data))
    BY <2>2 DEF TakesLayer
  <2>4. ~ ars_nospace(c)
    <3>1. ars_nospace(c) => r.p = c
      BY <1>3 DEF GivesUp
    <3> HIDE DEF r, c
    <3>2. Append(c, l) # c
      <4>1. Len(Append(c, l)) = Len(c) + 1 /\ Len(c) \in Nat
        BY <1>2, AppendProperties, LenProperties
      <4> QED
        BY <4>1
    <3> QED
      BY <2>3, <3>1, <3>2
  <2>5. Stack(r.p)
    <3> HIDE DEF r, c
    <3> QED
      BY <1>2, <2>3, <2>4, StackAppend
  <2> QED
    BY <1>1, <2>5 DEF Capture, Stack
<1>6. CASE r.err # "OK"
  <2> HIDE DEF r, c, s
  <2>1. CASE r.p = c
    BY <1>1, <1>4, <1>6, <2>1 DEF Capture
  <2>2. CASE /\ ~ ars_nospace(c)
             /\ \E type \in {"UDP", "TCP"}, off \in {6, 16} :
                  r.p = ars_add_generic(c, type, Put(s, off, <<0, 0>>))
    <3>1. PICK type \in {"UDP", "TCP"}, off \in {6, 16} :
            r.p = ars_add_generic(c, type, Put(s, off, <<0, 0>>))
      BY <2>2
    <3> DEFINE zeros == <<0, 0>>
               d == Put(s, off, zeros)
               l == [type |-> type, size |-> Len(d), flags |-> {}, data |-> d]
    <3>2. zeros \in Seq(Byte) /\ off \in Int
      BY DEF Byte
    <3>3. r.p = Append(c, l)
      BY <3>1 DEF ars_add_generic
    <3> HIDE DEF zeros
    <3>4. d \in Seq(Byte)
      BY <1>2, <3>2, PutType
    <3> HIDE DEF d
    <3>5. l \in Layer
      <4>1. Len(d) \in Nat /\ Len(d) <= Len(d)
        BY <3>4, LenProperties
      <4>2. type \in LayerTypes /\ {} \in SUBSET LayerFlags
        BY DEF LayerTypes
      <4> QED
        BY <3>4, <4>1, <4>2, LayerType
    <3> HIDE DEF l
    <3>6. Append(c, l) \in Seq(Layer) /\ Len(Append(c, l)) = Len(c) + 1
      BY <1>2, <3>5, AppendProperties
    <3>7. Len(c) + 1 <= ARS_MAX_LAYER
      <4>1. Len(c) \in Nat /\ Len(c) <= ARS_MAX_LAYER /\ Len(c) # ARS_MAX_LAYER /\ ARS_MAX_LAYER \in Nat
        BY <1>2, <2>2, MaxLayerAssumption, LenProperties DEF Stack, ars_nospace
      <4> DEFINE n == Len(c)
      <4> HIDE DEF n
      <4> QED
        BY <4>1 DEF n
    <3>8. Capture(captured')
      BY <1>1, <3>3, <3>6, <3>7 DEF Capture
    <3> QED
      BY <1>1, <1>6, <3>8
  <2> QED
    BY <1>3, <1>6, <2>1, <2>2 DEF GivesUp
<1> QED
  BY <1>5, <1>6

-----------------------------------------------------------------------------
(* The describer.                                                          *)

\* A number in network order is a number.
LEMMA NumberType ==
  ASSUME NEW s \in Seq(Byte)
  PROVE  Number(s) \in Nat
<1> DEFINE n == Len(s)
           step == [i \in 1 .. n |-> [v \in Nat |-> 256 * v + s[i]]]
           Eqn(h) == h = [t \in SUBSET (DOMAIN s) |-> IF t = {} THEN 0 ELSE 256 * h[t \ {Max(t)}] + s[Max(t)]]
           F == CHOOSE h : Eqn(h)
           zero == 0
<1>1. n \in Nat /\ DOMAIN s = 1 .. n /\ \A i \in 1 .. n : s[i] \in Nat
  <2>1. n \in Nat /\ DOMAIN s = 1 .. n
    BY LenProperties
  <2>2. \A i \in 1 .. n : s[i] \in Byte
    BY ElementOfSeq
  <2>3. \A x \in Byte : x \in Nat
    BY DEF Byte
  <2> HIDE DEF n
  <2> QED
    BY <2>1, <2>2, <2>3
<1>2. step \in [1 .. n -> [Nat -> Nat]]
  <2>1. \A i \in 1 .. n : [v \in Nat |-> 256 * v + s[i]] \in [Nat -> Nat]
    BY <1>1
  <2> QED
    BY <2>1
<1>3. \A i \in 1 .. n : \A v \in Nat : step[i][v] = 256 * v + s[i]
  OBVIOUS
<1>4. PICK h \in [SUBSET (1 .. n) -> Nat] : FoldsFrom(h, zero, n, step)
  <2> HIDE DEF n, step
  <2>1. zero \in Nat
    OBVIOUS
  <2> HIDE DEF zero
  <2> QED
    BY <1>1, <1>2, <2>1, FoldOverMax
<1>5. Eqn(h)
  <2>1. ASSUME NEW t \in SUBSET (1 .. n)
        PROVE  h[t] = IF t = {} THEN 0 ELSE 256 * h[t \ {Max(t)}] + s[Max(t)]
    <3>1. CASE t = {}
      <4> HIDE DEF n, step
      <4> QED
        BY <3>1, <1>4 DEF FoldsFrom
    <3>2. CASE t # {}
      <4>1. Max(t) \in t
        <5> HIDE DEF n
        <5>1. t \in SUBSET (0 .. n)
          BY <1>1
        <5> QED
          BY <1>1, <3>2, <5>1, MaxIn
      <4> DEFINE r == t \ {Max(t)}
      <4>2. h[t] = step[Max(t)][h[r]]
        <5> HIDE DEF n, step
        <5> QED
          BY <3>2, <1>4 DEF FoldsFrom
      <4>3. h[r] \in Nat /\ Max(t) \in 1 .. n
        BY <4>1
      <4> HIDE DEF step, n, r
      <4>4. step[Max(t)][h[r]] = 256 * h[r] + s[Max(t)]
        BY <1>3, <4>3
      <4> QED
        BY <3>2, <4>2, <4>4 DEF r
    <3> QED
      BY <3>1, <3>2
  <2>2. h = [t \in SUBSET (1 .. n) |-> h[t]]
    BY <1>4
  <2> HIDE DEF n, step
  <2> QED
    BY <1>1, <2>1, <2>2
<1>6. Eqn(F)
  <2> HIDE DEF Eqn
  <2> QED
    BY <1>5
<1>7. Number(s) = F[DOMAIN s]
  BY DEF Number, FoldLeft, MapThenFoldSet
<1>8. \A t \in SUBSET (1 .. n) : F[t] = IF t = {} THEN 0 ELSE 256 * F[t \ {Max(t)}] + s[Max(t)]
  <2> HIDE DEF F, n
  <2> QED
    BY <1>6, <1>1
<1> HIDE DEF F
<1> DEFINE S == {k \in Nat : F[1 .. k] \in Nat}
<1>9. 0 \in S
  <2> HIDE DEF n
  <2>1. F[{}] = 0
    BY <1>8
  <2>2. 1 .. 0 = {}
    OBVIOUS
  <2>3. F[1 .. 0] = 0
    BY <2>1, <2>2
  <2> QED
    BY <2>3
<1>10. ASSUME NEW k \in 0 .. n - 1, k \in S PROVE k + 1 \in S
  <2>1. k \in Nat /\ k + 1 \in Nat /\ k + 1 \in 1 .. n
    BY <1>1
  <2> DEFINE T == 1 .. k + 1
  <2>2. T \in SUBSET (1 .. n)
    BY <1>1, <2>1
  <2>3. T # {} /\ Max(T) = k + 1 /\ T \ {k + 1} = 1 .. k
    BY <2>1, MaxOfFront
  <2> HIDE DEF T
  <2> DEFINE m == k + 1
  <2> HIDE DEF m
  <2>4. F[T] = 256 * F[1 .. k] + s[k + 1]
    <3>1. T # {} /\ Max(T) = m /\ T \ {m} = 1 .. k
      BY <2>3 DEF m
    <3>2. F[T] = 256 * F[T \ {m}] + s[m]
      BY <1>8, <2>2, <3>1
    <3> QED
      BY <3>1, <3>2 DEF m
  <2>5. F[1 .. k] \in Nat /\ s[k + 1] \in Nat
    BY <1>1, <1>10, <2>1
  <2>6. F[T] \in Nat
    BY <2>4, <2>5
  <2> QED
    BY <2>1, <2>6 DEF T
<1> HIDE DEF S, n
<1>11. \A i \in 0 .. n : i \in S
  BY <1>1, <1>9, <1>10, UpTo
<1>12. n \in S
  BY <1>1, <1>11
<1> QED
  BY <1>1, <1>7, <1>12 DEF S

\* The lexemes that a description is written with.
LEMMA Lexemes ==
  /\ \A n : Lexeme(Word(n))
  /\ \A n \in Nat : Lexeme(Num(n)) /\ Piece(Num(n))
  /\ \A s \in Seq(Byte) : Lexeme(<<"addr", s>>) /\ Piece(<<"addr", s>>) /\ Lexeme(<<"text", s>>)
  /\ \A n : Lexeme(<<"sym", n>>) /\ Lexeme(<<"flags", n>>)
  /\ \A n \in Nat, s \in Seq(Byte) : Piece(<<"at", n, s>>)
  /\ \A n, m \in Nat : Piece(<<"pair", n, m>>)
  /\ Lexeme(<<"(">>) /\ Lexeme(<<")">>) /\ Lexeme(<<",">>) /\ Lexeme(<<"=">>) /\ Lexeme(<<"+">>)
BY DEF Lexeme, Piece, Word, Num

\* A list of pieces.
LEMMA ListLexeme ==
  ASSUME NEW n \in Nat, NEW f, f = [k \in 1 .. n |-> f[k]], \A k \in 1 .. n : Piece(f[k])
  PROVE  Lexeme(<<"list", f>>)
<1>1. ToSet(f) = {f[k] : k \in 1 .. n}
  BY DEF ToSet
<1>2. f \in Seq(ToSet(f)) /\ \A y \in ToSet(f) : Piece(y)
  BY <1>1
<1> QED
  BY <1>2 DEF Lexeme, Piece

\* A few lexemes are a text.
LEMMA ShortTexts ==
  /\ IsText(<< >>)
  /\ \A x : Lexeme(x) => IsText(<<x>>)
  /\ \A x, y : Lexeme(x) /\ Lexeme(y) => IsText(<<x, y>>)
  /\ \A x, y, z : Lexeme(x) /\ Lexeme(y) /\ Lexeme(z) => IsText(<<x, y, z>>)
<1>1. IsText(<< >>)
  <2> DEFINE T == {}
  <2>1. << >> \in Seq(T) /\ \A e \in T : Lexeme(e)
    OBVIOUS
  <2> HIDE DEF T
  <2> QED
    BY <2>1, TextOf
<1>2. ASSUME NEW x, Lexeme(x) PROVE IsText(<<x>>)
  <2> DEFINE T == {x}
  <2>1. <<x>> \in Seq(T) /\ \A e \in T : Lexeme(e)
    BY <1>2
  <2> HIDE DEF T
  <2> QED
    BY <2>1, TextOf
<1>3. ASSUME NEW x, NEW y, Lexeme(x), Lexeme(y) PROVE IsText(<<x, y>>)
  <2> DEFINE T == {x, y}
  <2>1. <<x, y>> \in Seq(T) /\ \A e \in T : Lexeme(e)
    BY <1>3
  <2> HIDE DEF T
  <2> QED
    BY <2>1, TextOf
<1>4. ASSUME NEW x, NEW y, NEW z, Lexeme(x), Lexeme(y), Lexeme(z) PROVE IsText(<<x, y, z>>)
  <2> DEFINE T == {x, y, z}
  <2>1. <<x, y, z>> \in Seq(T) /\ \A e \in T : Lexeme(e)
    BY <1>4
  <2> HIDE DEF T
  <2> QED
    BY <2>1, TextOf
<1> QED
  BY <1>1, <1>2, <1>3, <1>4

\* A field.
LEMMA FieldText ==
  ASSUME NEW f, NEW v, Lexeme(v)
  PROVE  IsText(Field(f, v))
BY Lexemes, ShortTexts DEF Field

\* A sequence of fields.
Texts(fs) == Len(fs) \in Nat /\ \A k \in 1 .. Len(fs) : IsText(fs[k])

\* A layer and its fields.
LEMMA DescribedText ==
  ASSUME NEW fs, Texts(fs), NEW name
  PROVE  IsText(Described(name, fs))
<1> DEFINE n == Len(fs)
           joined == [k \in 1 .. n |-> IF k = 1 THEN fs[k] ELSE <<<<",">>>> \o fs[k]]
           head == <<Word(name), <<"(">>>>
           tail == <<<<")">>, <<"+">>>>
           flat == FlattenSeq(joined)
<1>1. n \in Nat /\ \A k \in 1 .. n : IsText(fs[k])
  BY DEF Texts
<1>2. IsText(<<<<",">>>>) /\ IsText(head) /\ IsText(tail)
  BY Lexemes, ShortTexts
<1>3. Described(name, fs) = head \o flat \o tail
  BY DEF Described
<1> HIDE DEF n, head, tail
<1>4. \A k \in 1 .. n : IsText(joined[k])
  <2>1. ASSUME NEW k \in 1 .. n PROVE IsText(joined[k])
    <3> DEFINE comma == <<<<",">>>>
               t == fs[k]
    <3>1. IsText(t) /\ IsText(comma)
      BY <1>1, <1>2
    <3>2. joined[k] = IF k = 1 THEN t ELSE comma \o t
      OBVIOUS
    <3> HIDE DEF comma, t, joined
    <3>3. IsText(comma \o t)
      BY <3>1, TextConcat
    <3> QED
      BY <3>1, <3>2, <3>3
  <2> QED
    BY <2>1
<1>5. joined = [k \in 1 .. n |-> joined[k]]
  OBVIOUS
<1> HIDE DEF joined
<1>6. IsText(flat)
  BY <1>1, <1>4, <1>5, TextFlat
<1> HIDE DEF flat
<1>7. IsText(head \o flat)
  BY <1>2, <1>6, TextConcat
<1>8. IsText((head \o flat) \o tail)
  BY <1>2, <1>7, TextConcat
<1> QED
  BY <1>3, <1>8

\* What can be read of the first n bytes of a layer.
Readable(l, n) == l.data \in Seq(Byte) /\ n \in Nat /\ n <= Len(l.data)

\* A part of a header.
LEMMA ReadBytes ==
  ASSUME NEW l, NEW n, Readable(l, n), NEW off \in Nat, NEW m \in Nat, off + m <= n
  PROVE  At(l, off, m) \in Seq(Byte) /\ Len(At(l, off, m)) = m
<1>1. l.data \in Seq(Byte) /\ off <= off + m /\ off + m <= Len(l.data) /\ off + m \in Nat
  BY LenProperties DEF Readable
<1> DEFINE d == l.data
<1> HIDE DEF d
<1>2. SubSeq(d, off + 1, off + m) \in Seq(Byte) /\ Len(SubSeq(d, off + 1, off + m)) = (off + m) - off
  BY <1>1, PieceType DEF d
<1> QED
  BY <1>2 DEF At, d

\* The fields read at an offset of a header.
LEMMA ReadTexts ==
  ASSUME NEW l, NEW n, Readable(l, n), NEW f, NEW off \in Nat
  PROVE  /\ off + 1 <= n => IsText(Field(f, Byte8(l, off))) /\ l.data[off + 1] \in Byte
         /\ off + 2 <= n => IsText(Field(f, Word16(l, off))) /\ Get16(l.data, off) \in Nat
         /\ off + 3 <= n => IsText(Field(f, Word24(l, off)))
         /\ off + 4 <= n => IsText(Field(f, Word32(l, off)))
         /\ \A m \in Nat : off + m <= n => IsText(Field(f, Address(l, off, m)))
<1> DEFINE d == l.data
<1>1. d \in Seq(Byte) /\ n \in Nat /\ n <= Len(d) /\ Len(d) \in Nat
  BY LenProperties DEF Readable
<1>2. ASSUME off + 1 <= n PROVE IsText(Field(f, Byte8(l, off))) /\ d[off + 1] \in Byte
  <2>1. off + 1 \in 1 .. Len(d)
    <3> HIDE DEF d
    <3> QED
      BY <1>1, <1>2
  <2>2. d[off + 1] \in Byte
    <3> HIDE DEF d
    <3> QED
      BY <1>1, <2>1, ElementOfSeq
  <2>3. d[off + 1] \in Nat
    BY <2>2, ByteRange
  <2>4. Lexeme(Byte8(l, off))
    BY <2>3, Lexemes DEF Byte8
  <2> QED
    BY <2>2, <2>4, FieldText
<1>3. ASSUME off + 2 <= n PROVE IsText(Field(f, Word16(l, off))) /\ Get16(d, off) \in Nat
  <2>1. Get16(d, off) \in Nat
    <3> HIDE DEF d
    <3>1. off + 2 <= Len(d)
      BY <1>1, <1>3
    <3> QED
      BY <1>1, <3>1, WordRange
  <2>2. Lexeme(Word16(l, off))
    BY <2>1, Lexemes DEF Word16
  <2> QED
    BY <2>1, <2>2, FieldText
<1>4. ASSUME NEW m \in Nat, off + m <= n
      PROVE  IsText(Field(f, Address(l, off, m))) /\ Number(At(l, off, m)) \in Nat
  <2>1. At(l, off, m) \in Seq(Byte)
    BY <1>4, ReadBytes
  <2>2. Lexeme(Address(l, off, m))
    BY <2>1, Lexemes DEF Address
  <2> QED
    BY <2>1, <2>2, NumberType, FieldText
<1>5. ASSUME off + 3 <= n PROVE IsText(Field(f, Word24(l, off)))
  <2> DEFINE m == 3
  <2>1. m \in Nat /\ off + m <= n
    BY <1>5
  <2> HIDE DEF m
  <2>2. Number(At(l, off, m)) \in Nat
    BY <1>4, <2>1
  <2>3. Lexeme(Word24(l, off))
    BY <2>2, Lexemes DEF Word24, m
  <2> QED
    BY <2>3, FieldText
<1>6. ASSUME off + 4 <= n PROVE IsText(Field(f, Word32(l, off)))
  <2> DEFINE m == 4
  <2>1. m \in Nat /\ off + m <= n
    BY <1>6
  <2> HIDE DEF m
  <2>2. Number(At(l, off, m)) \in Nat
    BY <1>4, <2>1
  <2>3. Lexeme(Word32(l, off))
    BY <2>2, Lexemes DEF Word32, m
  <2> QED
    BY <2>3, FieldText
<1> QED
  BY <1>2, <1>3, <1>4, <1>5, <1>6

\* A number in a field.
LEMMA NumText ==
  ASSUME NEW f, NEW n \in Nat
  PROVE  IsText(Field(f, Num(n)))
BY Lexemes, FieldText

\* The fields of a layer, short and long.
LEMMA ShortFields ==
  /\ Texts(<< >>)
  /\ \A a : IsText(a) => Texts(<<a>>)
  /\ \A a, y : IsText(a) /\ IsText(y) => Texts(<<a, y>>)
  /\ \A a, y, c : IsText(a) /\ IsText(y) /\ IsText(c) => Texts(<<a, y, c>>)
  /\ \A a, y, c, d : IsText(a) /\ IsText(y) /\ IsText(c) /\ IsText(d) => Texts(<<a, y, c, d>>)
BY DEF Texts

\* The fields of the longer headers.
LEMMA LongFields ==
  /\ \A a, y, c, d, e, g, h :
       IsText(a) /\ IsText(y) /\ IsText(c) /\ IsText(d) /\ IsText(e) /\ IsText(g) /\ IsText(h) =>
         /\ Texts(<<a, y, c, d, e, g, h>>)
         /\ \A i : IsText(i) => Texts(<<a, y, c, d, e, g, h, i>>)
         /\ \A i, k, l : IsText(i) /\ IsText(k) /\ IsText(l) => Texts(<<a, y, c, d, e, g, h, i, k, l>>)
  /\ \A a, y, c, d, e, g, h, i, k, l, m, n, o, p :
       /\ IsText(a) /\ IsText(y) /\ IsText(c) /\ IsText(d) /\ IsText(e) /\ IsText(g) /\ IsText(h)
       /\ IsText(i) /\ IsText(k) /\ IsText(l) /\ IsText(m) /\ IsText(n) /\ IsText(o) /\ IsText(p)
       => Texts(<<a, y, c, d, e, g, h, i, k, l, m, n, o, p>>)
BY DEF Texts

\* What a whole header gives the describer: its fields at literal offsets.
LEMMA ReadHeader ==
  ASSUME NEW l, NEW n, Readable(l, n), n <= 40
  PROVE  /\ \A f, off : off \in 0 .. n - 1 => IsText(Field(f, Byte8(l, off)))
         /\ \A f, off : off \in 0 .. n - 2 => IsText(Field(f, Word16(l, off)))
         /\ \A f, off : off \in 0 .. n - 3 => IsText(Field(f, Word24(l, off)))
         /\ \A f, off : off \in 0 .. n - 4 => IsText(Field(f, Word32(l, off)))
         /\ \A f, off, m : off \in 0 .. n /\ m \in 0 .. n - off => IsText(Field(f, Address(l, off, m)))
         /\ \A off \in 0 .. n - 2 : Get16(l.data, off) \in Nat
         /\ \A k \in 1 .. n : /\ l.data[k] \in Byte /\ l.data[k] \in Nat
                              /\ High(l.data[k]) \in Nat /\ Low(l.data[k]) \in Nat
<1> USE DEF Readable
<1>1. ASSUME NEW f, NEW off \in 0 .. n - 1 PROVE IsText(Field(f, Byte8(l, off)))
  <2>1. off \in Nat /\ off + 1 <= n
    OBVIOUS
  <2> QED
    BY <2>1, ReadTexts
<1>2. ASSUME NEW f, NEW off \in 0 .. n - 2
      PROVE  IsText(Field(f, Word16(l, off))) /\ Get16(l.data, off) \in Nat
  <2>1. off \in Nat /\ off + 2 <= n
    OBVIOUS
  <2> QED
    BY <2>1, ReadTexts
<1>3. ASSUME NEW f, NEW off \in 0 .. n - 3 PROVE IsText(Field(f, Word24(l, off)))
  <2>1. off \in Nat /\ off + 3 <= n
    OBVIOUS
  <2> QED
    BY <2>1, ReadTexts
<1>4. ASSUME NEW f, NEW off \in 0 .. n - 4 PROVE IsText(Field(f, Word32(l, off)))
  <2>1. off \in Nat /\ off + 4 <= n
    OBVIOUS
  <2> QED
    BY <2>1, ReadTexts
<1>5. ASSUME NEW f, NEW off \in 0 .. n, NEW m \in 0 .. n - off PROVE IsText(Field(f, Address(l, off, m)))
  <2>1. off \in Nat /\ m \in Nat /\ off + m <= n
    OBVIOUS
  <2> QED
    BY <2>1, ReadTexts
<1>6. ASSUME NEW k \in 1 .. n
      PROVE  /\ l.data[k] \in Byte /\ l.data[k] \in Nat
             /\ High(l.data[k]) \in Nat /\ Low(l.data[k]) \in Nat
  <2> DEFINE off == k - 1
             x == l.data[k]
  <2>1. off \in Nat /\ off + 1 <= n /\ off + 1 = k
    OBVIOUS
  <2> HIDE DEF off
  <2>2. \A f : off + 1 <= n => l.data[off + 1] \in Byte
    BY <2>1, ReadTexts
  <2>3. x \in Byte
    BY <2>1, <2>2
  <2> HIDE DEF x
  <2>4. High(x) \in 0 .. 15 /\ Low(x) \in 0 .. 15 /\ x \in Nat
    BY <2>3, Nibbles, ByteRange
  <2>5. \A y \in 0 .. 15 : y \in Nat
    OBVIOUS
  <2> QED
    BY <2>3, <2>4, <2>5 DEF x
<1> QED
  BY <1>1, <1>2, <1>3, <1>4, <1>5, <1>6

\* The header of a layer of a stack.
LEMMA StackReadable ==
  ASSUME NEW l \in Layer
  PROVE  \A n \in Nat : n <= Len(l.data) => Readable(l, n)
BY DEF Layer, Readable

\* The IP header in words (ars_rapd_ip(), rapd.c).
LEMMA RapdIp ==
  ASSUME NEW l, Readable(l, 20)
  PROVE  IsText(ars_rapd_ip(l))
<1> DEFINE n == 20
           frag == Get16(l.data, 6)
           a == Field("ihl", Num(Low(l.data[1])))
           y == Field("ver", Num(High(l.data[1])))
           c == Field("tos", Byte8(l, 1))
           d == Field("totlen", Word16(l, 2))
           e == Field("id", Word16(l, 4))
           g == Field("fragoff", Num(FragOffset(frag)))
           h == Field("mf", Num(Bit(frag, 8192)))
           i == Field("df", Num(Bit(frag, 16384)))
           k == Field("rf", Num(Bit(frag, 32768)))
           m == Field("ttl", Byte8(l, 8))
           o == Field("proto", Byte8(l, 9))
           p == Field("cksum", Word16(l, 10))
           q == Field("saddr", Address(l, 12, 4))
           r == Field("daddr", Address(l, 16, 4))
           fs == <<a, y, c, d, e, g, h, i, k, m, o, p, q, r>>
<1>1. Readable(l, n) /\ n <= 40
  OBVIOUS
<1>2. ars_rapd_ip(l) = Described("ip", fs)
  BY DEF ars_rapd_ip
<1>3. IsText(c) /\ IsText(m) /\ IsText(o)
  <2>1. \A f, off : off \in 0 .. n - 1 => IsText(Field(f, Byte8(l, off)))
    BY <1>1, ReadHeader
  <2> QED
    BY <2>1
<1>4. IsText(d) /\ IsText(e) /\ IsText(p)
  <2>1. \A f, off : off \in 0 .. n - 2 => IsText(Field(f, Word16(l, off)))
    BY <1>1, ReadHeader
  <2> QED
    BY <2>1
<1>5. IsText(q) /\ IsText(r)
  <2>1. \A f, off, w : off \in 0 .. n /\ w \in 0 .. n - off => IsText(Field(f, Address(l, off, w)))
    BY <1>1, ReadHeader
  <2> QED
    BY <2>1
<1>6. IsText(a) /\ IsText(y)
  <2>1. \A x \in 1 .. n : High(l.data[x]) \in Nat /\ Low(l.data[x]) \in Nat
    BY <1>1, ReadHeader
  <2>2. High(l.data[1]) \in Nat /\ Low(l.data[1]) \in Nat
    BY <2>1
  <2> QED
    BY <2>2, NumText
<1>7. IsText(g) /\ IsText(h) /\ IsText(i) /\ IsText(k)
  <2>1. frag \in Nat
    <3>1. \A off \in 0 .. n - 2 : Get16(l.data, off) \in Nat
      BY <1>1, ReadHeader
    <3> QED
      BY <3>1
  <2> HIDE DEF frag
  <2>2. FragOffset(frag) \in Nat
    BY <2>1 DEF FragOffset
  <2>3. Bit(frag, 8192) \in Nat /\ Bit(frag, 16384) \in Nat /\ Bit(frag, 32768) \in Nat
    BY <2>1 DEF Bit
  <2> QED
    BY <2>2, <2>3, NumText
<1> HIDE DEF a, y, c, d, e, g, h, i, k, m, o, p, q, r
<1>8. Texts(fs)
  BY <1>3, <1>4, <1>5, <1>6, <1>7, LongFields
<1> HIDE DEF fs
<1> QED
  BY <1>2, <1>8, DescribedText

\* The IPv6 header in words (ars_rapd_ip6(), rapd.c).
LEMMA RapdIp6 ==
  ASSUME NEW l, Readable(l, 40)
  PROVE  IsText(ars_rapd_ip6(l))
<1> DEFINE n == 40
           x1 == l.data[1]
           x2 == l.data[2]
           w == Get16(l.data, 2)
           tc == 16 * Low(x1) + High(x2)
           flow == 65536 * Low(x2) + w
           a == Field("ver", Num(High(x1)))
           y == Field("tclass", Num(tc))
           c == Field("flow", Num(flow))
           d == Field("plen", Word16(l, 4))
           e == Field("nh", Byte8(l, 6))
           g == Field("hlim", Byte8(l, 7))
           h == Field("saddr", Address(l, 8, 16))
           i == Field("daddr", Address(l, 24, 16))
           fs == <<a, y, c, d, e, g, h, i>>
<1>1. Readable(l, n) /\ n <= 40
  OBVIOUS
<1>2. ars_rapd_ip6(l) = Described("ip6", fs)
  BY DEF ars_rapd_ip6
<1>3. IsText(e) /\ IsText(g) /\ IsText(d)
  <2>1. /\ \A f, off : off \in 0 .. n - 1 => IsText(Field(f, Byte8(l, off)))
        /\ \A f, off : off \in 0 .. n - 2 => IsText(Field(f, Word16(l, off)))
    BY <1>1, ReadHeader
  <2> QED
    BY <2>1
<1>4. IsText(h) /\ IsText(i)
  <2>1. \A f, off, m : off \in 0 .. n /\ m \in 0 .. n - off => IsText(Field(f, Address(l, off, m)))
    BY <1>1, ReadHeader
  <2> QED
    BY <2>1
<1>5. IsText(a) /\ IsText(y) /\ IsText(c)
  <2>1. /\ \A k \in 1 .. n : High(l.data[k]) \in Nat /\ Low(l.data[k]) \in Nat
        /\ \A off \in 0 .. n - 2 : Get16(l.data, off) \in Nat
    BY <1>1, ReadHeader
  <2>2. High(x1) \in Nat /\ Low(x1) \in Nat /\ High(x2) \in Nat /\ Low(x2) \in Nat /\ w \in Nat
    BY <2>1
  <2> HIDE DEF x1, x2, w
  <2>3. tc \in Nat /\ flow \in Nat
    BY <2>2
  <2> HIDE DEF tc, flow
  <2> QED
    BY <2>2, <2>3, NumText
<1> HIDE DEF a, y, c, d, e, g, h, i
<1>6. Texts(fs)
  BY <1>3, <1>4, <1>5, LongFields
<1> HIDE DEF fs
<1> QED
  BY <1>2, <1>6, DescribedText

\* The TCP header in words (ars_rapd_tcp(), rapd.c).
LEMMA RapdTcp ==
  ASSUME NEW l, Readable(l, 20)
  PROVE  IsText(ars_rapd_tcp(l))
<1> DEFINE n == 20
           a == Field("sport", Word16(l, 0))
           y == Field("dport", Word16(l, 2))
           c == Field("seq", Word32(l, 4))
           d == Field("ack", Word32(l, 8))
           e == Field("x2", Num(Low(l.data[13])))
           g == Field("off", Num(High(l.data[13])))
           h == Field("flags", <<"flags", {x \in 0 .. 7 : Bit(l.data[14], 2 ^ x) = 1}>>)
           i == Field("win", Word16(l, 14))
           k == Field("cksum", Word16(l, 16))
           m == Field("urp", Word16(l, 18))
           fs == <<a, y, c, d, e, g, h, i, k, m>>
<1>1. Readable(l, n) /\ n <= 40
  OBVIOUS
<1>2. ars_rapd_tcp(l) = Described("tcp", fs)
  BY DEF ars_rapd_tcp
<1>3. IsText(a) /\ IsText(y) /\ IsText(i) /\ IsText(k) /\ IsText(m)
  <2>1. \A f, off : off \in 0 .. n - 2 => IsText(Field(f, Word16(l, off)))
    BY <1>1, ReadHeader
  <2> QED
    BY <2>1
<1>4. IsText(c) /\ IsText(d)
  <2>1. \A f, off : off \in 0 .. n - 4 => IsText(Field(f, Word32(l, off)))
    BY <1>1, ReadHeader
  <2> QED
    BY <2>1
<1>5. IsText(e) /\ IsText(g)
  <2>1. \A x \in 1 .. n : High(l.data[x]) \in Nat /\ Low(l.data[x]) \in Nat
    BY <1>1, ReadHeader
  <2>2. High(l.data[13]) \in Nat /\ Low(l.data[13]) \in Nat
    BY <2>1
  <2> QED
    BY <2>2, NumText
<1>6. IsText(h)
  BY Lexemes, FieldText
<1> HIDE DEF a, y, c, d, e, g, h, i, k, m
<1>7. Texts(fs)
  BY <1>3, <1>4, <1>5, <1>6, LongFields
<1> HIDE DEF fs
<1> QED
  BY <1>2, <1>7, DescribedText

\* The UDP header in words (ars_rapd_udp(), rapd.c).
LEMMA RapdUdp ==
  ASSUME NEW l, Readable(l, 8)
  PROVE  IsText(ars_rapd_udp(l))
<1> DEFINE n == 8
           a == Field("sport", Word16(l, 0))
           y == Field("dport", Word16(l, 2))
           c == Field("len", Word16(l, 4))
           d == Field("cksum", Word16(l, 6))
           fs == <<a, y, c, d>>
<1>1. ars_rapd_udp(l) = Described("udp", fs)
  BY DEF ars_rapd_udp
<1>2. IsText(a) /\ IsText(y) /\ IsText(c) /\ IsText(d)
  <2>1. Readable(l, n) /\ n <= 40
    OBVIOUS
  <2>2. \A f, off : off \in 0 .. n - 2 => IsText(Field(f, Word16(l, off)))
    BY <2>1, ReadHeader
  <2> QED
    BY <2>2
<1> HIDE DEF a, y, c, d
<1>3. Texts(fs)
  BY <1>2, ShortFields
<1> HIDE DEF fs
<1> QED
  BY <1>1, <1>3, DescribedText

\* The IGRP header in words (ars_rapd_igrp(), rapd.c).
LEMMA RapdIgrp ==
  ASSUME NEW l, Readable(l, 12)
  PROVE  IsText(ars_rapd_igrp(l))
<1> DEFINE n == 12
           opcode == Low(l.data[1])
           v == CASE opcode = 1 -> <<"sym", "update">> [] opcode = 2 -> <<"sym", "request">>
                  [] OTHER -> Num(opcode)
           a == Field("version", Num(High(l.data[1])))
           y == Field("opcode", v)
           c == Field("edition", Byte8(l, 1))
           d == Field("autosys", Word16(l, 2))
           e == Field("interior", Word16(l, 4))
           g == Field("system", Word16(l, 6))
           h == Field("exterior", Word16(l, 8))
           i == Field("cksum", Word16(l, 10))
           fs == <<a, y, c, d, e, g, h, i>>
<1>1. Readable(l, n) /\ n <= 40
  OBVIOUS
<1>2. ars_rapd_igrp(l) = Described("igrp", fs)
  BY DEF ars_rapd_igrp
<1>3. IsText(d) /\ IsText(e) /\ IsText(g) /\ IsText(h) /\ IsText(i)
  <2>1. \A f, off : off \in 0 .. n - 2 => IsText(Field(f, Word16(l, off)))
    BY <1>1, ReadHeader
  <2> QED
    BY <2>1
<1>4. IsText(c)
  <2>1. \A f, off : off \in 0 .. n - 1 => IsText(Field(f, Byte8(l, off)))
    BY <1>1, ReadHeader
  <2> QED
    BY <2>1
<1>5. IsText(a) /\ IsText(y)
  <2>1. \A x \in 1 .. n : High(l.data[x]) \in Nat /\ Low(l.data[x]) \in Nat
    BY <1>1, ReadHeader
  <2>2. High(l.data[1]) \in Nat /\ opcode \in Nat
    BY <2>1
  <2> HIDE DEF opcode
  <2>3. Lexeme(v)
    BY <2>2, Lexemes
  <2> HIDE DEF v
  <2> QED
    BY <2>2, <2>3, NumText, FieldText
<1> HIDE DEF a, y, c, d, e, g, h, i
<1>6. Texts(fs)
  BY <1>3, <1>4, <1>5, LongFields
<1> HIDE DEF fs
<1> QED
  BY <1>2, <1>6, DescribedText

\* An IGRP entry in words (ars_rapd_igrpentry(), rapd.c).
LEMMA RapdIgrpentry ==
  ASSUME NEW l, Readable(l, 14)
  PROVE  IsText(ars_rapd_igrpentry(l))
<1> DEFINE n == 14
           a == Field("dest", Address(l, 0, 3))
           y == Field("delay", Word24(l, 3))
           c == Field("bandwidth", Word24(l, 6))
           d == Field("mtu", Word16(l, 9))
           e == Field("reliability", Byte8(l, 11))
           g == Field("load", Byte8(l, 12))
           h == Field("hopcount", Byte8(l, 13))
           fs == <<a, y, c, d, e, g, h>>
<1>1. Readable(l, n) /\ n <= 40
  OBVIOUS
<1>2. ars_rapd_igrpentry(l) = Described("igrp.entry", fs)
  BY DEF ars_rapd_igrpentry
<1>3. IsText(d) /\ IsText(e) /\ IsText(g) /\ IsText(h)
  <2>1. /\ \A f, off : off \in 0 .. n - 1 => IsText(Field(f, Byte8(l, off)))
        /\ \A f, off : off \in 0 .. n - 2 => IsText(Field(f, Word16(l, off)))
    BY <1>1, ReadHeader
  <2> QED
    BY <2>1
<1>4. IsText(a) /\ IsText(y) /\ IsText(c)
  <2>1. /\ \A f, off, m : off \in 0 .. n /\ m \in 0 .. n - off => IsText(Field(f, Address(l, off, m)))
        /\ \A f, off : off \in 0 .. n - 3 => IsText(Field(f, Word24(l, off)))
    BY <1>1, ReadHeader
  <2> QED
    BY <2>1
<1> HIDE DEF a, y, c, d, e, g, h
<1>5. Texts(fs)
  BY <1>3, <1>4, LongFields
<1> HIDE DEF fs
<1> QED
  BY <1>2, <1>5, DescribedText

\* ICMP and ICMPv6 in words (ars_rapd_icmp(), ars_rapd_icmp6(), rapd.c).
LEMMA RapdIcmps ==
  ASSUME NEW l, Readable(l, 8)
  PROVE  IsText(ars_rapd_icmp(l)) /\ IsText(ars_rapd_icmp6(l))
<1> DEFINE n == 8
           x == l.data[1]
           a == Field("type", Byte8(l, 0))
           y == Field("code", Byte8(l, 1))
           c == Field("cksum", Word16(l, 2))
           d == Field("id", Word16(l, 4))
           e == Field("seq", Word16(l, 6))
           g == Field("unused", Word32(l, 4))
           h == Field("gw", Address(l, 4, 4))
           fs == <<a, y>> \o CASE x \in {3, 4, 11, 12} -> <<g>>
                               [] x \in {0, 8, 13, 14, 15, 16} -> <<d, e>>
                               [] x = 5 -> <<h>>
                               [] OTHER -> << >>
           fs6 == <<a, y, c>> \o IF x \in {128, 129} THEN <<d, e>> ELSE <<g>>
<1>1. Readable(l, n) /\ n <= 40
  OBVIOUS
<1>2. ars_rapd_icmp(l) = Described("icmp", fs) /\ ars_rapd_icmp6(l) = Described("icmp6", fs6)
  BY DEF ars_rapd_icmp, ars_rapd_icmp6
<1>3. IsText(a) /\ IsText(y)
  <2>1. \A f, off : off \in 0 .. n - 1 => IsText(Field(f, Byte8(l, off)))
    BY <1>1, ReadHeader
  <2> QED
    BY <2>1
<1>4. IsText(c) /\ IsText(d) /\ IsText(e)
  <2>1. \A f, off : off \in 0 .. n - 2 => IsText(Field(f, Word16(l, off)))
    BY <1>1, ReadHeader
  <2> QED
    BY <2>1
<1>5. IsText(g) /\ IsText(h)
  <2>1. /\ \A f, off, m : off \in 0 .. n /\ m \in 0 .. n - off => IsText(Field(f, Address(l, off, m)))
        /\ \A f, off : off \in 0 .. n - 4 => IsText(Field(f, Word32(l, off)))
    BY <1>1, ReadHeader
  <2> QED
    BY <2>1
<1> HIDE DEF a, y, c, d, e, g, h, x
<1>6. Texts(fs)
  <2>1. Texts(<<a, y>> \o <<g>>) /\ Texts(<<a, y>> \o <<d, e>>) /\ Texts(<<a, y>> \o <<h>>)
        /\ Texts(<<a, y>> \o << >>)
    BY <1>3, <1>4, <1>5 DEF Texts
  <2> QED
    BY <2>1
<1>7. Texts(fs6)
  <2>1. Texts(<<a, y, c>> \o <<d, e>>) /\ Texts(<<a, y, c>> \o <<g>>)
    BY <1>3, <1>4, <1>5 DEF Texts
  <2> QED
    BY <2>1
<1> HIDE DEF fs, fs6
<1> QED
  BY <1>2, <1>6, <1>7, DescribedText

\* Digits and characters are bytes.
LEMMA CharsOf ==
  ASSUME NEW s \in Seq(Byte)
  PROVE  /\ Lexeme(HexText(s))
         /\ \A n \in Nat : n <= Len(s) => FlattenSeq([k \in 1 .. n |-> Escaped(s[k])]) \in Seq(Byte)
<1>1. \A x \in 0 .. 15 : HexDigit(x) \in Byte
  BY DEF HexDigit, Byte
<1>2. \A x \in Byte : HexDigit(High(x)) \in Byte /\ HexDigit(Low(x)) \in Byte
  BY <1>1, Nibbles
<1>3. Len(s) \in Nat /\ \A k \in 1 .. Len(s) : s[k] \in Byte
  BY LenProperties, ElementOfSeq
<1>4. \A x \in Byte : <<HexDigit(High(x)), HexDigit(Low(x))>> \in Seq(Byte)
  BY <1>2
<1>5. Lexeme(HexText(s))
  <2> DEFINE n == Len(s)
             f == [k \in 1 .. n |-> <<HexDigit(High(s[k])), HexDigit(Low(s[k]))>>]
  <2>1. n \in Nat /\ f \in [1 .. n -> Seq(Byte)]
    BY <1>3, <1>4
  <2>2. HexText(s) = <<"text", FlattenSeq(f)>>
    BY DEF HexText
  <2> HIDE DEF n, f
  <2>3. FlattenSeq(f) \in Seq(Byte)
    BY <2>1, FlatPieces
  <2> QED
    BY <2>2, <2>3, Lexemes
<1>6. \A x \in Byte : Escaped(x) \in Seq(Byte)
  <2>1. 92 \in Byte /\ \A x \in Byte : <<x>> \in Seq(Byte)
    BY DEF Byte
  <2>2. \A x, y \in Byte : <<92, x, y>> \in Seq(Byte)
    BY <2>1
  <2> QED
    BY <1>2, <2>1, <2>2 DEF Escaped
<1>7. ASSUME NEW n \in Nat, n <= Len(s)
      PROVE  FlattenSeq([k \in 1 .. n |-> Escaped(s[k])]) \in Seq(Byte)
  <2> DEFINE f == [k \in 1 .. n |-> Escaped(s[k])]
  <2>1. \A k \in 1 .. n : s[k] \in Byte
    BY <1>3, <1>7
  <2>2. f \in [1 .. n -> Seq(Byte)]
    BY <1>6, <2>1
  <2> HIDE DEF f
  <2>3. FlattenSeq(f) \in Seq(Byte)
    BY <2>2, FlatPieces
  <2> QED
    BY <2>3 DEF f
<1> QED
  BY <1>5, <1>7

\* Data in words (ars_rapd_data(), rapd.c).
LEMMA RapdData ==
  ASSUME NEW l \in Layer, NEW hexdata
  PROVE  IsText(ars_rapd_data(l, hexdata))
<1> DEFINE s == FlattenSeq([k \in 1 .. l.size |-> Escaped(l.data[k])])
           a == Field("hex", HexText(Bytes(l)))
           c == Field("str", <<"text", s>>)
           f == IF hexdata THEN a ELSE c
<1>1. ars_rapd_data(l, hexdata) = Described("data", <<f>>)
  BY DEF ars_rapd_data
<1>2. IsText(a)
  BY BytesType, CharsOf, FieldText
<1>3. IsText(c)
  <2>1. l.data \in Seq(Byte) /\ l.size \in Nat /\ l.size <= Len(l.data)
    BY DEF Layer
  <2>2. s \in Seq(Byte)
    BY <2>1, CharsOf
  <2> HIDE DEF s
  <2> QED
    BY <2>2, Lexemes, FieldText
<1> HIDE DEF a, c
<1>4. Texts(<<f>>)
  BY <1>2, <1>3, ShortFields
<1> QED
  BY <1>1, <1>4, DescribedText

\* A set that has with every number all the smaller ones.
LEMMA InitialSet ==
  ASSUME NEW S \in SUBSET (0 .. 9), \A x \in S : \A y \in 0 .. x : y \in S
  PROVE  Cardinality(S) \in Nat /\ \A k \in 1 .. Cardinality(S) : k - 1 \in S
<1>1. IsFiniteSet(S) /\ Cardinality(S) \in Nat
  <2>1. IsFiniteSet(0 .. 9)
    <3> DEFINE a == 0
               z == 9
    <3>1. a \in Int /\ z \in Int
      OBVIOUS
    <3> HIDE DEF a, z
    <3>2. IsFiniteSet(a .. z)
      BY <3>1, FS_Interval
    <3> QED
      BY <3>2 DEF a, z
  <2>2. IsFiniteSet(S)
    BY <2>1, FS_Subset
  <2> QED
    BY <2>2, FS_CardinalityType
<1>2. SUFFICES ASSUME NEW k \in 1 .. Cardinality(S), k - 1 \notin S PROVE FALSE
  BY <1>1
<1>3. k \in Nat /\ k >= 1 /\ k <= Cardinality(S)
  BY <1>1
<1>4. S \subseteq 0 .. k - 2
  <2>1. ASSUME NEW x \in S, x >= k - 1 PROVE FALSE
    <3>1. k - 1 \in 0 .. x
      BY <1>3, <2>1
    <3> QED
      BY <1>2, <3>1
  <2> QED
    BY <1>3, <2>1
<1>5. IsFiniteSet(0 .. k - 2) /\ Cardinality(0 .. k - 2) = k - 1
  BY <1>3, FS_Interval, SMTT(30)
<1>6. Cardinality(S) <= Cardinality(0 .. k - 2)
  BY <1>4, <1>5, FS_Subset
<1> QED
  BY <1>1, <1>3, <1>5, <1>6

\* The entries of an option lie in its bytes (rapd.c).
LEMMA EntriesType ==
  ASSUME NEW o, o.data \in Seq(Byte), NEW optlen \in Nat, optlen <= Len(o.data),
         NEW off \in Nat, NEW n \in {4, 8}
  PROVE  LET e == Entries(o, off, n, optlen)
         IN  /\ Len(e) \in Nat /\ e = [k \in 1 .. Len(e) |-> e[k]]
             /\ \A k \in 1 .. Len(e) : e[k] \in Seq(Byte) /\ Len(e[k]) = n
<1> DEFINE inside == {k \in 0 .. 9 : off + n * k < 37 /\ off + n * (k + 1) <= optlen}
           m == Cardinality(inside)
           e == Entries(o, off, n, optlen)
<1>1. \A x \in inside : \A y \in 0 .. x : y \in inside
  OBVIOUS
<1>2. e = [k \in 1 .. m |-> At(o, off + n * (k - 1), n)]
  BY DEF Entries
<1>3. m \in Nat /\ \A k \in 1 .. m : k - 1 \in inside
  <2> DEFINE S == inside
  <2>1. S \in SUBSET (0 .. 9) /\ \A x \in S : \A y \in 0 .. x : y \in S
    BY <1>1
  <2> HIDE DEF S
  <2>2. Cardinality(S) \in Nat /\ \A k \in 1 .. Cardinality(S) : k - 1 \in S
    BY <2>1, InitialSet
  <2> QED
    BY <2>2 DEF S
<1>4. ASSUME NEW k \in 1 .. m
      PROVE  At(o, off + n * (k - 1), n) \in Seq(Byte) /\ Len(At(o, off + n * (k - 1), n)) = n
  <2>1. k - 1 \in inside
    BY <1>3
  <2> DEFINE a == off + n * (k - 1)
             z == Len(o.data)
  <2>2. a \in Nat /\ n \in Nat /\ a + n <= optlen
    BY <2>1
  <2> HIDE DEF a
  <2>3. z \in Nat /\ a + n <= z
    BY <2>2, LenProperties
  <2>4. Readable(o, z)
    BY <2>3 DEF Readable
  <2> HIDE DEF z
  <2>5. At(o, a, n) \in Seq(Byte) /\ Len(At(o, a, n)) = n
    BY <2>2, <2>3, <2>4, ReadBytes
  <2> QED
    BY <2>5 DEF a
<1> HIDE DEF m, e
<1>5. Len(e) = m /\ \A k \in 1 .. m : e[k] = At(o, off + n * (k - 1), n)
  BY <1>2, <1>3
<1> QED
  BY <1>2, <1>3, <1>4, <1>5 DEF e

\* An option and the zeros behind it (rapd.c).
LEMMA PaddedType ==
  ASSUME NEW l \in Layer
  PROVE  /\ Readable(Padded(l), 40)
         /\ OptLen(l) \in Nat /\ OptLen(l) <= Len(Padded(l).data)
<1> DEFINE n == Len(l.data)
           m == Max({40, n})
           d == Put(Zero(m), 0, Bytes(l))
<1>1. l.data \in Seq(Byte) /\ n \in Nat /\ l.size \in Nat /\ l.size <= n /\ Bytes(l) \in Seq(Byte)
  BY BytesType, LenProperties DEF Layer
<1>2. m \in Nat /\ m >= 40 /\ m >= n
  <2> HIDE DEF n
  <2>1. n \in Int /\ 40 \in Int
    BY <1>1
  <2>2. m = IF 40 >= n THEN 40 ELSE n
    BY <2>1, MaxOfTwo
  <2> HIDE DEF m
  <2> QED
    BY <1>1, <2>2
<1> HIDE DEF m
<1>3. d \in Seq(Byte) /\ Len(d) = m
  <2> DEFINE z == Zero(m)
             off == 0
             e == Bytes(l)
  <2>1. z \in Seq(Byte) /\ Len(z) = m /\ off \in Int /\ e \in Seq(Byte)
    BY <1>1, <1>2, ZeroType
  <2> HIDE DEF z, off, e
  <2>2. Put(z, off, e) \in Seq(Byte) /\ Len(Put(z, off, e)) = Len(z)
    BY <2>1, PutType
  <2> QED
    BY <2>1, <2>2 DEF z, off, e
<1>4. Padded(l) = [l EXCEPT !.data = d]
  BY DEF Padded, m
<1> HIDE DEF d
<1>5. Padded(l).data = d
  BY <1>4 DEF Layer
<1>6. OptLen(l) \in Nat /\ OptLen(l) <= l.size
  <2>1. CASE l.size >= 2
    <3> DEFINE x == l.data[2]
               y == l.size
    <3>1. x \in Byte
      <4>1. 2 \in 1 .. n
        <5> HIDE DEF n
        <5> QED
          BY <1>1, <2>1
      <4> QED
        BY <1>1, <4>1, ElementOfSeq
    <3>2. OptLen(l) = Min({x, y})
      BY <2>1 DEF OptLen
    <3>3. y \in Nat
      BY <1>1
    <3> HIDE DEF x, y
    <3>4. x \in Nat /\ x \in Int /\ y \in Int
      BY <3>1, <3>3, ByteRange
    <3>5. Min({x, y}) = IF x <= y THEN x ELSE y
      BY <3>4, MinOfTwo
    <3>6. OptLen(l) \in Nat /\ OptLen(l) <= y
      BY <3>2, <3>3, <3>4, <3>5
    <3> QED
      BY <3>6 DEF y
  <2>2. CASE ~ l.size >= 2
    BY <1>1, <2>2 DEF OptLen
  <2> QED
    BY <2>1, <2>2
<1>7. OptLen(l) <= m
  <2> DEFINE x == OptLen(l)
             y == l.size
  <2> HIDE DEF x, y, n
  <2>1. x \in Nat /\ x <= y /\ y \in Nat /\ y <= n /\ n \in Nat
    BY <1>1, <1>6 DEF x, y
  <2>2. x <= m
    BY <1>2, <2>1
  <2> QED
    BY <2>2 DEF x
<1> QED
  BY <1>2, <1>3, <1>5, <1>6, <1>7 DEF Readable

\* The options of IP in words (ars_rapd_ipopt(), rapd.c).
LEMMA RapdIpopt ==
  ASSUME NEW l \in Layer
  PROVE  IsText(ars_rapd_ipopt(l))
<1> DEFINE n == 40
           o == Padded(l)
           kind == o.data[1]
           name == CHOOSE x \in DOMAIN IPOPT : IPOPT[x] = kind
           flags == Low(o.data[4])
           long == flags \in {1, 3}
           addrs == Entries(o, 3, 4, OptLen(l))
           stamps == Entries(o, 4, IF long THEN 8 ELSE 4, OptLen(l))
           tsflags == CASE flags = 0 -> <<"sym", "tsonly">> [] flags = 1 -> <<"sym", "tsandaddr">>
                        [] flags = 3 -> <<"sym", "prespec">> [] OTHER -> Num(flags)
           al == [k \in 1 .. Len(addrs) |-> <<"addr", addrs[k]>>]
           sl == [k \in 1 .. Len(stamps) |->
                    IF long THEN <<"at", Number(SubSeq(stamps[k], 5, 8)), SubSeq(stamps[k], 1, 4)>>
                    ELSE <<"num", Number(stamps[k])>>]
           key == CHOOSE x \in DOMAIN IpoptKeywords : IpoptKeywords[x] = name
           ptr == Field("ptr", Byte8(o, 2))
           data1 == Field("data", <<"list", al>>)
           data2 == Field("data", <<"list", sl>>)
           f == Field("flags", tsflags)
           over == Field("overflow", Num(High(o.data[4])))
           hex == Field("hex", HexText(Bytes(l)))
<1>1. ars_rapd_ipopt(l) =
        CASE kind = IPOPT.eol -> Described("ip.eol", << >>)
          [] kind = IPOPT.nop -> Described("ip.nop", << >>)
          [] kind \in {IPOPT.rr, IPOPT.lsrr, IPOPT.ssrr} -> Described(key, <<ptr, data1>>)
          [] kind = IPOPT.ts -> Described("ip.ts", <<ptr, f, over, data2>>)
          [] OTHER -> Described("ip.unknown", <<hex>>)
  BY DEF ars_rapd_ipopt
<1>2. Readable(o, n) /\ n <= 40 /\ OptLen(l) \in Nat /\ OptLen(l) <= Len(o.data) /\ o.data \in Seq(Byte)
  BY PaddedType DEF Readable
<1> HIDE DEF o
<1>3. IsText(ptr) /\ IsText(over) /\ flags \in Nat
  <2>1. /\ \A g, off : off \in 0 .. n - 1 => IsText(Field(g, Byte8(o, off)))
        /\ \A k \in 1 .. n : High(o.data[k]) \in Nat /\ Low(o.data[k]) \in Nat
    BY <1>2, ReadHeader
  <2>2. High(o.data[4]) \in Nat /\ Low(o.data[4]) \in Nat /\ IsText(ptr)
    BY <2>1
  <2> QED
    BY <2>2, NumText
<1> HIDE DEF flags
<1>4. IsText(f)
  <2>1. Lexeme(tsflags)
    BY <1>3, Lexemes
  <2> HIDE DEF tsflags
  <2> QED
    BY <2>1, FieldText
<1>5. IsText(hex)
  BY BytesType, CharsOf, FieldText
<1>6. IsText(data1)
  <2> DEFINE m == Len(addrs)
             w == 4
             off == 3
  <2>1. w \in {4, 8} /\ off \in Nat
    OBVIOUS
  <2>2. addrs = Entries(o, off, w, OptLen(l))
    OBVIOUS
  <2> HIDE DEF w, off, addrs
  <2>3. m \in Nat /\ \A k \in 1 .. m : addrs[k] \in Seq(Byte)
    BY <1>2, <2>1, <2>2, EntriesType
  <2>4. al = [k \in 1 .. m |-> al[k]] /\ \A k \in 1 .. m : Piece(al[k])
    BY <2>3, Lexemes
  <2> HIDE DEF m, al
  <2> QED
    BY <2>3, <2>4, ListLexeme, FieldText
<1>7. IsText(data2)
  <2> DEFINE m == Len(stamps)
             w == IF long THEN 8 ELSE 4
             off == 4
  <2>1. w \in {4, 8} /\ off \in Nat
    OBVIOUS
  <2>2. stamps = Entries(o, off, w, OptLen(l)) /\ (long => w = 8)
    OBVIOUS
  <2> HIDE DEF w, off, stamps
  <2>3. m \in Nat /\ \A k \in 1 .. m : stamps[k] \in Seq(Byte) /\ Len(stamps[k]) = w
    <3> DEFINE u == Entries(o, off, w, OptLen(l))
    <3>1. Len(u) \in Nat /\ \A k \in 1 .. Len(u) : u[k] \in Seq(Byte) /\ Len(u[k]) = w
      BY <1>2, <2>1, EntriesType
    <3>2. stamps = u
      BY <2>2
    <3> HIDE DEF u
    <3> QED
      BY <3>1, <3>2
  <2>4. \A k \in 1 .. m : Piece(sl[k])
    <3>1. ASSUME NEW k \in 1 .. m PROVE Piece(sl[k])
      <4> DEFINE t == stamps[k]
      <4>1. t \in Seq(Byte) /\ Len(t) = w
        BY <2>3
      <4>2. sl[k] = IF long THEN <<"at", Number(SubSeq(t, 5, 8)), SubSeq(t, 1, 4)>> ELSE <<"num", Number(t)>>
        OBVIOUS
      <4> HIDE DEF t, sl, long
      <4>3. CASE long
        <5>1. t \in Seq(Byte) /\ 4 + 4 <= Len(t) /\ 0 + 4 <= Len(t)
          BY <2>2, <4>1, <4>3
        <5>2. SubSeq(t, 4 + 1, 4 + 4) \in Seq(Byte) /\ SubSeq(t, 0 + 1, 0 + 4) \in Seq(Byte)
          BY <5>1, Part
        <5>3. SubSeq(t, 5, 8) \in Seq(Byte) /\ SubSeq(t, 1, 4) \in Seq(Byte)
          BY <5>2
        <5>4. Number(SubSeq(t, 5, 8)) \in Nat
          BY <5>3, NumberType
        <5> QED
          BY <4>2, <4>3, <5>3, <5>4, Lexemes
      <4>4. CASE ~ long
        <5>1. Number(t) \in Nat
          BY <4>1, NumberType
        <5>2. Piece(Num(Number(t)))
          BY <5>1, Lexemes
        <5> QED
          BY <4>2, <4>4, <5>2 DEF Num
      <4> QED
        BY <4>3, <4>4
    <3> QED
      BY <3>1
  <2>5. sl = [k \in 1 .. m |-> sl[k]]
    OBVIOUS
  <2> HIDE DEF m, sl
  <2> QED
    BY <2>3, <2>4, <2>5, ListLexeme, FieldText
<1> HIDE DEF ptr, data1, data2, f, over, hex, key, kind
<1>8. Texts(<< >>) /\ Texts(<<ptr, data1>>) /\ Texts(<<ptr, f, over, data2>>) /\ Texts(<<hex>>)
  BY <1>3, <1>4, <1>5, <1>6, <1>7, ShortFields
<1>9. /\ \A x : IsText(Described(x, << >>)) /\ IsText(Described(x, <<ptr, data1>>))
      /\ \A x : IsText(Described(x, <<ptr, f, over, data2>>)) /\ IsText(Described(x, <<hex>>))
  BY <1>8, DescribedText
<1> QED
  BY <1>1, <1>9

\* The blocks of SACK lie in the padded option (rapd.c).
LEMMA BlocksType ==
  ASSUME NEW o, Readable(o, 40), NEW n \in Nat
  PROVE  LET blocks == Min({4, Max({0, n - 2}) \div 8})
             block(k) == <<"pair", Number(At(o, 8 * k - 6, 4)), Number(At(o, 8 * k - 2, 4))>>
         IN  Lexeme(<<"list", [k \in 1 .. blocks |-> block(k)]>>)
<1> DEFINE x == Max({0, n - 2})
           z == x \div 8
           m == Min({4, z})
           block(k) == <<"pair", Number(At(o, 8 * k - 6, 4)), Number(At(o, 8 * k - 2, 4))>>
           f == [k \in 1 .. m |-> block(k)]
<1>1. x \in Nat
  <2> DEFINE y == n - 2
             a == 0
  <2>1. y \in Int /\ a \in Int /\ a >= 0
    OBVIOUS
  <2> HIDE DEF y, a
  <2>2. Max({a, y}) = IF a >= y THEN a ELSE y
    BY <2>1, MaxOfTwo
  <2>3. Max({a, y}) \in Nat
    BY <2>1, <2>2
  <2> QED
    BY <2>3 DEF a, y
<1>2. z \in Nat
  <2> HIDE DEF x
  <2> QED
    BY <1>1
<1> HIDE DEF z
<1>3. m \in Nat /\ m <= 4
  <2>1. z \in Int /\ 4 \in Int
    BY <1>2
  <2>2. m = IF 4 <= z THEN 4 ELSE z
    BY <2>1, MinOfTwo
  <2> HIDE DEF m
  <2> QED
    BY <1>2, <2>2
<1> HIDE DEF m
<1>4. ASSUME NEW k \in 1 .. m PROVE Piece(block(k))
  <2> DEFINE a == 8 * k - 6
             c == 8 * k - 2
             w == 4
             e == 40
  <2>1. Readable(o, e) /\ a \in Nat /\ a + w <= e /\ c \in Nat /\ c + w <= e /\ w \in Nat
    BY <1>3
  <2> HIDE DEF a, c, w, e
  <2>2. At(o, a, w) \in Seq(Byte) /\ At(o, c, w) \in Seq(Byte)
    BY <2>1, ReadBytes
  <2>3. Number(At(o, a, w)) \in Nat /\ Number(At(o, c, w)) \in Nat
    BY <2>2, NumberType
  <2>4. Piece(<<"pair", Number(At(o, a, w)), Number(At(o, c, w))>>)
    BY <2>3, Lexemes
  <2> QED
    BY <2>4 DEF a, c, w
<1> HIDE DEF block
<1>5. f = [k \in 1 .. m |-> f[k]] /\ \A k \in 1 .. m : Piece(f[k])
  BY <1>4
<1> HIDE DEF f
<1>6. Lexeme(<<"list", f>>)
  BY <1>3, <1>5, ListLexeme
<1> QED
  BY <1>6 DEF f, m, z, block

\* The options of TCP in words (ars_rapd_tcpopt(), rapd.c).
LEMMA RapdTcpopt ==
  ASSUME NEW l \in Layer
  PROVE  IsText(ars_rapd_tcpopt(l))
<1> DEFINE n == 40
           o == Padded(l)
           kind == o.data[1]
           blocks == Min({4, Max({0, OptLen(l) - 2}) \div 8})
           block(k) == <<"pair", Number(At(o, 8 * k - 6, 4)), Number(At(o, 8 * k - 2, 4))>>
           size == Field("size", Word16(o, 2))
           shift == Field("shift", Byte8(o, 2))
           sack == Field("blocks", <<"list", [k \in 1 .. blocks |-> block(k)]>>)
           info == Field("info", Word32(o, 2))
           val == Field("val", Word32(o, 2))
           ecr == Field("ecr", Word32(o, 6))
           hex == Field("hex", HexText(Bytes(l)))
<1>1. ars_rapd_tcpopt(l) =
        CASE kind = TCPOPT.eol -> Described("tcp.eol", << >>)
          [] kind = TCPOPT.nop -> Described("tcp.nop", << >>)
          [] kind = TCPOPT.mss -> Described("tcp.mss", <<size>>)
          [] kind = TCPOPT.wscale -> Described("tcp.wscale", <<shift>>)
          [] kind = TCPOPT.sackperm -> Described("tcp.sackperm", << >>)
          [] kind = TCPOPT.sack -> Described("tcp.sack", <<sack>>)
          [] kind = TCPOPT.echo -> Described("tcp.echo", <<info>>)
          [] kind = TCPOPT.echoreply -> Described("tcp.echoreply", <<info>>)
          [] kind = TCPOPT.ts -> Described("tcp.ts", <<val, ecr>>)
          [] OTHER -> Described("tcp.unknown", <<hex>>)
  BY DEF ars_rapd_tcpopt
<1>2. Readable(o, n) /\ n <= 40 /\ OptLen(l) \in Nat
  BY PaddedType
<1>3. IsText(sack)
  BY <1>2, BlocksType, FieldText
<1> HIDE DEF o, sack
<1>4. IsText(size) /\ IsText(shift)
  <2>1. /\ \A f, off : off \in 0 .. n - 1 => IsText(Field(f, Byte8(o, off)))
        /\ \A f, off : off \in 0 .. n - 2 => IsText(Field(f, Word16(o, off)))
    BY <1>2, ReadHeader
  <2> QED
    BY <2>1
<1>5. IsText(info) /\ IsText(val) /\ IsText(ecr)
  <2>1. \A f, off : off \in 0 .. n - 4 => IsText(Field(f, Word32(o, off)))
    BY <1>2, ReadHeader
  <2> QED
    BY <2>1
<1>6. IsText(hex)
  BY BytesType, CharsOf, FieldText
<1> HIDE DEF size, shift, info, val, ecr, hex, kind
<1>7. /\ Texts(<< >>) /\ Texts(<<size>>) /\ Texts(<<shift>>) /\ Texts(<<sack>>)
      /\ Texts(<<info>>) /\ Texts(<<val, ecr>>) /\ Texts(<<hex>>)
  BY <1>3, <1>4, <1>5, <1>6, ShortFields
<1>8. \A x : /\ IsText(Described(x, << >>)) /\ IsText(Described(x, <<size>>))
             /\ IsText(Described(x, <<shift>>)) /\ IsText(Described(x, <<sack>>))
             /\ IsText(Described(x, <<info>>)) /\ IsText(Described(x, <<val, ecr>>))
             /\ IsText(Described(x, <<hex>>))
  BY <1>7, DescribedText
<1> QED
  BY <1>1, <1>8

\* What is described of a stack is a text (ars_d_from_ars(), rapd.c).
LEMMA StackInWords ==
  ASSUME NEW p, Stack(p), NEW hexdata
  PROVE  IsText(ars_d_from_ars(p, hexdata))
<1> DEFINE n == Len(p)
           f == [k \in 1 .. n |-> li_rapd(p[k], hexdata)]
           t == FlattenSeq(f)
<1>1. n \in Nat
  BY LenProperties DEF Stack
<1>2. ASSUME NEW k \in 1 .. n PROVE IsText(li_rapd(p[k], hexdata))
  <2> DEFINE l == p[k]
             m == Len(l.data)
  <2>1. l \in Layer /\ Whole(l.type, m)
    BY StackLayer
  <2> HIDE DEF l
  <2>2. l.type \in LayerTypes /\ \A x \in Nat : x <= m => Readable(l, x)
    BY <2>1, StackReadable DEF Layer
  <2> HIDE DEF m
  <2>3. CASE l.type \in {"IP", "TCP"}
    <3>1. m = 20
      BY <2>1, <2>3 DEF Whole
    <3> QED
      BY <2>2, <2>3, <3>1, RapdIp, RapdTcp DEF li_rapd, l
  <2>4. CASE l.type \in {"UDP", "ICMP", "ICMP6"}
    <3>1. m = 8
      BY <2>1, <2>4 DEF Whole
    <3> QED
      BY <2>2, <2>4, <3>1, RapdUdp, RapdIcmps DEF li_rapd, l
  <2>5. CASE l.type = "IP6"
    <3>1. m = 40
      BY <2>1, <2>5 DEF Whole
    <3> QED
      BY <2>2, <2>5, <3>1, RapdIp6 DEF li_rapd, l
  <2>6. CASE l.type = "IGRP"
    <3>1. m = 12
      BY <2>1, <2>6 DEF Whole
    <3> QED
      BY <2>2, <2>6, <3>1, RapdIgrp DEF li_rapd, l
  <2>7. CASE l.type = "IGRPENTRY"
    <3>1. m = 14
      BY <2>1, <2>7 DEF Whole
    <3> QED
      BY <2>2, <2>7, <3>1, RapdIgrpentry DEF li_rapd, l
  <2>8. CASE l.type \in {"IPOPT", "TCPOPT", "DATA"}
    BY <2>1, <2>8, RapdIpopt, RapdTcpopt, RapdData DEF li_rapd, l
  <2>9. CASE l.type = "NULL"
    BY <2>9, ShortTexts DEF li_rapd, l
  <2> QED
    BY <2>2, <2>3, <2>4, <2>5, <2>6, <2>7, <2>8, <2>9 DEF LayerTypes
<1> HIDE DEF n
<1>3. f = [k \in 1 .. n |-> f[k]] /\ \A k \in 1 .. n : IsText(f[k])
  BY <1>2
<1> HIDE DEF f
<1>4. IsText(t)
  BY <1>1, <1>3, TextFlat
<1>5. ars_d_from_ars(p, hexdata) = SubSeq(t, 1, Len(t) - 1)
  BY DEF ars_d_from_ars, Front, f, n
<1> HIDE DEF t
<1>6. IsText(SubSeq(t, 0 + 1, Len(t) - 1))
  <2> DEFINE a == 0
             k == Len(t) - 1
  <2>1. a \in Nat /\ k \in Int /\ k <= Len(t)
    BY <1>4, TextIs
  <2> HIDE DEF a, k
  <2>2. IsText(SubSeq(t, a + 1, k))
    BY <1>4, <2>1, TextPart
  <2> QED
    BY <2>2 DEF a, k
<1>7. 0 + 1 = 1
  OBVIOUS
<1> QED
  BY <1>5, <1>6, <1>7

-----------------------------------------------------------------------------
(* The life of a packet.                                                   *)

\* The inductive invariant.  TypeOK alone is not: the compilers and the
\* describer read whole headers, the parser a layer of its keyword, and the
\* dissector starts from an empty packet.
PacketsInv ==
  /\ SplitInv
  /\ pc \in {"build", "compile", "network", "capture", "split", "done", "failed"}
  /\ round \in {1, 2} /\ j \in 0 .. ARS_MAX_LAYER
  /\ Building(b) /\ Stack(pkt) /\ Stack(sent) /\ Capture(captured)
  /\ pc = "split" => Stack(captured)
  /\ pc = "compile" => j <= Len(pkt)
  /\ round = 1 /\ pc \in {"build", "compile", "network"} => captured = << >>
  /\ pc \in {"network", "capture", "split"} => round = 1

\* It holds of every description.
LEMMA PacketsStart ==
  ASSUME Init
  PROVE  PacketsInv
<1>1. PICK d \in Descriptions : b = BuildInit(d)
  BY DEF Init
<1>2. Building(b)
  BY <1>1, DescriptionsAssumption, BuildingInit
<1>3. Stack(<< >>) /\ Capture(<< >>) /\ << >> \in Seq(Byte)
  BY StackEmpty DEF Stack, Capture
<1>4. 0 \in 0 .. ARS_MAX_LAYER
  BY MaxLayerAssumption
<1>5. /\ pc = "build" /\ round = 1 /\ j = 0 /\ pkt = << >> /\ sent = << >>
      /\ wire = << >> /\ captured = << >>
  BY DEF Init
<1>6. SplitInv
  BY <1>3, <1>5 DEF SplitInv
<1> QED
  BY <1>2, <1>3, <1>4, <1>5, <1>6 DEF PacketsInv

\* What is not dissecting leaves the dissector's part alone.
LEMMA SplitInvIdle ==
  ASSUME SplitInv, UNCHANGED <<wire, captured>>, pc' \notin {"capture", "split"}
  PROVE  SplitInv'
BY DEF SplitInv

\* A token, or the end of the description.
LEMMA ParseInv ==
  ASSUME PacketsInv, Parse \/ Parsed
  PROVE  PacketsInv'
<1>1. /\ SplitInv /\ Building(b) /\ Stack(pkt) /\ Stack(sent) /\ Capture(captured)
      /\ round \in {1, 2} /\ j \in 0 .. ARS_MAX_LAYER
      /\ round = 1 => captured = << >>
  BY DEF PacketsInv, Parse, Parsed
<1>2. /\ UNCHANGED <<round, sent, wire, captured>>
      /\ pc' \in {"build", "compile", "failed"}
  BY DEF Parse, Parsed
<1>3. SplitInv'
  BY <1>1, <1>2, SplitInvIdle
<1>4. Stack(b.p) /\ IsText(b.text)
  BY <1>1 DEF Building, Steady
<1>5. CASE Parse
  <2> DEFINE t == b.text
             tok == ars_d_parser(t)[1]
             rest == ars_d_parser(t)[2]
  <2>1. ars_d_parser(t) # << >> /\ b' = ars_d_build(b)
    BY <1>5 DEF Parse
  <2>2. ars_d_parser(t) = <<tok, rest>>
    BY <2>1 DEF ars_d_parser
  <2>3. Lexeme(tok) /\ IsText(rest)
    <3> HIDE DEF t
    <3> QED
      BY <1>4, <2>1, ParserText DEF t
  <2> HIDE DEF tok, rest
  <2>4. Building(b')
    BY <1>1, <2>1, <2>2, <2>3, BuildingToken
  <2>5. UNCHANGED <<pkt, j>> /\ pc' # "compile"
    BY <1>5 DEF Parse
  <2> QED
    BY <1>1, <1>2, <1>3, <2>4, <2>5 DEF PacketsInv, Building, Stack, Capture
<1>6. CASE Parsed
  <2>1. b' = BuildEnd(b) /\ pkt' = b.p /\ j' = Len(b.p)
    BY <1>6 DEF Parsed
  <2>2. Building(b')
    BY <1>1, <2>1, BuildingEnd
  <2>3. Len(b.p) \in 0 .. ARS_MAX_LAYER
    <3>1. Len(b.p) \in Nat /\ Len(b.p) <= ARS_MAX_LAYER
      BY <1>4, LenProperties DEF Stack
    <3> QED
      BY <3>1, MaxLayerAssumption
  <2>4. Stack(pkt') /\ j' \in 0 .. ARS_MAX_LAYER /\ j' <= Len(pkt')
    BY <1>4, <2>1, <2>3
  <2> QED
    BY <1>1, <1>2, <1>3, <2>2, <2>4 DEF PacketsInv, Building, Stack, Capture
<1> QED
  BY <1>5, <1>6

\* A compiled layer, or the finished packet.
LEMMA CompileInv ==
  ASSUME PacketsInv, ars_compile \/ Flatten
  PROVE  PacketsInv'
<1>1. /\ SplitInv /\ Building(b) /\ Stack(pkt) /\ Stack(sent) /\ Capture(captured)
      /\ round \in {1, 2} /\ j \in 0 .. ARS_MAX_LAYER /\ j <= Len(pkt)
      /\ round = 1 => captured = << >>
  BY DEF PacketsInv, ars_compile, Flatten
<1>2. /\ UNCHANGED <<round, b, wire, captured>>
      /\ pc' \in {"compile", "network", "done", "failed"}
  BY DEF ars_compile, Flatten
<1>3. SplitInv'
  BY <1>1, <1>2, SplitInvIdle
<1>4. CASE ars_compile
  <2>1. /\ j >= 1 /\ j' = j - 1 /\ sent' = sent /\ pc' \in {"compile", "failed"}
        /\ pkt' = CompileLayer(pkt, j).p
    BY <1>4 DEF ars_compile
  <2>2. Len(pkt) \in Nat
    BY <1>1, LenProperties DEF Stack
  <2>3. j \in 1 .. Len(pkt)
    BY <1>1, <2>1, <2>2, MaxLayerAssumption
  <2>4. Stack(pkt') /\ Len(pkt') = Len(pkt)
    BY <1>1, <2>1, <2>3, CompileStack
  <2>5. j' \in 0 .. ARS_MAX_LAYER /\ j' <= Len(pkt')
    BY <1>1, <2>1, <2>2, <2>3, <2>4, MaxLayerAssumption
  <2> QED
    BY <1>1, <1>2, <1>3, <2>1, <2>4, <2>5 DEF PacketsInv, Building, Stack, Capture
<1>5. CASE Flatten
  <2>1. /\ UNCHANGED <<pkt, j>> /\ sent' \in {sent, pkt}
        /\ pc' \in {"network", "done", "failed"} /\ (pc' = "network" => round = 1)
    BY <1>5 DEF Flatten
  <2>2. Stack(sent')
    BY <1>1, <2>1
  <2> QED
    BY <1>1, <1>2, <1>3, <2>1, <2>2 DEF PacketsInv, Building, Stack, Capture
<1> QED
  BY <1>4, <1>5

\* Whatever the network does to the datagram.
LEMMA NetworkInv ==
  ASSUME PacketsInv, Network
  PROVE  PacketsInv'
<1>1. /\ SplitInv /\ Building(b) /\ Stack(pkt) /\ Stack(sent) /\ Capture(captured)
      /\ round \in {1, 2} /\ j \in 0 .. ARS_MAX_LAYER
      /\ pc = "network" => captured = << >> /\ round = 1
  BY DEF PacketsInv
<1>2. Datagram \in Seq(Byte)
  BY <1>1, PacketBytes DEF Datagram
<1>3. \E w \in Seq(Byte) : \E f : Receive(w, f)
  <2> DEFINE d == Datagram
  <2>0. d \in Seq(Byte)
    BY <1>2
  <2>1. CASE \E n \in Paddings : LinkPadding(n)
    <3>1. PICK n \in Paddings : LinkPadding(n)
      BY <2>1
    <3>2. n \in Nat
      BY LengthsAssumption
    <3>3. d \o Zero(n) \in Seq(Byte)
      <4> HIDE DEF d
      <4> QED
        BY <2>0, <3>2, WireBytes
    <3> QED
      BY <3>1, <3>3 DEF LinkPadding
  <2>2. CASE \E n \in LinkHeaders : LinkHeader(n)
    <3>1. PICK n \in LinkHeaders : LinkHeader(n)
      BY <2>2
    <3>2. n \in Nat
      BY LengthsAssumption
    <3>3. Zero(n) \o d \in Seq(Byte)
      <4> HIDE DEF d
      <4> QED
        BY <2>0, <3>2, WireBytes
    <3> QED
      BY <3>1, <3>3 DEF LinkHeader
  <2>3. CASE \E n \in Cuts : Cut(n)
    <3>1. PICK n \in Cuts : Cut(n)
      BY <2>3
    <3>2. n \in Nat
      BY LengthsAssumption
    <3>3. n < Len(d)
      BY <3>1 DEF Cut
    <3>4. SubSeq(d, 1, n) \in Seq(Byte)
      <4> HIDE DEF d
      <4> QED
        BY <2>0, <3>2, <3>3, WireBytes
    <3> QED
      BY <3>1, <3>4 DEF Cut
  <2>4. CASE \E k \in 1 .. Len(d) : Damage(k)
    <3>1. PICK k \in 1 .. Len(d) : Damage(k)
      BY <2>4
    <3>2. [d EXCEPT ![k] = (@ + 1) % 256] \in Seq(Byte)
      <4> HIDE DEF d
      <4> QED
        BY <2>0, WireBytes
    <3> QED
      BY <3>1, <3>2 DEF Damage
  <2> QED
    BY <2>1, <2>2, <2>3, <2>4 DEF Network
<1>4. PICK w \in Seq(Byte) : \E f : Receive(w, f)
  BY <1>3
<1>5. /\ pc = "network" /\ pc' = "capture" /\ wire' \in Seq(Byte)
      /\ UNCHANGED <<round, b, pkt, j, sent, captured>>
  BY <1>4 DEF Receive
<1>6. SplitInv'
  BY <1>1, <1>5 DEF SplitInv
<1> QED
  BY <1>1, <1>5, <1>6 DEF PacketsInv, Building, Stack, Capture

\* The dissector.
LEMMA DissectInv ==
  ASSUME PacketsInv, OpenCapture \/ DissectLayer
  PROVE  PacketsInv'
<1>1. /\ SplitInv /\ Building(b) /\ Stack(pkt) /\ Stack(sent) /\ Capture(captured)
      /\ round \in {1, 2} /\ j \in 0 .. ARS_MAX_LAYER
      /\ pc \in {"capture", "split"} => round = 1
      /\ pc = "split" => Stack(captured)
  BY DEF PacketsInv
<1>2. UNCHANGED <<round, b, pkt, j, sent>>
  BY DEF OpenCapture, DissectLayer
<1>3. CASE OpenCapture
  <2>1. PICK detect \in BOOLEAN : SplitStart(detect)
    BY <1>3 DEF OpenCapture
  <2>2. SplitInv'
    BY <1>1, <2>1, SplitStartReading
  <2>3. pc = "capture" /\ captured' = captured /\ pc' \in {"split", "failed"}
    BY <2>1 DEF SplitStart
  <2>4. captured' = << >>
    BY <1>1, <2>3 DEF SplitInv
  <2>5. Stack(captured') /\ Capture(captured')
    BY <2>4, StackEmpty DEF Stack, Capture
  <2> QED
    BY <1>1, <1>2, <2>2, <2>3, <2>5 DEF PacketsInv, Building, Stack, Capture
<1>4. CASE DissectLayer
  <2>1. SplitStep /\ pc = "split" /\ pc' \in {"split", "failed"}
    BY <1>4 DEF DissectLayer, SplitStep
  <2>2. SplitInv'
    BY <1>1, <2>1, SplitInvStep DEF SplitNext
  <2>3. Reading
    BY <1>1, <2>1 DEF SplitInv
  <2>4. Capture(captured') /\ (pc' = "split" => Stack(captured'))
    BY <1>1, <2>1, <2>3, SplitStepStack
  <2> QED
    BY <1>1, <1>2, <2>1, <2>2, <2>4 DEF PacketsInv, Building, Stack, Capture
<1> QED
  BY <1>3, <1>4

\* The capture in words is the next description.
LEMMA DescribeInv ==
  ASSUME PacketsInv, Describe
  PROVE  PacketsInv'
<1>1. /\ SplitInv /\ Stack(pkt) /\ Stack(sent) /\ Capture(captured) /\ Stack(captured)
      /\ j \in 0 .. ARS_MAX_LAYER
  BY DEF PacketsInv, Describe
<1>2. PICK hexdata \in BOOLEAN : b' = BuildInit(ars_d_from_ars(captured, hexdata))
  BY DEF Describe
<1>3. Building(b')
  BY <1>1, <1>2, StackInWords, BuildingInit
<1>4. round' = 2 /\ pc' = "build" /\ UNCHANGED <<pkt, j, sent, wire, captured>>
  BY DEF Describe
<1>5. SplitInv'
  BY <1>1, <1>4, SplitInvIdle
<1> QED
  BY <1>1, <1>3, <1>4, <1>5 DEF PacketsInv, Building, Stack, Capture

\* It is inductive.
LEMMA PacketsInvStep ==
  ASSUME PacketsInv, [Next]_vars
  PROVE  PacketsInv'
<1>1. CASE UNCHANGED vars
  <2>1. SplitInv'
    BY <1>1, SplitInvStep DEF PacketsInv, vars, splitVars
  <2> QED
    BY <1>1, <2>1 DEF PacketsInv, vars, Building, Stack, Capture
<1> QED
  BY <1>1, ParseInv, CompileInv, NetworkInv, DissectInv, DescribeInv DEF Next

\* A packet of layers is layered.
LEMMA LayersAre ==
  ASSUME NEW p, Capture(p)
  PROVE  Layered(p)
<1>1. p \in Seq(Layer) /\ Len(p) <= ARS_MAX_LAYER
  BY DEF Capture
<1>2. ASSUME NEW k \in 1 .. Len(p)
      PROVE  /\ p[k].size \in 0 .. Len(p[k].data)
             /\ \A i \in 1 .. Len(p[k].data) : p[k].data[i] \in Byte
  <2> DEFINE l == p[k]
  <2>1. l \in Layer
    BY <1>1, ElementOfSeq
  <2> HIDE DEF l
  <2>2. l.size \in Nat /\ l.size <= Len(l.data) /\ l.data \in Seq(Byte)
    BY <2>1 DEF Layer
  <2>3. Len(l.data) \in Nat
    BY <2>2, LenProperties
  <2>4. l.size \in 0 .. Len(l.data) /\ \A i \in 1 .. Len(l.data) : l.data[i] \in Byte
    BY <2>2, <2>3, ElementOfSeq
  <2> QED
    BY <2>4 DEF l
<1> QED
  BY <1>1, <1>2 DEF Layered

\* Whatever the descriptions, the padding, the cuts and the damage: every
\* layer keeps no more bytes in use than its buffer has, in the parser, the
\* compilers, the dissector and the describer (ars_d_build(), ars_compile(),
\* ars_split_packet(), ars_d_from_ars()).
THEOREM AlwaysTyped == Spec => []TypeOK
<1>1. PacketsInv => TypeOK
  <2>1. SUFFICES ASSUME PacketsInv PROVE TypeOK
    OBVIOUS
  <2>2. Capture(b.p) /\ Capture(pkt) /\ Capture(sent) /\ Capture(captured)
    BY <2>1 DEF PacketsInv, Building, Steady, Stack, Capture
  <2>3. Layered(b.p) /\ Layered(pkt) /\ Layered(sent) /\ Layered(captured)
    BY <2>2, LayersAre
  <2> QED
    BY <2>1, <2>3 DEF PacketsInv, TypeOK
<1> QED
  BY <1>1, PacketsStart, PacketsInvStep, PTL DEF Spec

\* The dissector loses and invents nothing of what the engine's own packets
\* become on the network (ars_split_packet(), split.c:140-199).
THEOREM PacketsKeepBytes == Spec => []SplitKeepsBytes
<1>1. PacketsInv => SplitKeepsBytes
  BY SplitKeeps DEF PacketsInv
<1> QED
  BY <1>1, PacketsStart, PacketsInvStep, PTL DEF Spec

\* It reads each of them to its end (split.c:174-199, 389-399, 623-633).
THEOREM PacketsProgress == Spec => SplitProgress
<1>1. PacketsInv /\ [Next]_vars =>
        [pc = "split" /\ pc' = "split" =>
           cur'.off > cur.off \/ (cur.rest = << >> /\ Dissected')]_splitVars
  <2>1. SUFFICES ASSUME PacketsInv, [Next]_vars, pc = "split", pc' = "split", ~ UNCHANGED splitVars
        PROVE  cur'.off > cur.off \/ (cur.rest = << >> /\ Dissected')
    OBVIOUS
  <2>2. SplitStep
    BY <2>1 DEF Next, vars, splitVars, Parse, Parsed, ars_compile, Flatten, Network, LinkPadding,
                LinkHeader, Cut, Damage, Receive, OpenCapture, SplitStart, DissectLayer, Describe
  <2>3. wire \in Seq(Byte) /\ Reading
    BY <2>1 DEF PacketsInv, SplitInv
  <2> QED
    BY <2>1, <2>2, <2>3, SplitStepReading DEF Dissected
<1> QED
  BY <1>1, PacketsStart, PacketsInvStep, PTL DEF Spec, SplitProgress

===============================================================================
