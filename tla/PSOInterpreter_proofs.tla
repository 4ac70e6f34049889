----------------------- MODULE PSOInterpreter_proofs -----------------------
(***************************************************************************)
(* Proofs about PSOInterpreter, for every program of loads, stores,        *)
(* atomics, fences, creates, joins and assumes: an update is always of one *)
(* whole store, the interpreter implements the byte-wise memory of         *)
(* PSOMemory, no wake-up is missed and, if a thread stores to an address   *)
(* with one size only, no store is left at the end.                        *)
(***************************************************************************)
EXTENDS PSOInterpreter, SequenceTheorems, WellFoundedInduction, TLAPS

(* The provers that a leaf is tried with, unless it names its own.         *)
USE SMTT(10), Z3T(10), Zenon

-----------------------------------------------------------------------------
(* Definitions of the inductive invariant.                                 *)

PendingStores == [ml : Locations, val : Values]

(* The types of what the actions read.                                     *)
TypeOK ==
  /\ prog \in Programs
  /\ CurInst \in [Threads -> Nat \ {0}]
  /\ store_buffers \in [Threads -> [Bytes -> Seq(PendingStores)]]

(* The byte buffers sb of a thread are what is left of a sequence of       *)
(* stores: st gives every entry the number its store has in that sequence, *)
(* and n stores have been issued.  A buffer keeps the order of the stores, *)
(* and a store that is pending for one of its bytes is pending, with the   *)
(* same number, for all of them.                                           *)
Stamped(sb, st, n) ==
  /\ n \in Nat
  /\ \A b \in Bytes : \A i \in 1..Len(sb[b]) :
       /\ st[b][i] \in Nat /\ st[b][i] < n
       /\ \A j \in 1..Len(sb[b]) : i < j => st[b][i] < st[b][j]
       /\ b \in bytes(sb[b][i].ml)
       /\ \A c \in bytes(sb[b][i].ml) : \E j \in 1..Len(sb[c]) :
            st[c][j] = st[b][i] /\ sb[c][j] = sb[b][i]

WholeStores(sb) == \E st, n : Stamped(sb, st, n)

Inv == TypeOK /\ \A t \in Threads : WholeStores(store_buffers[t])

-----------------------------------------------------------------------------
(* Byte buffers.                                                           *)

ByteBuffers == [Bytes -> Seq(PendingStores)]

(* What is left of a buffer when its oldest store has been removed.        *)
LEMMA TailProperties ==
  ASSUME NEW S, NEW s \in Seq(S), s # << >>
  PROVE  /\ Len(s) \in Nat \ {0}
         /\ Head(s) = s[1]
         /\ Tail(s) \in Seq(S)
         /\ Len(Tail(s)) = Len(s) - 1
         /\ \A i \in 1..(Len(s) - 1) : Tail(s)[i] = s[i + 1]
<1>1. Len(s) \in Nat \ {0}
  BY EmptySeq
<1>2. /\ Tail(s) \in Seq(S)
      /\ Len(Tail(s)) = Len(s) - 1
      /\ \A i \in 1..Len(Tail(s)) : Tail(s)[i] = s[i + 1]
  BY HeadTailProperties
<1> QED BY <1>1, <1>2

(* An entry of a byte buffer is a store to a location.                     *)
LEMMA Entries ==
  ASSUME NEW sb \in ByteBuffers, NEW b \in Bytes
  PROVE  /\ Len(sb[b]) \in Nat
         /\ sb[b] = << >> <=> Len(sb[b]) = 0
         /\ \A i \in 1..Len(sb[b]) : /\ sb[b][i] \in PendingStores
                                     /\ sb[b][i].ml \in Locations
                                     /\ sb[b][i].val \in Values
                                     /\ bytes(sb[b][i].ml) \subseteq Bytes
<1>1. sb[b] \in Seq(PendingStores)
  BY DEF ByteBuffers
<1>2. Len(sb[b]) \in Nat /\ \A i \in 1..Len(sb[b]) : sb[b][i] \in PendingStores
  BY <1>1, LenProperties
<1>3. sb[b] = << >> <=> Len(sb[b]) = 0
  BY <1>1, EmptySeq
<1> QED BY <1>2, <1>3, AccessAssumption DEF PendingStores

(* The first byte of a location belongs to it.                             *)
LEMMA FirstByte ==
  ASSUME NEW ml \in Locations
  PROVE  ml.addr \in bytes(ml)
BY AccessAssumption DEF bytes

(* is_aux_at_head() compares addresses; the oldest entry then begins at    *)
(* the auxiliary thread's address and is the oldest for all its bytes.     *)
LEMMA WholeHead ==
  ASSUME NEW sb \in ByteBuffers, WholeStores(sb), NEW b0 \in Bytes, sb[b0] # << >>,
         \A b \in bytes(Head(sb[b0]).ml) \ {b0} : Head(sb[b]).ml.addr = b0
  PROVE  /\ Head(sb[b0]) \in PendingStores
         /\ Head(sb[b0]).ml.addr = b0
         /\ \A b \in bytes(Head(sb[b0]).ml) : sb[b] # << >> /\ Head(sb[b]) = Head(sb[b0])
<1> DEFINE s == Head(sb[b0])
<1>1. PICK st, n : Stamped(sb, st, n)
  BY DEF WholeStores
<1>2. \A b \in Bytes : sb[b] # << >> => Len(sb[b]) \in Nat \ {0} /\ Head(sb[b]) = sb[b][1]
  BY TailProperties DEF ByteBuffers
<1>3. s = sb[b0][1] /\ 1 \in 1..Len(sb[b0])
  BY <1>2
<1>4. s \in PendingStores /\ s.ml \in Locations /\ bytes(s.ml) \subseteq Bytes
  BY <1>3, Entries
<1>5. /\ b0 \in bytes(s.ml)
      /\ \A c \in bytes(s.ml) : \E j \in 1..Len(sb[c]) :
            st[c][j] = st[b0][1] /\ sb[c][j] = s
  <2> HIDE DEF s
  <2>1. /\ b0 \in bytes(sb[b0][1].ml)
        /\ \A c \in bytes(sb[b0][1].ml) : \E j \in 1..Len(sb[c]) :
             st[c][j] = st[b0][1] /\ sb[c][j] = sb[b0][1]
    BY <1>1, <1>3 DEF Stamped
  <2> QED BY <1>3, <2>1
<1> HIDE DEF s
<1>6. \A c \in bytes(s.ml) : sb[c] # << >> /\ Head(sb[c]) = sb[c][1] /\ 1 \in 1..Len(sb[c])
  <2> SUFFICES ASSUME NEW c \in bytes(s.ml)
               PROVE  sb[c] # << >> /\ Head(sb[c]) = sb[c][1] /\ 1 \in 1..Len(sb[c])
    OBVIOUS
  <2>1. c \in Bytes /\ Len(sb[c]) # 0
    BY <1>4, <1>5
  <2>2. sb[c] # << >>
    BY <2>1, Entries
  <2> QED BY <1>2, <2>1, <2>2
<1>7. s.ml.addr = b0
  <2> SUFFICES ASSUME s.ml.addr # b0  PROVE FALSE
    OBVIOUS
  <2> DEFINE a == s.ml.addr
             h == sb[a][1]
  <2>1. a \in bytes(s.ml) /\ a \in Bytes
    BY <1>4, FirstByte
  <2>2. h.ml.addr = b0 /\ 1 \in 1..Len(sb[a])
    BY <1>6, <2>1 DEF s
  <2>3. a \in bytes(h.ml)
    BY <1>1, <2>1, <2>2 DEF Stamped
  <2>4. h.ml \in Locations
    BY <2>1, <2>2, Entries
  <2>5. b0 <= a
    BY <2>2, <2>3, <2>4, AccessAssumption DEF bytes
  <2>6. a <= b0
    BY <1>4, <1>5, AccessAssumption DEF bytes
  <2>7. a \in Int /\ b0 \in Int
    BY <1>4, <2>2, <2>4, AccessAssumption
  <2> QED BY <2>5, <2>6, <2>7
<1>8. ASSUME NEW b \in bytes(s.ml) \ {b0}
      PROVE  Head(sb[b]) = s
  <2> DEFINE h == sb[b][1]
  <2>1. h.ml.addr = b0 /\ b \in Bytes /\ 1 \in 1..Len(sb[b])
    BY <1>4, <1>6 DEF s
  <2>2. h.ml \in Locations
    BY <2>1, Entries
  <2>3. b0 \in bytes(h.ml)
    BY <2>1, <2>2, FirstByte
  <2>4. PICK j \in 1..Len(sb[b0]) : st[b0][j] = st[b][1] /\ sb[b0][j] = h
    BY <1>1, <2>1, <2>3 DEF Stamped
  <2>5. PICK k \in 1..Len(sb[b]) : st[b][k] = st[b0][1] /\ sb[b][k] = s
    BY <1>5
  <2>6. k = 1 \/ st[b][1] < st[b][k]
    BY <1>1, <2>1 DEF Stamped
  <2>7. j = 1 \/ st[b0][1] < st[b0][j]
    BY <1>1, <1>3 DEF Stamped
  <2>8. st[b][1] \in Nat /\ st[b0][1] \in Nat
    BY <1>1, <1>3, <2>1, Zenon DEF Stamped
  <2>9. k = 1
    BY <2>4, <2>5, <2>6, <2>7, <2>8
  <2> QED BY <1>6, <2>5, <2>9
<1> QED BY <1>4, <1>6, <1>7, <1>8 DEF s

(* visitStoreInst() gives the entries of all bytes one new number.         *)
LEMMA StoreWhole ==
  ASSUME NEW sb \in ByteBuffers, WholeStores(sb), NEW s \in PendingStores,
         NEW sb2, sb2 = [b \in Bytes |-> IF b \in bytes(s.ml) THEN Append(sb[b], s)
                                         ELSE sb[b]]
  PROVE  sb2 \in ByteBuffers /\ WholeStores(sb2)
<1>1. PICK st, n : Stamped(sb, st, n)
  BY DEF WholeStores
<1>2. s.ml \in Locations /\ bytes(s.ml) \subseteq Bytes
  BY AccessAssumption DEF PendingStores
<1>3. \A b \in Bytes : sb[b] \in Seq(PendingStores) /\ Len(sb[b]) \in Nat
  BY DEF ByteBuffers
<1>4. \A b \in bytes(s.ml) :
        /\ sb2[b] \in Seq(PendingStores)
        /\ Len(sb2[b]) = Len(sb[b]) + 1
        /\ \A i \in 1..Len(sb[b]) : sb2[b][i] = sb[b][i]
        /\ sb2[b][Len(sb[b]) + 1] = s
  <2> SUFFICES ASSUME NEW b \in bytes(s.ml)
               PROVE  /\ sb2[b] \in Seq(PendingStores)
                      /\ Len(sb2[b]) = Len(sb[b]) + 1
                      /\ \A i \in 1..Len(sb[b]) : sb2[b][i] = sb[b][i]
                      /\ sb2[b][Len(sb[b]) + 1] = s
    OBVIOUS
  <2>1. sb2[b] = Append(sb[b], s) /\ b \in Bytes
    BY <1>2
  <2> QED BY <1>3, <2>1, AppendProperties
<1>5. \A b \in Bytes \ bytes(s.ml) : sb2[b] = sb[b]
  OBVIOUS
<1>6. sb2 \in ByteBuffers
  BY <1>3, <1>4, <1>5 DEF ByteBuffers
<1> DEFINE st2 == [b \in Bytes |-> [i \in Nat |->
                     IF i \in 1..Len(sb[b]) THEN st[b][i] ELSE n]]
<1>7. n \in Nat /\ n + 1 \in Nat
  BY <1>1 DEF Stamped
<1>8. \A b \in Bytes : \A i \in 1..Len(sb[b]) :
        /\ i \in 1..Len(sb2[b])
        /\ sb2[b][i] = sb[b][i]
        /\ st2[b][i] = st[b][i]
  BY <1>3, <1>4, <1>5
<1>9. \A b \in Bytes : \A i \in 1..Len(sb2[b]) : i \notin 1..Len(sb[b]) =>
        b \in bytes(s.ml) /\ i = Len(sb[b]) + 1 /\ sb2[b][i] = s /\ st2[b][i] = n
  BY <1>3, <1>4, <1>5
<1> HIDE DEF st2
<1>10. ASSUME NEW b \in Bytes, NEW i \in 1..Len(sb2[b])
       PROVE  /\ st2[b][i] \in Nat /\ st2[b][i] < n + 1
              /\ \A j \in 1..Len(sb2[b]) : i < j => st2[b][i] < st2[b][j]
              /\ b \in bytes(sb2[b][i].ml)
              /\ \A c \in bytes(sb2[b][i].ml) : \E j \in 1..Len(sb2[c]) :
                   st2[c][j] = st2[b][i] /\ sb2[c][j] = sb2[b][i]
  <2>1. CASE i \in 1..Len(sb[b])
    <3>1. sb2[b][i] = sb[b][i] /\ st2[b][i] = st[b][i]
      BY <1>8, <2>1
    <3>2. /\ st[b][i] \in Nat /\ st[b][i] < n
          /\ \A j \in 1..Len(sb[b]) : i < j => st[b][i] < st[b][j]
          /\ b \in bytes(sb[b][i].ml)
          /\ \A c \in bytes(sb[b][i].ml) : \E j \in 1..Len(sb[c]) :
               st[c][j] = st[b][i] /\ sb[c][j] = sb[b][i]
      BY <1>1, <2>1 DEF Stamped
    <3>3. ASSUME NEW j \in 1..Len(sb2[b]), i < j
          PROVE  st2[b][i] < st2[b][j]
      <4>1. CASE j \in 1..Len(sb[b])
        BY <1>8, <3>1, <3>2, <3>3, <4>1
      <4>2. CASE j \notin 1..Len(sb[b])
        BY <1>9, <3>1, <3>2, <4>2
      <4> QED BY <4>1, <4>2
    <3>4. ASSUME NEW c \in bytes(sb[b][i].ml)
          PROVE  \E j \in 1..Len(sb2[c]) : st2[c][j] = st2[b][i] /\ sb2[c][j] = sb2[b][i]
      <4>1. c \in Bytes
        BY <2>1, Entries
      <4>2. PICK j \in 1..Len(sb[c]) : st[c][j] = st[b][i] /\ sb[c][j] = sb[b][i]
        BY <3>2
      <4>3. j \in 1..Len(sb2[c]) /\ st2[c][j] = st2[b][i] /\ sb2[c][j] = sb2[b][i]
        BY <1>8, <3>1, <4>1, <4>2
      <4> QED BY <4>3, Zenon
    <3>5. bytes(sb2[b][i].ml) = bytes(sb[b][i].ml)
      BY <3>1
    <3>6. st2[b][i] \in Nat /\ st2[b][i] < n + 1
      BY <1>7, <3>1, <3>2
    <3>7. b \in bytes(sb2[b][i].ml)
      BY <3>2, <3>5
    <3> QED BY <3>3, <3>4, <3>5, <3>6, <3>7, Zenon
  <2>2. CASE i \notin 1..Len(sb[b])
    <3>1. b \in bytes(s.ml) /\ i = Len(sb[b]) + 1 /\ sb2[b][i] = s /\ st2[b][i] = n
      BY <1>9, <2>2
    <3>2. \A j \in 1..Len(sb2[b]) : ~(i < j)
      BY <1>3, <1>4, <3>1
    <3>3. ASSUME NEW c \in bytes(s.ml)
          PROVE  \E j \in 1..Len(sb2[c]) : st2[c][j] = st2[b][i] /\ sb2[c][j] = sb2[b][i]
      <4> DEFINE j == Len(sb[c]) + 1
      <4>1. c \in Bytes /\ j \in 1..Len(sb2[c]) /\ j \notin 1..Len(sb[c])
        BY <1>2, <1>3, <1>4
      <4> HIDE DEF j
      <4> QED BY <1>9, <3>1, <4>1
    <3>4. bytes(sb2[b][i].ml) = bytes(s.ml)
      BY <3>1
    <3>5. st2[b][i] \in Nat /\ st2[b][i] < n + 1
      BY <1>7, <3>1
    <3> QED BY <3>1, <3>2, <3>3, <3>4, <3>5, Zenon
  <2> QED BY <2>1, <2>2, Zenon
<1>11. Stamped(sb2, st2, n + 1)
  BY <1>7, <1>10, Zenon DEF Stamped
<1> QED BY <1>6, <1>11, Zenon DEF WholeStores

(* runAux() removes a whole store, the oldest one of all its bytes.        *)
LEMMA UpdateWhole ==
  ASSUME NEW sb \in ByteBuffers, WholeStores(sb), NEW s \in PendingStores,
         \A b \in bytes(s.ml) : sb[b] # << >> /\ Head(sb[b]) = s,
         NEW sb2, sb2 = [b \in Bytes |-> IF b \in bytes(s.ml) THEN Tail(sb[b])
                                         ELSE sb[b]]
  PROVE  sb2 \in ByteBuffers /\ WholeStores(sb2)
<1>1. PICK st, n : Stamped(sb, st, n)
  BY DEF WholeStores
<1>2. s.ml \in Locations /\ bytes(s.ml) \subseteq Bytes
  BY AccessAssumption DEF PendingStores
<1>3. \A b \in Bytes : sb[b] \in Seq(PendingStores) /\ Len(sb[b]) \in Nat
  BY DEF ByteBuffers
<1>4. \A b \in bytes(s.ml) :
        /\ sb2[b] \in Seq(PendingStores)
        /\ Len(sb[b]) \in Nat \ {0}
        /\ Len(sb2[b]) = Len(sb[b]) - 1
        /\ \A i \in 1..(Len(sb[b]) - 1) : sb2[b][i] = sb[b][i + 1]
        /\ sb[b][1] = s
  <2> SUFFICES ASSUME NEW b \in bytes(s.ml)
               PROVE  /\ sb2[b] \in Seq(PendingStores)
                      /\ Len(sb[b]) \in Nat \ {0}
                      /\ Len(sb2[b]) = Len(sb[b]) - 1
                      /\ \A i \in 1..(Len(sb[b]) - 1) : sb2[b][i] = sb[b][i + 1]
                      /\ sb[b][1] = s
    BY Zenon
  <2>1. sb2[b] = Tail(sb[b]) /\ b \in Bytes /\ sb[b] # << >> /\ Head(sb[b]) = s
    BY <1>2
  <2> QED BY <1>3, <2>1, TailProperties
<1>5. \A b \in Bytes \ bytes(s.ml) : sb2[b] = sb[b]
  OBVIOUS
<1>6. sb2 \in ByteBuffers
  BY <1>3, <1>4, <1>5 DEF ByteBuffers
<1> DEFINE Was(b, i) == IF b \in bytes(s.ml) THEN i + 1 ELSE i
           st2 == [b \in Bytes |-> [i \in Nat |-> st[b][Was(b, i)]]]
<1>7. \A b \in Bytes : \A i \in 1..Len(sb2[b]) :
        /\ Was(b, i) \in 1..Len(sb[b])
        /\ sb2[b][i] = sb[b][Was(b, i)]
        /\ st2[b][i] = st[b][Was(b, i)]
        /\ b \in bytes(s.ml) => 1 < Was(b, i)
  <2> SUFFICES ASSUME NEW b \in Bytes, NEW i \in 1..Len(sb2[b])
               PROVE  /\ Was(b, i) \in 1..Len(sb[b])
                      /\ sb2[b][i] = sb[b][Was(b, i)]
                      /\ st2[b][i] = st[b][Was(b, i)]
                      /\ b \in bytes(s.ml) => 1 < Was(b, i)
    OBVIOUS
  <2>1. CASE b \in bytes(s.ml)
    <3>1. Was(b, i) = i + 1
      BY <2>1
    <3>2. i \in 1..(Len(sb[b]) - 1) /\ Len(sb[b]) \in Nat
      BY <1>3, <1>4, <2>1
    <3> QED BY <1>4, <2>1, <3>1, <3>2
  <2>2. CASE b \notin bytes(s.ml)
    <3>1. Was(b, i) = i
      BY <2>2
    <3>2. sb2[b] = sb[b] /\ Len(sb[b]) \in Nat
      BY <1>3, <1>5, <2>2
    <3> QED BY <2>2, <3>1, <3>2
  <2> QED BY <2>1, <2>2, Zenon
<1>8. \A b \in Bytes : \A i, j \in 1..Len(sb2[b]) : i < j => Was(b, i) < Was(b, j)
  BY <1>3
<1>9. \A b \in Bytes : \A k \in 1..Len(sb[b]) : b \in bytes(s.ml) /\ k # 1 =>
        k - 1 \in 1..Len(sb2[b]) /\ Was(b, k - 1) = k
  BY <1>3, <1>4
<1>10. \A b \in Bytes : \A k \in 1..Len(sb[b]) : b \notin bytes(s.ml) =>
         k \in 1..Len(sb2[b]) /\ Was(b, k) = k
  BY <1>5
<1> HIDE DEF st2, Was
<1>11. ASSUME NEW b \in Bytes, NEW i \in 1..Len(sb2[b])
       PROVE  /\ st2[b][i] \in Nat /\ st2[b][i] < n
              /\ \A j \in 1..Len(sb2[b]) : i < j => st2[b][i] < st2[b][j]
              /\ b \in bytes(sb2[b][i].ml)
              /\ \A c \in bytes(sb2[b][i].ml) : \E j \in 1..Len(sb2[c]) :
                   st2[c][j] = st2[b][i] /\ sb2[c][j] = sb2[b][i]
  <2> DEFINE w == Was(b, i)
  <2>1. /\ w \in 1..Len(sb[b]) /\ sb2[b][i] = sb[b][w] /\ st2[b][i] = st[b][w]
        /\ b \in bytes(s.ml) => 1 < w
    BY <1>7
  <2> HIDE DEF w
  <2>2. /\ st[b][w] \in Nat /\ st[b][w] < n
        /\ b \in bytes(sb[b][w].ml)
    BY <1>1, <2>1 DEF Stamped
  <2>3. ASSUME NEW j \in 1..Len(sb2[b]), i < j
        PROVE  st2[b][i] < st2[b][j]
    <3>1. Was(b, j) \in 1..Len(sb[b]) /\ w < Was(b, j) /\ st2[b][j] = st[b][Was(b, j)]
      BY <1>7, <1>8, <2>3 DEF w
    <3>2. st[b][w] < st[b][Was(b, j)]
      BY <1>1, <2>1, <3>1, Zenon DEF Stamped
    <3> QED BY <2>1, <3>1, <3>2
  <2>4. ASSUME NEW c \in bytes(sb2[b][i].ml)
        PROVE  \E j \in 1..Len(sb2[c]) : st2[c][j] = st2[b][i] /\ sb2[c][j] = sb2[b][i]
    <3>1. c \in bytes(sb[b][w].ml) /\ c \in Bytes
      BY <2>1, Entries
    <3>2. PICK k \in 1..Len(sb[c]) : st[c][k] = st[b][w] /\ sb[c][k] = sb[b][w]
      BY <1>1, <2>1, <3>1, Zenon DEF Stamped
    <3>3. ASSUME c \in bytes(s.ml), k = 1
          PROVE  FALSE
      <4>1. sb[b][w] = s
        BY <1>4, <3>2, <3>3
      <4>2. b \in bytes(sb[b][w].ml)
        BY <1>1, <2>1 DEF Stamped
      <4>3. b \in bytes(s.ml) /\ 1 < w /\ 1 \in 1..Len(sb[b]) /\ sb[b][1] = s
        BY <1>4, <2>1, <4>1, <4>2
      <4>4. st[b][1] < st[b][w] /\ st[b][1] \in Nat /\ st[b][w] \in Nat
        BY <1>1, <2>1, <4>3, Zenon DEF Stamped
      <4>5. c \in bytes(sb[b][1].ml)
        BY <3>3, <4>3
      <4>6. PICK l \in 1..Len(sb[c]) : st[c][l] = st[b][1]
        BY <1>1, <4>3, <4>5 DEF Stamped
      <4>7. l = 1 \/ st[c][1] < st[c][l]
        <5>1. 1 \in 1..Len(sb[c])
          BY <3>3
        <5> QED BY <1>1, <3>1, <5>1 DEF Stamped
      <4> QED BY <3>2, <3>3, <4>4, <4>6, <4>7
    <3>4. PICK j \in 1..Len(sb2[c]) : Was(c, j) = k
      BY <1>9, <1>10, <3>1, <3>3, Zenon
    <3>5. sb2[c][j] = sb[c][k] /\ st2[c][j] = st[c][k]
      BY <1>7, <3>1, <3>4
    <3> QED BY <2>1, <3>2, <3>5, Zenon
  <2>5. st2[b][i] \in Nat /\ st2[b][i] < n /\ b \in bytes(sb2[b][i].ml)
    BY <2>1, <2>2
  <2> QED BY <2>3, <2>4, <2>5, Zenon
<1>12. n \in Nat
  BY <1>1 DEF Stamped
<1>13. Stamped(sb2, st2, n)
  BY <1>11, <1>12, Zenon DEF Stamped
<1> QED BY <1>6, <1>13, Zenon DEF WholeStores

-----------------------------------------------------------------------------
(* The invariant of the interpreter.                                       *)

(* The operands of the instruction that run() fetches.                     *)
LEMMA Operands ==
  ASSUME TypeOK, NEW t \in Threads
  PROVE  /\ I(t).op \in {"load", "store", "atomic"} => I(t).ml \in Locations
         /\ I(t).op \in {"store", "atomic"} => I(t).val \in Values
<1>1. CASE CurInst[t] <= Len(prog[t])
  <2>1. CurInst[t] \in 1..Len(prog[t])
    BY <1>1, ProgramAssumption DEF TypeOK
  <2>2. I(t) = prog[t][CurInst[t]]
    BY <1>1 DEF I
  <2> QED BY <2>1, <2>2, AccessAssumption DEF TypeOK
<1>2. CASE ~(CurInst[t] <= Len(prog[t]))
  BY <1>2 DEF I
<1> QED BY <1>1, <1>2

(* What visitStoreInst() appends.                                          *)
LEMMA StoreStep ==
  ASSUME Inv, NEW t \in Threads, visitStoreInst(t)
  PROVE  /\ store_buffers' \in [Threads -> ByteBuffers]
         /\ \A u \in Threads : WholeStores(store_buffers'[u])
<1> DEFINE s == [ml |-> I(t).ml, val |-> I(t).val]
           sb == store_buffers[t]
           sb2 == [b \in Bytes |-> IF b \in bytes(s.ml) THEN Append(sb[b], s) ELSE sb[b]]
<1>1. store_buffers \in [Threads -> ByteBuffers] /\ WholeStores(sb)
  BY DEF Inv, TypeOK, ByteBuffers
<1>2. s \in PendingStores
  BY Operands DEF Inv, visitStoreInst, Executes, PendingStores
<1>3. s.ml = I(t).ml
  OBVIOUS
<1>4. store_buffers' = [store_buffers EXCEPT ![t] = sb2]
  BY <1>3 DEF visitStoreInst
<1> HIDE DEF s
<1>5. sb2 \in ByteBuffers /\ WholeStores(sb2)
  BY <1>1, <1>2, StoreWhole
<1> HIDE DEF sb2
<1> QED BY <1>1, <1>4, <1>5 DEF Inv

(* What runAux() removes is a whole store.                                 *)
LEMMA UpdateStep ==
  ASSUME Inv, NEW t \in Threads, NEW b0 \in Bytes, runAux(t, b0)
  PROVE  LET s == Head(store_buffers[t][b0]) IN
         /\ s \in PendingStores
         /\ s.ml.addr = b0
         /\ \A b \in bytes(s.ml) :
              store_buffers[t][b] # << >> /\ Head(store_buffers[t][b]) = s
         /\ store_buffers' \in [Threads -> ByteBuffers]
         /\ \A u \in Threads : WholeStores(store_buffers'[u])
<1> DEFINE sb == store_buffers[t]
           s == Head(sb[b0])
           sb2 == [b \in Bytes |-> IF b \in bytes(s.ml) THEN Tail(sb[b]) ELSE sb[b]]
<1>1. store_buffers \in [Threads -> ByteBuffers] /\ WholeStores(sb) /\ sb \in ByteBuffers
  BY DEF Inv, TypeOK, ByteBuffers
<1>2. sb[b0] # << >> /\ \A b \in bytes(s.ml) \ {b0} : Head(sb[b]).ml.addr = b0
  BY DEF runAux, is_aux_at_head
<1>3. store_buffers' = [store_buffers EXCEPT ![t] = sb2]
  BY DEF runAux
<1> HIDE DEF sb
<1>4. /\ s \in PendingStores
      /\ s.ml.addr = b0
      /\ \A b \in bytes(s.ml) : sb[b] # << >> /\ Head(sb[b]) = s
  BY <1>1, <1>2, WholeHead
<1> HIDE DEF s
<1>5. sb2 \in ByteBuffers /\ WholeStores(sb2)
  BY <1>1, <1>4, UpdateWhole
<1> HIDE DEF sb2
<1>6. /\ store_buffers' \in [Threads -> ByteBuffers]
      /\ \A u \in Threads : WholeStores(store_buffers'[u])
  BY <1>1, <1>3, <1>5 DEF Inv
<1> QED BY <1>4, <1>6 DEF s, sb

(* Every action but a store and an update leaves the buffers alone.        *)
LEMMA NextInv ==
  ASSUME Inv, [Next]_vars
  PROVE  Inv'
<1>1. prog' = prog /\ CurInst' \in [Threads -> Nat \ {0}]
  <2>1. ASSUME NEW t \in Threads, Step(t) \/ Update(t)
        PROVE  prog' = prog /\ (CurInst' = CurInst \/ Advance(t))
    BY <2>1, Zenon DEF Step, Update, runAux, RefusedJoin, RefuseJoin, RefusedFull,
      RefusedPartial, visitLoadInst, visitStoreInst, visitAtomic, visitFenceInst,
      visitCall, visitReturnInst, callPthreadCreate, callPthreadJoin, callAssume,
      Return, Continue
  <2>2. CASE UNCHANGED vars
    BY <2>2 DEF vars, threadVars, Inv, TypeOK
  <2>3. ASSUME NEW t \in Threads, Advance(t)
        PROVE  CurInst' \in [Threads -> Nat \ {0}]
    BY <2>3 DEF Advance, Inv, TypeOK
  <2>4. CurInst \in [Threads -> Nat \ {0}]
    BY DEF Inv, TypeOK
  <2> QED BY <2>1, <2>2, <2>3, <2>4 DEF Next
<1>2. ASSUME store_buffers' \in [Threads -> ByteBuffers],
             \A t \in Threads : WholeStores(store_buffers'[t])
      PROVE  Inv'
  BY <1>1, <1>2 DEF Inv, TypeOK, ByteBuffers
<1>3. ASSUME UNCHANGED store_buffers
      PROVE  Inv'
  <2>1. /\ store_buffers \in [Threads -> ByteBuffers]
        /\ \A t \in Threads : WholeStores(store_buffers[t])
    BY DEF Inv, TypeOK, ByteBuffers
  <2> QED BY <1>2, <1>3, <2>1
<1>4. ASSUME NEW t \in Threads, Step(t), ~visitStoreInst(t)
      PROVE  UNCHANGED store_buffers
  BY <1>4 DEF Step, RefusedJoin, RefusedFull, RefusedPartial, visitLoadInst,
              visitAtomic, visitFenceInst, visitCall, visitReturnInst, memVars
<1>5. ASSUME NEW t \in Threads, visitStoreInst(t)
      PROVE  Inv'
  BY <1>2, <1>5, StoreStep
<1>6. ASSUME NEW t \in Threads, NEW b0 \in Bytes, runAux(t, b0)
      PROVE  Inv'
  BY <1>2, <1>6, UpdateStep
<1> QED BY <1>3, <1>4, <1>5, <1>6 DEF Next, Update, vars, memVars

-----------------------------------------------------------------------------
(* The theorems.                                                           *)

(* The invariant holds in every state of the interpreter.                  *)
THEOREM Invariance == Spec => []Inv
<1>1. ASSUME Init
      PROVE  Inv
  <2>1. \A t \in Threads : store_buffers[t] = [b \in Bytes |-> << >>]
    BY <1>1 DEF Init, NoStores
  <2>2. TypeOK
    BY <1>1, <2>1 DEF Init, ThreadInit, NoStores, TypeOK
  <2>3. ASSUME NEW t \in Threads
        PROVE  Stamped(store_buffers[t], << >>, 0)
    BY <2>1 DEF Stamped
  <2> QED BY <2>2, <2>3 DEF Inv, WholeStores
<1>2. Inv /\ [Next]_vars => Inv'
  BY NextInv
<1> QED BY <1>1, <1>2, PTL DEF Spec

(* For every program, the assertions of runAux() hold of any auxiliary     *)
(* thread that is_aux_at_head() lets schedule() pick.                      *)
THEOREM UpdatesAreWhole == Spec => []HeadIsWhole
<1>1. Inv => HeadIsWhole
  <2> SUFFICES ASSUME Inv, NEW t \in Threads, NEW b0 \in Bytes, is_aux_at_head(t, b0)
               PROVE  LET s == Head(store_buffers[t][b0]) IN
                      s.ml.addr = b0 /\ \A b \in bytes(s.ml) : Head(store_buffers[t][b]) = s
    BY DEF HeadIsWhole
  <2>1. store_buffers[t] \in ByteBuffers /\ WholeStores(store_buffers[t])
    BY DEF Inv, TypeOK, ByteBuffers
  <2>2. /\ store_buffers[t][b0] # << >>
        /\ \A b \in bytes(Head(store_buffers[t][b0]).ml) \ {b0} :
             Head(store_buffers[t][b]).ml.addr = b0
    BY DEF is_aux_at_head
  <2> QED BY <2>1, <2>2, WholeHead
<1> QED BY <1>1, Invariance, PTL

(* A load that is not refused reads in each byte what PSOMemory promises.  *)
LEMMA LoadSeen ==
  ASSUME NEW sb \in ByteBuffers, WholeStores(sb), NEW ml \in Locations,
         readable(sb, ml), NEW b \in bytes(ml)
  PROVE  sb[ml.addr] = << >> <=> sb[b] = << >>
<1>1. PICK st, n : Stamped(sb, st, n)
  BY DEF WholeStores
<1>2. bytes(ml) \subseteq Bytes /\ ml.addr \in bytes(ml)
  BY FirstByte, AccessAssumption
<1>3. ASSUME NEW c \in bytes(ml), sb[c] # << >>, NEW d \in bytes(ml)
      PROVE  sb[d] # << >>
  <2> DEFINE k == Len(sb[c])
  <2>1. k \in 1..Len(sb[c]) /\ c \in Bytes /\ d \in Bytes
    BY <1>2, <1>3, Entries
  <2>2. sb[c][k].ml = ml
    BY <1>3 DEF readable
  <2>3. d \in bytes(sb[c][k].ml)
    BY <2>2
  <2> HIDE DEF k
  <2>4. \E j \in 1..Len(sb[d]) : st[d][j] = st[c][k]
    BY <1>1, <2>1, <2>3 DEF Stamped
  <2>5. Len(sb[d]) # 0
    BY <2>4
  <2> QED BY <2>1, <2>5, Entries
<1> QED BY <1>2, <1>3

(* The steps of the interpreter are steps of PSOMemory, or leave the       *)
(* memory, the buffers and the results alone.                              *)
LEMMA NextRefines ==
  ASSUME Inv, [Next]_vars
  PROVE  [Promise!Next]_(Promise!vars)
<1>0. TypeOK /\ store_buffers \in [Threads -> ByteBuffers]
  BY DEF Inv, TypeOK, ByteBuffers
<1> SUFFICES ASSUME ~UNCHANGED <<mem, store_buffers, reg>>
             PROVE  Promise!Next
  BY DEF Promise!vars
<1>1. ASSUME NEW t \in Threads, visitLoadInst(t)
      PROVE  Promise!Load(t)
  <2> DEFINE ml == I(t).ml
             sb == store_buffers[t]
  <2>1. I(t).op = "load" /\ readable(sb, ml)
    BY <1>1 DEF visitLoadInst, Executes, Blocked, LoadBlocked
  <2>2. ml \in Locations
    BY <1>0, <2>1, Operands
  <2>3. sb \in ByteBuffers /\ WholeStores(sb)
    BY <1>0 DEF Inv
  <2>4. \A b \in bytes(ml) : sb[ml.addr] = << >> <=> sb[b] = << >>
    BY <2>1, <2>2, <2>3, LoadSeen
  <2>5. [b \in bytes(ml) |-> IF sb[ml.addr] # << >> THEN sb[b][Len(sb[b])].val ELSE mem[b]]
        = [b \in bytes(ml) |-> Promise!Seen(t, b)]
    BY <2>4 DEF Promise!Seen
  <2>6. reg' = [reg EXCEPT ![t] = [b \in bytes(ml) |-> Promise!Seen(t, b)]]
    BY <1>1, <2>5, Zenon DEF visitLoadInst
  <2>7. bytes(ml) = Promise!bytes(ml)
    BY DEF bytes, Promise!bytes
  <2> QED BY <1>1, <2>2, <2>6, <2>7 DEF Promise!Load, visitLoadInst
<1>2. ASSUME NEW t \in Threads, visitStoreInst(t)
      PROVE  Promise!Store(t)
  <2>1. I(t).ml \in Locations /\ I(t).val \in Values
    BY <1>0, <1>2, Operands DEF visitStoreInst, Executes
  <2>2. bytes(I(t).ml) = Promise!bytes(I(t).ml)
    BY DEF bytes, Promise!bytes
  <2> QED BY <1>2, <2>1, <2>2, Zenon DEF Promise!Store, visitStoreInst
<1>3. ASSUME NEW t \in Threads, visitAtomic(t)
      PROVE  Promise!AtomicStore(t)
  <2>1. I(t).ml \in Locations /\ I(t).val \in Values
    BY <1>0, <1>3, Operands DEF visitAtomic, Executes
  <2>2. \A b \in Bytes : store_buffers[t][b] = << >>
    BY <1>3 DEF visitAtomic, Executes, Blocked, FenceBlocked, isFence, all_buffers_empty
  <2>3. bytes(I(t).ml) = Promise!bytes(I(t).ml)
    BY DEF bytes, Promise!bytes
  <2> QED BY <1>3, <2>1, <2>2, <2>3 DEF Promise!AtomicStore, visitAtomic, Written
<1>4. ASSUME NEW t \in Threads, NEW b0 \in Bytes, runAux(t, b0)
      PROVE  Promise!Update(t)
  <2> DEFINE sb == store_buffers[t]
             s == Head(sb[b0])
  <2>1. /\ s \in PendingStores
        /\ \A b \in bytes(s.ml) : sb[b] # << >> /\ Head(sb[b]) = s
    BY <1>4, UpdateStep
  <2>2. /\ mem' = [b \in Bytes |-> IF b \in bytes(s.ml) THEN Head(sb[b]).val ELSE mem[b]]
        /\ store_buffers' = [store_buffers EXCEPT ![t] =
             [b \in Bytes |-> IF b \in bytes(s.ml) THEN Tail(sb[b]) ELSE sb[b]]]
        /\ reg' = reg
    BY <1>4, Zenon DEF runAux
  <2> HIDE DEF s
  <2>3. mem' = [b \in Bytes |-> IF b \in bytes(s.ml) THEN s.val ELSE mem[b]]
    BY <2>1, <2>2
  <2>4. s.ml \in Locations /\ s.val \in Values /\ s = [ml |-> s.ml, val |-> s.val]
    BY <2>1 DEF PendingStores
  <2>5. bytes(s.ml) = Promise!bytes(s.ml)
    BY DEF bytes, Promise!bytes
  <2> DEFINE ml == s.ml
             v == s.val
  <2>6. /\ \A b \in Promise!bytes(ml) : sb[b] # << >> /\ Head(sb[b]) = [ml |-> ml, val |-> v]
        /\ mem' = [b \in Bytes |-> IF b \in Promise!bytes(ml) THEN v ELSE mem[b]]
        /\ store_buffers' = [store_buffers EXCEPT ![t] =
             [b \in Bytes |-> IF b \in Promise!bytes(ml) THEN Tail(sb[b]) ELSE sb[b]]]
    BY <2>1, <2>2, <2>3, <2>4, <2>5
  <2>7. ml \in Locations /\ v \in Values
    BY <2>4
  <2> HIDE DEF ml, v
  <2> QED BY <2>2, <2>6, <2>7, Zenon DEF Promise!Update
<1>5. ASSUME NEW t \in Threads, Step(t)
      PROVE  visitLoadInst(t) \/ visitStoreInst(t) \/ visitAtomic(t)
  BY <1>5 DEF Step, RefusedJoin, RefusedFull, RefusedPartial, visitFenceInst,
              visitCall, visitReturnInst, memVars
<1>6. ~UNCHANGED vars
  BY DEF vars, memVars
<1> QED
  BY <1>1, <1>2, <1>3, <1>4, <1>5, <1>6 DEF Next, Update, Promise!Next

(* For every program, the interpreter implements byte-wise PSO memory.     *)
THEOREM Refinement == Spec => ImplementsPSO
<1>1. Init => Promise!Init
  BY DEF Init, NoStores, Promise!Init
<1>2. Inv /\ [Next]_vars => [Promise!Next]_(Promise!vars)
  BY NextRefines
<1> QED BY <1>1, <1>2, Invariance, PTL DEF Spec, ImplementsPSO, Promise!Spec

-----------------------------------------------------------------------------
(* Waking up: the rest of the interpreter's state.                         *)

(* The types of the flags by which threads are scheduled.                  *)
FlagsOK ==
  /\ stack \in [Threads -> {"unborn", "live", "empty"}]
  /\ AssumeBlocked \subseteq Threads
  /\ AwaitingJoin \in [Threads -> SUBSET Threads]
  /\ available \subseteq Threads
  /\ awaiting_buffer_flush \in [Threads -> {"NO", "FULL", "PARTIAL"}]
  /\ buffer_flush_ml = [t \in Threads |-> buffer_flush_ml[t]]

Born == {t \in Threads : stack[t] # "unborn"}

(* Only threads that were created are scheduled, wait or store.            *)
OnlyBorn ==
  /\ available \subseteq Born
  /\ \A a \in available_auxs : a[1] \in Born
  /\ \A t \in Threads : AwaitingJoin[t] \subseteq Born

(* What a thread that was refused waits for, and what will wake it: the    *)
(* end of the thread it joins, where it is registered, or the flush that   *)
(* the refused instruction needs.                                          *)
Waits(t) ==
  \/ /\ JoinBlocked(t) \/ AssumeJoinBlocked(t)
     /\ t \in AwaitingJoin[I(t).tid]
  \/ FenceBlocked(t) /\ awaiting_buffer_flush[t] = "FULL"
  \/ /\ LoadBlocked(t)
     /\ awaiting_buffer_flush[t] = "PARTIAL"
     /\ buffer_flush_ml[t] = I(t).ml

AllWait == \A t \in Threads : stack[t] = "live" /\ t \notin available => Waits(t)

WaitInv == FlagsOK /\ OnlyBorn /\ AllWait

(* The thread that a create or a join names is one of the program.         *)
LEMMA Named ==
  ASSUME TypeOK, NEW t \in Threads, I(t).op \in {"create", "join"}
  PROVE  I(t).tid \in Threads
<1>1. CurInst[t] \in 1..Len(prog[t]) /\ I(t) = prog[t][CurInst[t]]
  <2>1. CASE CurInst[t] <= Len(prog[t])
    BY <2>1, ProgramAssumption DEF TypeOK, I
  <2>2. CASE ~(CurInst[t] <= Len(prog[t]))
    BY <2>2 DEF I
  <2> QED BY <2>1, <2>2
<1> QED BY <1>1, ProgramAssumption DEF TypeOK

(* Every action keeps the types of the flags.                              *)
LEMMA NextFlagsOK ==
  ASSUME TypeOK, FlagsOK, [Next]_vars
  PROVE  FlagsOK'
<1>1. ASSUME NEW t \in Threads, RefusedJoin(t)
      PROVE  FlagsOK'
  <2>1. I(t).tid \in Threads
    BY <1>1, Named DEF RefusedJoin, JoinBlocked, AssumeJoinBlocked
  <2> QED
    BY <1>1, <2>1 DEF FlagsOK, RefusedJoin, RefuseJoin, Register, refuse_schedule, memVars
<1>2. ASSUME NEW t \in Threads, RefusedFull(t)
      PROVE  FlagsOK'
  BY <1>2 DEF FlagsOK, RefusedFull, refuse_schedule
<1>3. ASSUME NEW t \in Threads, RefusedPartial(t)
      PROVE  FlagsOK'
  BY <1>3 DEF FlagsOK, RefusedPartial, refuse_schedule
<1>4. ASSUME NEW t \in Threads, Continue(t),
             UNCHANGED <<awaiting_buffer_flush, buffer_flush_ml>>
      PROVE  FlagsOK'
  BY <1>4 DEF FlagsOK, Continue
<1>5. ASSUME NEW t \in Threads, visitLoadInst(t) \/ visitStoreInst(t) \/ visitAtomic(t)
                                \/ visitFenceInst(t)
      PROVE  FlagsOK'
  BY <1>4, <1>5 DEF visitLoadInst, visitStoreInst, visitAtomic, visitFenceInst, memVars
<1>6. ASSUME NEW t \in Threads, visitCall(t)
      PROVE  FlagsOK'
  <2>1. CASE callPthreadCreate(t)
    <3>1. I(t).tid \in Threads
      BY <2>1, Named DEF callPthreadCreate, Executes
    <3> QED
      BY <1>6, <2>1, <3>1 DEF FlagsOK, visitCall, callPthreadCreate, memVars
  <2>2. CASE callPthreadJoin(t)
    BY <1>6, <2>2 DEF FlagsOK, visitCall, callPthreadJoin, memVars
  <2>3. CASE callAssume(t)
    BY <1>6, <2>3 DEF FlagsOK, visitCall, callAssume, memVars
  <2> QED BY <1>6, <2>1, <2>2, <2>3 DEF visitCall
<1>7. ASSUME NEW t \in Threads, visitReturnInst(t)
      PROVE  FlagsOK'
  BY <1>7 DEF FlagsOK, visitReturnInst, Return, Ended, terminate, memVars
<1>8. ASSUME NEW t \in Threads, NEW b0 \in Bytes, runAux(t, b0)
      PROVE  FlagsOK'
  <2>1. awaiting_buffer_flush' \in [Threads -> {"NO", "FULL", "PARTIAL"}]
    BY <1>8 DEF FlagsOK, runAux
  <2>2. available' \subseteq available \cup AwaitingJoin[t] \cup {t}
    BY <1>8 DEF runAux, joinersWoken
  <2> QED
    BY <1>8, <2>1, <2>2 DEF FlagsOK, runAux
<1>9. ASSUME UNCHANGED vars
      PROVE  FlagsOK'
  BY <1>9 DEF FlagsOK, vars, threadVars, memVars
<1> QED
  BY <1>1, <1>2, <1>3, <1>5, <1>6, <1>7, <1>8, <1>9 DEF Next, Step, Update

(* Threads are scheduled, registered and given a buffer only once created. *)
LEMMA NextOnlyBorn ==
  ASSUME TypeOK, FlagsOK, OnlyBorn, [Next]_vars
  PROVE  OnlyBorn'
<1>1. ASSUME NEW t \in Threads, RefusedJoin(t)
      PROVE  OnlyBorn'
  <2>1. I(t).tid \in Threads
    BY <1>1, Named DEF RefusedJoin, JoinBlocked, AssumeJoinBlocked
  <2> QED
    BY <1>1, <2>1 DEF FlagsOK, OnlyBorn, Born, RefusedJoin, RefuseJoin,
                      Register, refuse_schedule, memVars
<1>2. ASSUME NEW t \in Threads, RefusedFull(t) \/ RefusedPartial(t)
      PROVE  OnlyBorn'
  BY <1>2 DEF OnlyBorn, Born, RefusedFull, RefusedPartial, refuse_schedule
<1>3. ASSUME NEW t \in Threads, visitLoadInst(t) \/ visitAtomic(t) \/ visitFenceInst(t)
      PROVE  OnlyBorn'
  BY <1>3 DEF OnlyBorn, Born, visitLoadInst, visitAtomic, visitFenceInst, Continue, memVars
<1>4. ASSUME NEW t \in Threads, visitStoreInst(t)
      PROVE  OnlyBorn'
  <2>1. t \in Born /\ Born' = Born
    BY <1>4 DEF OnlyBorn, Born, visitStoreInst, Executes, Continue
  <2>2. available_auxs' = available_auxs \cup {<<t, I(t).ml.addr>>}
    BY <1>4 DEF visitStoreInst
  <2>3. UNCHANGED <<available, AwaitingJoin>>
    BY <1>4 DEF visitStoreInst, Continue
  <2>4. \A a \in available_auxs' : a[1] \in Born
    BY <2>1, <2>2 DEF OnlyBorn
  <2> QED BY <2>1, <2>3, <2>4 DEF OnlyBorn
<1>5. ASSUME NEW t \in Threads, visitCall(t)
      PROVE  OnlyBorn'
  <2>1. CASE callPthreadCreate(t)
    <3>1. I(t).tid \in Threads
      BY <2>1, Named DEF callPthreadCreate, Executes
    <3> QED
      BY <1>5, <2>1, <3>1 DEF FlagsOK, OnlyBorn, Born, visitCall,
                              callPthreadCreate, memVars
  <2>2. CASE callPthreadJoin(t)
    BY <1>5, <2>2 DEF OnlyBorn, Born, visitCall, callPthreadJoin, memVars
  <2>3. CASE callAssume(t)
    BY <1>5, <2>3 DEF FlagsOK, OnlyBorn, Born, visitCall, callAssume, memVars
  <2> QED BY <1>5, <2>1, <2>2, <2>3 DEF visitCall
<1>6. ASSUME NEW t \in Threads, visitReturnInst(t)
      PROVE  OnlyBorn'
  BY <1>6 DEF FlagsOK, OnlyBorn, Born, visitReturnInst, Return, Ended,
              terminate, memVars
<1>7. ASSUME NEW t \in Threads, NEW b0 \in Bytes, runAux(t, b0)
      PROVE  OnlyBorn'
  <2>1. available' \subseteq available \cup AwaitingJoin[t] \cup {t}
    BY <1>7 DEF runAux, joinersWoken
  <2>2. available_auxs' \subseteq available_auxs /\ <<t, b0>> \in available_auxs
    BY <1>7 DEF runAux
  <2>3. t \in Born
    BY <2>2 DEF OnlyBorn
  <2>4. UNCHANGED <<stack, AwaitingJoin>>
    BY <1>7 DEF runAux
  <2> QED BY <2>1, <2>2, <2>3, <2>4 DEF OnlyBorn, Born
<1>8. ASSUME UNCHANGED vars
      PROVE  OnlyBorn'
  BY <1>8 DEF OnlyBorn, Born, vars, threadVars, memVars
<1> QED
  BY <1>1, <1>2, <1>3, <1>4, <1>5, <1>6, <1>7, <1>8 DEF Next, Step, Update

(* A thread waits on as long as its instruction, its buffers and what it   *)
(* awaits stay what they are and the thread it joins does not end.         *)
LEMMA StaysWaiting ==
  ASSUME TypeOK, NEW t \in Threads, Waits(t),
         prog' = prog, CurInst'[t] = CurInst[t],
         store_buffers'[t] = store_buffers[t],
         awaiting_buffer_flush'[t] = awaiting_buffer_flush[t],
         buffer_flush_ml'[t] = buffer_flush_ml[t],
         AssumeBlocked \subseteq AssumeBlocked',
         \A u \in Threads : t \in AwaitingJoin[u] =>
           /\ t \in AwaitingJoin'[u]
           /\ stack[u] = "live" \/ ~all_buffers_empty(store_buffers[u]) =>
                \/ stack'[u] = "live" \/ ~all_buffers_empty(store_buffers'[u])
                \/ u \in AssumeBlocked'
  PROVE  Waits(t)'
<1>1. I(t)' = I(t)
  BY DEF I
<1>2. CASE (JoinBlocked(t) \/ AssumeJoinBlocked(t)) /\ t \in AwaitingJoin[I(t).tid]
  <2>1. I(t).op = "join" /\ I(t).tid \in Threads
    BY <1>2, Named DEF JoinBlocked, AssumeJoinBlocked
  <2>2. t \in AwaitingJoin'[I(t).tid]
    BY <1>2, <2>1
  <2>3. JoinBlocked(t)' \/ AssumeJoinBlocked(t)'
    BY <1>1, <1>2, <2>1 DEF JoinBlocked, AssumeJoinBlocked
  <2> QED BY <1>1, <2>2, <2>3 DEF Waits
<1>3. CASE FenceBlocked(t) /\ awaiting_buffer_flush[t] = "FULL"
  BY <1>1, <1>3 DEF Waits, FenceBlocked
<1>4. CASE LoadBlocked(t) /\ awaiting_buffer_flush[t] = "PARTIAL" /\ buffer_flush_ml[t] = I(t).ml
  BY <1>1, <1>4 DEF Waits, LoadBlocked
<1> QED BY <1>2, <1>3, <1>4 DEF Waits

(* A refusal leaves its thread with a reason to wait.                      *)
LEMMA RefusedWaits ==
  ASSUME TypeOK, FlagsOK, NEW t \in Threads,
         RefusedJoin(t) \/ RefusedFull(t) \/ RefusedPartial(t)
  PROVE  Waits(t)'
<1>1. CASE RefusedJoin(t)
  <2>1. I(t)' = I(t)
    BY <1>1 DEF RefusedJoin, RefuseJoin, I
  <2>2. I(t).op = "join" /\ I(t).tid \in Threads
    BY <1>1, Named DEF RefusedJoin, JoinBlocked, AssumeJoinBlocked
  <2>3. t \in AwaitingJoin'[I(t).tid]
    BY <1>1, <2>2 DEF FlagsOK, RefusedJoin, RefuseJoin, Register
  <2>4. JoinBlocked(t)' \/ AssumeJoinBlocked(t)'
    BY <1>1, <2>1 DEF RefusedJoin, RefuseJoin, JoinBlocked, AssumeJoinBlocked, memVars
  <2> QED BY <2>1, <2>3, <2>4 DEF Waits
<1>2. CASE RefusedFull(t)
  <2>1. I(t)' = I(t) /\ store_buffers' = store_buffers /\ FenceBlocked(t)
    BY <1>2 DEF RefusedFull, I
  <2>2. awaiting_buffer_flush'[t] = "FULL"
    BY <1>2 DEF FlagsOK, RefusedFull
  <2> QED BY <2>1, <2>2 DEF Waits, FenceBlocked
<1>3. CASE RefusedPartial(t)
  <2>1. I(t)' = I(t) /\ store_buffers' = store_buffers /\ LoadBlocked(t)
    BY <1>3 DEF RefusedPartial, I
  <2>2. awaiting_buffer_flush'[t] = "PARTIAL"
    BY <1>3 DEF FlagsOK, RefusedPartial
  <2>3. buffer_flush_ml'[t] = I(t).ml
    BY <1>3 DEF FlagsOK, RefusedPartial
  <2> QED BY <2>1, <2>2, <2>3 DEF Waits, LoadBlocked
<1> QED BY <1>1, <1>2, <1>3

(* visitStoreInst() changes the buffers of one thread, and empties none.   *)
LEMMA StoreBuffers ==
  ASSUME TypeOK, NEW t \in Threads, visitStoreInst(t)
  PROVE  /\ ~all_buffers_empty(store_buffers'[t])
         /\ \A u \in Threads \ {t} : store_buffers'[u] = store_buffers[u]
<1> DEFINE s == [ml |-> I(t).ml, val |-> I(t).val]
           sb == store_buffers[t]
           a == I(t).ml.addr
<1>1. s \in PendingStores /\ I(t).ml \in Locations
  BY Operands DEF visitStoreInst, Executes, PendingStores
<1>2. a \in bytes(I(t).ml) /\ a \in Bytes
  BY <1>1, FirstByte, AccessAssumption
<1>3. store_buffers' = [store_buffers EXCEPT ![t] =
        [b \in Bytes |-> IF b \in bytes(I(t).ml) THEN Append(sb[b], s) ELSE sb[b]]]
  BY DEF visitStoreInst
<1> HIDE DEF s, a
<1>4. store_buffers'[t][a] = Append(sb[a], s) /\ sb[a] \in Seq(PendingStores)
  BY <1>2, <1>3 DEF TypeOK
<1>5. Append(sb[a], s) # << >>
  BY <1>1, <1>4, AppendProperties
<1> QED BY <1>2, <1>3, <1>4, <1>5 DEF TypeOK, all_buffers_empty

(* runAux() changes the buffers of one thread, at the bytes of its store.  *)
LEMMA UpdateBuffers ==
  ASSUME TypeOK, NEW t \in Threads, NEW b0 \in Bytes, runAux(t, b0)
  PROVE  LET ml == Head(store_buffers[t][b0]).ml IN
         /\ \A u \in Threads \ {t} : store_buffers'[u] = store_buffers[u]
         /\ store_buffers'[t] = [b \in Bytes |-> IF b \in bytes(ml) THEN Tail(store_buffers[t][b])
                                                 ELSE store_buffers[t][b]]
         /\ \A b \in Bytes \ bytes(ml) : store_buffers'[t][b] = store_buffers[t][b]
         /\ awaiting_buffer_flush' =
              [awaiting_buffer_flush EXCEPT ![t] =
                 IF Flushed(t, ml, store_buffers'[t]) THEN "NO" ELSE @]
         /\ available' = available \cup joinersWoken(t, store_buffers'[t])
                           \cup (IF Flushed(t, ml, store_buffers'[t]) THEN {t} ELSE {})
<1> DEFINE ml == Head(store_buffers[t][b0]).ml
           sb == [b \in Bytes |-> IF b \in bytes(ml) THEN Tail(store_buffers[t][b])
                                  ELSE store_buffers[t][b]]
<1>1. /\ store_buffers' = [store_buffers EXCEPT ![t] = sb]
      /\ awaiting_buffer_flush' =
           [awaiting_buffer_flush EXCEPT ![t] = IF Flushed(t, ml, sb) THEN "NO" ELSE @]
      /\ available' = available \cup joinersWoken(t, sb)
                        \cup (IF Flushed(t, ml, sb) THEN {t} ELSE {})
  BY DEF runAux
<1>2. \A b \in Bytes \ bytes(ml) : sb[b] = store_buffers[t][b]
  OBVIOUS
<1>3. sb = [b \in Bytes |-> IF b \in bytes(ml) THEN Tail(store_buffers[t][b])
                            ELSE store_buffers[t][b]]
  OBVIOUS
<1> HIDE DEF ml, sb
<1>4. store_buffers'[t] = sb /\ \A u \in Threads \ {t} : store_buffers'[u] = store_buffers[u]
  BY <1>1 DEF TypeOK
<1> QED BY <1>1, <1>2, <1>3, <1>4, Zenon DEF ml

(* An update of bytes that a load does not access leaves it unreadable.    *)
LEMMA StaysUnreadable ==
  ASSUME NEW ml \in Locations, NEW sb, NEW sb2,
         \A b \in bytes(ml) : sb2[b] = sb[b], ~readable(sb, ml)
  PROVE  ~readable(sb2, ml)
BY DEF readable

(* runAux() of a waiting thread wakes it, or leaves it waiting.            *)
LEMMA UpdateWaits ==
  ASSUME TypeOK, FlagsOK, NEW t \in Threads, Waits(t), stack[t] = "live",
         NEW b0 \in Bytes, runAux(t, b0), t \notin available'
  PROVE  Waits(t)'
<1> DEFINE ml == Head(store_buffers[t][b0]).ml
           sb == store_buffers'[t]
<1>1. I(t)' = I(t)
  BY DEF runAux, I
<1>2. /\ \A u \in Threads \ {t} : store_buffers'[u] = store_buffers[u]
      /\ \A b \in Bytes \ bytes(ml) : sb[b] = store_buffers[t][b]
      /\ awaiting_buffer_flush' =
           [awaiting_buffer_flush EXCEPT ![t] = IF Flushed(t, ml, sb) THEN "NO" ELSE @]
      /\ available' = available \cup joinersWoken(t, sb)
                        \cup (IF Flushed(t, ml, sb) THEN {t} ELSE {})
  BY UpdateBuffers, Zenon
<1> HIDE DEF ml
<1>3. ~Flushed(t, ml, sb) /\ awaiting_buffer_flush'[t] = awaiting_buffer_flush[t]
  BY <1>2 DEF FlagsOK
<1>4. CASE (JoinBlocked(t) \/ AssumeJoinBlocked(t)) /\ t \in AwaitingJoin[I(t).tid]
  <2>1. I(t).tid \in Threads
    BY <1>4, Named DEF JoinBlocked, AssumeJoinBlocked
  <2>2. stack' = stack /\ AssumeBlocked' = AssumeBlocked /\ AwaitingJoin' = AwaitingJoin
    BY Zenon DEF runAux
  <2>3. JoinBlocked(t)' \/ AssumeJoinBlocked(t)'
    BY <1>1, <1>2, <1>4, <2>1, <2>2 DEF JoinBlocked, AssumeJoinBlocked
  <2> QED BY <1>1, <1>4, <2>2, <2>3 DEF Waits
<1>5. CASE FenceBlocked(t) /\ awaiting_buffer_flush[t] = "FULL"
  <2>1. ~all_buffers_empty(sb)
    BY <1>3, <1>5 DEF Flushed
  <2> QED BY <1>1, <1>3, <1>5, <2>1, Zenon DEF Waits, FenceBlocked
<1>6. CASE LoadBlocked(t) /\ awaiting_buffer_flush[t] = "PARTIAL" /\ buffer_flush_ml[t] = I(t).ml
  <2>1. I(t).op = "load" /\ I(t).ml \in Locations /\ bytes(I(t).ml) \subseteq Bytes
    BY <1>6, Operands, AccessAssumption, Zenon DEF LoadBlocked
  <2>2. ~readable(store_buffers[t], I(t).ml)
    BY <1>6 DEF LoadBlocked
  <2>3. ~readable(sb, I(t).ml)
    <3>1. CASE overlaps(ml, I(t).ml)
      BY <1>3, <1>6, <3>1 DEF Flushed
    <3>2. CASE ~overlaps(ml, I(t).ml)
      <4>1. \A b \in bytes(I(t).ml) : sb[b] = store_buffers[t][b]
        BY <1>2, <2>1, <3>2 DEF overlaps
      <4> QED BY <2>1, <2>2, <4>1, StaysUnreadable
    <3> QED BY <3>1, <3>2
  <2>4. LoadBlocked(t)'
    BY <1>1, <2>1, <2>3 DEF LoadBlocked
  <2>5. buffer_flush_ml' = buffer_flush_ml
    BY DEF runAux
  <2> QED BY <1>1, <1>3, <1>6, <2>4, <2>5, Zenon DEF Waits
<1> QED BY <1>4, <1>5, <1>6 DEF Waits

(* A step of another thread u leaves t waiting, or wakes it.               *)
LEMMA OtherStepWaits ==
  ASSUME TypeOK, FlagsOK, NEW t \in Threads, NEW u \in Threads \ {t}, Step(u),
         Waits(t), t \notin available'
  PROVE  Waits(t)'
<1>1. CASE RefusedJoin(u)
  <2>1. I(u).tid \in Threads
    BY <1>1, Named DEF RefusedJoin, JoinBlocked, AssumeJoinBlocked
  <2>2. \A v \in Threads : AwaitingJoin[v] \subseteq AwaitingJoin'[v]
    BY <1>1, <2>1 DEF FlagsOK, RefusedJoin, RefuseJoin, Register
  <2> QED BY <1>1, <2>2, StaysWaiting DEF RefusedJoin, RefuseJoin, memVars
<1>2. CASE RefusedFull(u)
  <2>1. awaiting_buffer_flush'[t] = awaiting_buffer_flush[t]
    BY <1>2 DEF FlagsOK, RefusedFull
  <2> QED BY <1>2, <2>1, StaysWaiting DEF RefusedFull
<1>3. CASE RefusedPartial(u)
  <2>1. awaiting_buffer_flush'[t] = awaiting_buffer_flush[t]
    BY <1>3 DEF FlagsOK, RefusedPartial
  <2>2. buffer_flush_ml'[t] = buffer_flush_ml[t]
    BY <1>3 DEF FlagsOK, RefusedPartial
  <2> QED BY <1>3, <2>1, <2>2, StaysWaiting DEF RefusedPartial
<1>4. ASSUME Continue(u), store_buffers'[t] = store_buffers[t],
             UNCHANGED <<awaiting_buffer_flush, buffer_flush_ml>>,
             \A v \in Threads : ~all_buffers_empty(store_buffers[v]) =>
                                  ~all_buffers_empty(store_buffers'[v])
      PROVE  Waits(t)'
  <2>1. CurInst'[t] = CurInst[t]
    BY <1>4 DEF TypeOK, Continue, Advance
  <2> QED BY <1>4, <2>1, StaysWaiting DEF Continue
<1>5. CASE visitLoadInst(u)
  BY <1>4, <1>5 DEF visitLoadInst
<1>6. CASE visitStoreInst(u)
  <2>1. /\ ~all_buffers_empty(store_buffers'[u])
        /\ \A v \in Threads \ {u} : store_buffers'[v] = store_buffers[v]
    BY <1>6, StoreBuffers
  <2> QED BY <1>4, <1>6, <2>1, Zenon DEF visitStoreInst
<1>7. CASE visitAtomic(u)
  BY <1>4, <1>7 DEF visitAtomic
<1>8. CASE visitFenceInst(u)
  BY <1>4, <1>8 DEF visitFenceInst, memVars
<1>9. CASE visitCall(u)
  <2>1. CASE callPthreadCreate(u)
    <3>1. I(u).tid \in Threads
      BY <2>1, Named DEF callPthreadCreate, Executes
    <3>2. \A v \in Threads : stack[v] = "live" => stack'[v] = "live"
      BY <2>1, <3>1 DEF FlagsOK, callPthreadCreate
    <3>3. CurInst'[t] = CurInst[t]
      BY <2>1 DEF TypeOK, callPthreadCreate, Advance
    <3> QED
      BY <1>9, <2>1, <3>2, <3>3, StaysWaiting DEF visitCall, callPthreadCreate, memVars
  <2>2. CASE callPthreadJoin(u)
    <3>1. CurInst'[t] = CurInst[t]
      BY <2>2 DEF TypeOK, callPthreadJoin, Advance
    <3> QED BY <1>9, <2>2, <3>1, StaysWaiting DEF visitCall, callPthreadJoin, memVars
  <2>3. CASE callAssume(u)
    <3>1. /\ \A v \in Threads \ {u} : stack'[v] = stack[v]
          /\ u \in AssumeBlocked'
      BY <2>3 DEF FlagsOK, callAssume
    <3> QED BY <1>9, <2>3, <3>1, StaysWaiting DEF visitCall, callAssume, memVars
  <2> QED BY <1>9, <2>1, <2>2, <2>3 DEF visitCall
<1>10. CASE visitReturnInst(u)
  <2>1. \A v \in Threads \ {u} : stack'[v] = stack[v]
    BY <1>10 DEF FlagsOK, visitReturnInst, Return
  <2>2. t \in AwaitingJoin[u] => ~all_buffers_empty(store_buffers[u])
    BY <1>10 DEF visitReturnInst, Return, Ended, terminate
  <2> QED BY <1>10, <2>1, <2>2, StaysWaiting DEF visitReturnInst, Return, memVars
<1> QED BY <1>1, <1>2, <1>3, <1>5, <1>6, <1>7, <1>8, <1>9, <1>10 DEF Step

(* An update of a buffer of another thread u leaves t waiting, or wakes    *)
(* it: the last one of an ended thread wakes those that join it.           *)
LEMMA OtherUpdateWaits ==
  ASSUME TypeOK, FlagsOK, OnlyBorn, NEW t \in Threads, NEW u \in Threads \ {t},
         NEW b0 \in Bytes, runAux(u, b0), Waits(t), t \notin available'
  PROVE  Waits(t)'
<1> DEFINE ml == Head(store_buffers[u][b0]).ml
<1>1. /\ \A v \in Threads \ {u} : store_buffers'[v] = store_buffers[v]
      /\ awaiting_buffer_flush' =
           [awaiting_buffer_flush EXCEPT ![u] =
              IF Flushed(u, ml, store_buffers'[u]) THEN "NO" ELSE @]
      /\ available' = available \cup joinersWoken(u, store_buffers'[u])
                        \cup (IF Flushed(u, ml, store_buffers'[u]) THEN {u} ELSE {})
  BY UpdateBuffers, Zenon
<1> HIDE DEF ml
<1>2. awaiting_buffer_flush'[t] = awaiting_buffer_flush[t]
  BY <1>1 DEF FlagsOK
<1>3. stack[u] = "live" \/ stack[u] = "empty"
  BY DEF FlagsOK, OnlyBorn, Born, runAux
<1>4. t \in AwaitingJoin[u] => stack[u] = "live" \/ ~all_buffers_empty(store_buffers'[u])
  BY <1>1, <1>3 DEF joinersWoken
<1>5. /\ UNCHANGED <<prog, CurInst, stack, AssumeBlocked, AwaitingJoin, buffer_flush_ml>>
  BY DEF runAux
<1> QED BY <1>1, <1>2, <1>4, <1>5, StaysWaiting

(* No action leaves an unavailable live thread without a reason to wait.   *)
LEMMA NextAllWait ==
  ASSUME TypeOK, WaitInv, [Next]_vars
  PROVE  AllWait'
<1>0. FlagsOK /\ OnlyBorn /\ AllWait
  BY DEF WaitInv
<1> SUFFICES ASSUME NEW t \in Threads, stack'[t] = "live", t \notin available'
             PROVE  Waits(t)'
  BY DEF AllWait
<1>1. ASSUME NEW u \in Threads, NEW b0 \in Bytes, runAux(u, b0)
      PROVE  stack[t] = "live" /\ t \notin available
  BY <1>1, Zenon DEF runAux
<1>2. ASSUME NEW u \in Threads, Step(u), u # t
      PROVE  stack[t] = "live" /\ t \notin available
  <2>1. CASE ~visitCall(u)
    BY <1>0, <1>2, <2>1, Zenon DEF FlagsOK, Step, RefusedJoin, RefuseJoin, RefusedFull,
      RefusedPartial, refuse_schedule, visitLoadInst, visitStoreInst, visitAtomic,
      visitFenceInst, visitReturnInst, Return, Ended, Continue
  <2>2. CASE visitCall(u)
    <3>1. CASE callPthreadCreate(u)
      <4>1. I(u).tid \in Threads
        BY <3>1, Named DEF callPthreadCreate, Executes
      <4> QED BY <1>0, <3>1, <4>1 DEF FlagsOK, callPthreadCreate
    <3>2. CASE callPthreadJoin(u)
      BY <3>2 DEF callPthreadJoin
    <3>3. CASE callAssume(u)
      BY <1>0, <1>2, <3>3 DEF FlagsOK, callAssume
    <3> QED BY <2>2, <3>1, <3>2, <3>3 DEF visitCall
  <2> QED BY <2>1, <2>2
<1>3. ASSUME NEW u \in Threads, u # t, Step(u)
      PROVE  Waits(t)'
  <2>1. Waits(t)
    BY <1>0, <1>2, <1>3 DEF AllWait
  <2> QED BY <1>0, <1>3, <2>1, OtherStepWaits
<1>4. ASSUME NEW u \in Threads, NEW b0 \in Bytes, runAux(u, b0)
      PROVE  Waits(t)'
  <2>1. stack[t] = "live" /\ Waits(t)
    BY <1>0, <1>1, <1>4 DEF AllWait
  <2>2. CASE u = t
    BY <1>0, <1>4, <2>1, <2>2, UpdateWaits
  <2>3. CASE u # t
    BY <1>0, <1>4, <2>1, <2>3, OtherUpdateWaits
  <2> QED BY <2>2, <2>3
<1>5. CASE Step(t)
  <2>1. CASE RefusedJoin(t) \/ RefusedFull(t) \/ RefusedPartial(t)
    BY <1>0, <2>1, RefusedWaits
  <2>2. CASE visitLoadInst(t) \/ visitStoreInst(t) \/ visitAtomic(t) \/ visitFenceInst(t)
    BY <2>2 DEF visitLoadInst, visitStoreInst, visitAtomic, visitFenceInst,
                Executes, Continue
  <2>3. CASE visitCall(t)
    BY <1>0, <2>3 DEF FlagsOK, visitCall, callPthreadCreate, callPthreadJoin,
                      callAssume, Executes
  <2>4. CASE visitReturnInst(t)
    BY <1>0, <2>4 DEF FlagsOK, visitReturnInst, Return
  <2> QED BY <1>5, <2>1, <2>2, <2>3, <2>4 DEF Step
<1>6. CASE UNCHANGED vars
  <2>1. stack[t] = "live" /\ t \notin available
    BY <1>6 DEF vars, threadVars
  <2>2. Waits(t)
    BY <1>0, <2>1 DEF AllWait
  <2> QED BY <1>6, <2>2, StaysWaiting DEF vars, threadVars, memVars
<1> QED BY <1>3, <1>4, <1>5, <1>6 DEF Next, Update

(* The invariant of the flags holds in every state of the interpreter.     *)
THEOREM WaitInvariance == Spec => []WaitInv
<1>1. Init => WaitInv
  BY ProgramAssumption DEF Init, ThreadInit, WaitInv, FlagsOK, OnlyBorn, Born, AllWait
<1>2. Inv /\ WaitInv /\ [Next]_vars => WaitInv'
  BY NextFlagsOK, NextOnlyBorn, NextAllWait DEF Inv, WaitInv
<1> QED BY <1>1, <1>2, Invariance, PTL DEF Spec

(* A live thread that may not be scheduled could not run.                  *)
NoMissedWakeup ==
  \A t \in Threads : stack[t] = "live" /\ t \notin available => Blocked(t)

(* For every program and any number of threads, a live thread that may not *)
(* be scheduled is blocked: checkRefuse() would still refuse it.           *)
THEOREM NoWakeupIsMissed == Spec => []NoMissedWakeup
<1>1. WaitInv => NoMissedWakeup
  BY DEF WaitInv, AllWait, Waits, NoMissedWakeup, Blocked
<1> QED BY <1>1, WaitInvariance, PTL

-----------------------------------------------------------------------------
(* The end of an execution.  atomic_store() makes an auxiliary thread      *)
(* unavailable when the buffer of any byte of its store becomes empty,     *)
(* which is right as long as a thread's stores to an address all have the  *)
(* same size: then nothing that begins there is pending any more.          *)

Uniform(p) ==
  \A t \in Threads : \A i, j \in 1..Len(p[t]) :
    p[t][i].op = "store" /\ p[t][j].op = "store" /\ p[t][i].ml.addr = p[t][j].ml.addr
      => p[t][i].ml = p[t][j].ml

IssuedBy(p, t, s) ==
  \E k \in 1..Len(p[t]) : p[t][k].op = "store" /\ p[t][k].ml = s.ml

(* A pending store was issued by an instruction of its thread, and the     *)
(* auxiliary thread that has to update it is among auxs.                   *)
Served(p, auxs, t, s) == IssuedBy(p, t, s) /\ (Uniform(p) => <<t, s.ml.addr>> \in auxs)

AuxInv ==
  \A t \in Threads : \A b \in Bytes : \A i \in 1..Len(store_buffers[t][b]) :
    Served(prog, available_auxs, t, store_buffers[t][b][i])

(* Two stores that a thread of a uniform program issued to one address.    *)
LEMMA SameLocation ==
  ASSUME NEW p, Uniform(p), NEW t \in Threads, NEW s, NEW e,
         IssuedBy(p, t, s), IssuedBy(p, t, e), s.ml.addr = e.ml.addr
  PROVE  s.ml = e.ml
<1>1. PICK i \in 1..Len(p[t]) : p[t][i].op = "store" /\ p[t][i].ml = s.ml
  BY DEF IssuedBy
<1>2. PICK j \in 1..Len(p[t]) : p[t][j].op = "store" /\ p[t][j].ml = e.ml
  BY DEF IssuedBy
<1> QED BY <1>1, <1>2 DEF Uniform

(* visitStoreInst() makes the auxiliary thread of the new store available. *)
LEMMA StoreServed ==
  ASSUME TypeOK, AuxInv, NEW t \in Threads, visitStoreInst(t)
  PROVE  AuxInv'
<1> DEFINE s == [ml |-> I(t).ml, val |-> I(t).val]
           sb == store_buffers[t]
<1>1. prog' = prog /\ available_auxs' = available_auxs \cup {<<t, I(t).ml.addr>>}
  BY DEF visitStoreInst, Continue
<1>2. \A u, e : Served(prog, available_auxs, u, e) => Served(prog', available_auxs', u, e)
  BY <1>1 DEF Served, IssuedBy, Uniform
<1>3. s.ml = I(t).ml /\ s \in PendingStores
  BY Operands DEF visitStoreInst, Executes, PendingStores
<1>4. store_buffers' = [store_buffers EXCEPT ![t] =
        [b \in Bytes |-> IF b \in bytes(I(t).ml) THEN Append(sb[b], s) ELSE sb[b]]]
  BY DEF visitStoreInst
<1> HIDE DEF s
<1>5. Served(prog', available_auxs', t, s)
  <2>1. CurInst[t] \in 1..Len(prog[t]) /\ I(t) = prog[t][CurInst[t]] /\ I(t).op = "store"
    <3>1. I(t).op = "store"
      BY DEF visitStoreInst, Executes
    <3>2. CASE CurInst[t] <= Len(prog[t])
      BY <3>1, <3>2, ProgramAssumption DEF TypeOK, I
    <3>3. CASE ~(CurInst[t] <= Len(prog[t]))
      BY <3>1, <3>3 DEF I
    <3> QED BY <3>2, <3>3
  <2>2. IssuedBy(prog', t, s)
    BY <1>1, <1>3, <2>1 DEF IssuedBy
  <2> QED BY <1>1, <1>3, <2>2 DEF Served
<1>6. ASSUME NEW u \in Threads, NEW b \in Bytes, NEW i \in 1..Len(store_buffers'[u][b])
      PROVE  Served(prog', available_auxs', u, store_buffers'[u][b][i])
  <2>1. CASE u = t /\ b \in bytes(I(t).ml)
    <3>1. store_buffers'[u][b] = Append(sb[b], s) /\ sb[b] \in Seq(PendingStores)
      BY <1>4, <2>1 DEF TypeOK
    <3>2. /\ Len(Append(sb[b], s)) = Len(sb[b]) + 1 /\ Len(sb[b]) \in Nat
          /\ \A k \in 1..Len(sb[b]) : Append(sb[b], s)[k] = sb[b][k]
          /\ Append(sb[b], s)[Len(sb[b]) + 1] = s
      BY <1>3, <3>1, AppendProperties
    <3>3. store_buffers'[u][b][i] = s \/ (i \in 1..Len(sb[b]) /\ store_buffers'[u][b][i] = sb[b][i])
      BY <3>1, <3>2
    <3>4. i \in 1..Len(sb[b]) => Served(prog, available_auxs, t, sb[b][i])
      BY DEF AuxInv
    <3> QED BY <1>2, <1>5, <2>1, <3>3, <3>4
  <2>2. CASE ~(u = t /\ b \in bytes(I(t).ml))
    <3>1. store_buffers'[u][b] = store_buffers[u][b]
      BY <1>4, <2>2 DEF TypeOK
    <3>2. Served(prog, available_auxs, u, store_buffers[u][b][i])
      BY <3>1 DEF AuxInv
    <3> QED BY <1>2, <3>1, <3>2
  <2> QED BY <2>1, <2>2
<1> QED BY <1>6 DEF AuxInv

(* runAux() makes its auxiliary thread unavailable only when no store that *)
(* begins at its address is left.                                          *)
LEMMA UpdateServed ==
  ASSUME Inv, Inv', AuxInv, NEW t \in Threads, NEW b0 \in Bytes, runAux(t, b0)
  PROVE  AuxInv'
<1> DEFINE sb == store_buffers[t]
           s == Head(sb[b0])
           sb2 == store_buffers'[t]
<1>1. /\ s \in PendingStores /\ s.ml.addr = b0
      /\ \A b \in bytes(s.ml) : sb[b] # << >> /\ Head(sb[b]) = s
  BY UpdateStep
<1>2. TypeOK /\ sb \in ByteBuffers /\ sb2 \in ByteBuffers /\ WholeStores(sb2)
  BY DEF Inv, TypeOK, ByteBuffers
<1>3. /\ \A u \in Threads \ {t} : store_buffers'[u] = store_buffers[u]
      /\ \A b \in Bytes : sb2[b] = IF b \in bytes(s.ml) THEN Tail(sb[b]) ELSE sb[b]
  <2>1. /\ \A u \in Threads \ {t} : store_buffers'[u] = store_buffers[u]
        /\ sb2 = [b \in Bytes |-> IF b \in bytes(s.ml) THEN Tail(sb[b]) ELSE sb[b]]
    BY <1>2, UpdateBuffers
  <2> HIDE DEF s, sb, sb2
  <2> QED BY <2>1
<1>4. prog' = prog
  BY DEF runAux
<1>5. available_auxs' = IF Exhausted(t, s.ml) THEN available_auxs \ {<<t, b0>>}
                        ELSE available_auxs
  BY Zenon DEF runAux
<1>6. b0 \in bytes(s.ml) /\ bytes(s.ml) \subseteq Bytes
  BY <1>1, FirstByte, AccessAssumption DEF PendingStores
<1>7. sb[b0] # << >>
  BY <1>1, <1>6
<1>8. s = sb[b0][1] /\ 1 \in 1..Len(sb[b0])
  <2>1. sb[b0] \in Seq(PendingStores)
    BY <1>2 DEF ByteBuffers
  <2>2. Len(sb[b0]) \in Nat \ {0} /\ Head(sb[b0]) = sb[b0][1]
    BY <1>7, <2>1, TailProperties
  <2> QED BY <2>2
<1>9. IssuedBy(prog, t, s)
  BY <1>8, Zenon DEF AuxInv, Served
<1> HIDE DEF s, sb, sb2
<1>10. Uniform(prog') <=> Uniform(prog)
  BY <1>4 DEF Uniform
<1>11. ASSUME NEW b \in Bytes, NEW i \in 1..Len(sb2[b])
       PROVE  \E k \in 1..Len(sb[b]) : sb2[b][i] = sb[b][k]
  <2>1. CASE b \in bytes(s.ml)
    <3>1. sb[b] \in Seq(PendingStores) /\ sb[b] # << >> /\ sb2[b] = Tail(sb[b])
      BY <1>1, <1>2, <1>3, <2>1 DEF ByteBuffers
    <3>2. /\ Len(sb[b]) \in Nat \ {0} /\ Len(sb2[b]) = Len(sb[b]) - 1
          /\ \A j \in 1..(Len(sb[b]) - 1) : sb2[b][j] = sb[b][j + 1]
      BY <3>1, TailProperties
    <3>3. i + 1 \in 1..Len(sb[b]) /\ sb2[b][i] = sb[b][i + 1]
      BY <3>2
    <3> QED BY <3>3
  <2>2. CASE b \notin bytes(s.ml)
    BY <1>3, <2>2
  <2> QED BY <2>1, <2>2
<1>12. ASSUME NEW b \in Bytes, NEW i \in 1..Len(sb2[b]), Uniform(prog), Exhausted(t, s.ml),
              IssuedBy(prog, t, sb2[b][i])
       PROVE  sb2[b][i].ml.addr # b0
  <2> SUFFICES ASSUME sb2[b][i].ml.addr = b0  PROVE FALSE
    OBVIOUS
  <2>1. sb2[b][i].ml = s.ml
    BY <1>1, <1>9, <1>12, SameLocation
  <2>2. PICK c \in bytes(s.ml) : Len(sb[c]) = 1
    BY <1>12 DEF Exhausted, sb
  <2>3. c \in Bytes /\ sb[c] \in Seq(PendingStores) /\ sb[c] # << >> /\ sb2[c] = Tail(sb[c])
    BY <1>1, <1>2, <1>3, <1>6, Zenon DEF ByteBuffers
  <2>4. Len(sb2[c]) = 0
    BY <2>2, <2>3, TailProperties
  <2>5. PICK st, n : Stamped(sb2, st, n)
    BY <1>2 DEF WholeStores
  <2>6. \A d \in bytes(sb2[b][i].ml) : \E j \in 1..Len(sb2[d]) : st[d][j] = st[b][i]
    BY <2>5 DEF Stamped
  <2>7. \E j \in 1..Len(sb2[c]) : st[c][j] = st[b][i]
    BY <2>1, <2>2, <2>6
  <2> QED BY <2>4, <2>7
<1>13. ASSUME NEW b \in Bytes, NEW i \in 1..Len(sb2[b])
       PROVE  Served(prog', available_auxs', t, sb2[b][i])
  <2>1. PICK k \in 1..Len(sb[b]) : sb2[b][i] = sb[b][k]
    BY <1>11
  <2>2. Served(prog, available_auxs, t, sb[b][k])
    BY <2>1 DEF AuxInv, sb
  <2>3. Served(prog, available_auxs, t, sb2[b][i])
    BY <2>1, <2>2
  <2>4. ASSUME Uniform(prog)  PROVE <<t, sb2[b][i].ml.addr>> \in available_auxs'
    <3>1. <<t, sb2[b][i].ml.addr>> \in available_auxs /\ IssuedBy(prog, t, sb2[b][i])
      BY <2>3, <2>4 DEF Served
    <3>2. CASE Exhausted(t, s.ml)
      BY <1>5, <1>12, <2>4, <3>1, <3>2
    <3>3. CASE ~Exhausted(t, s.ml)
      BY <1>5, <3>1, <3>3
    <3> QED BY <3>2, <3>3
  <2>5. IssuedBy(prog', t, sb2[b][i])
    <3>1. \E m \in 1..Len(prog[t]) : prog[t][m].op = "store" /\ prog[t][m].ml = sb2[b][i].ml
      BY <2>3 DEF Served, IssuedBy
    <3> QED BY <1>4, <3>1 DEF IssuedBy, sb2
  <2> QED BY <1>10, <2>4, <2>5 DEF Served, sb2
<1>14. ASSUME NEW u \in Threads \ {t}, NEW b \in Bytes, NEW i \in 1..Len(store_buffers'[u][b])
       PROVE  Served(prog', available_auxs', u, store_buffers'[u][b][i])
  <2>1. Served(prog, available_auxs, u, store_buffers[u][b][i]) /\ store_buffers'[u] = store_buffers[u]
    BY <1>3, Zenon DEF AuxInv
  <2>2. \A a : <<u, a>> \in available_auxs => <<u, a>> \in available_auxs'
    BY <1>5
  <2> QED BY <1>4, <1>10, <2>1, <2>2 DEF Served, IssuedBy
<1> QED BY <1>13, <1>14 DEF AuxInv, sb2

(* The auxiliary threads of the pending stores stay available.             *)
LEMMA NextAuxInv ==
  ASSUME Inv, Inv', AuxInv, [Next]_vars
  PROVE  AuxInv'
<1>1. ASSUME UNCHANGED <<prog, store_buffers, available_auxs>>
      PROVE  AuxInv'
  BY <1>1 DEF AuxInv
<1>2. ASSUME NEW t \in Threads, Step(t), ~visitStoreInst(t)
      PROVE  UNCHANGED <<store_buffers, available_auxs>>
  BY <1>2, Zenon DEF Step, RefusedJoin, RefusedFull, RefusedPartial, visitLoadInst,
              visitAtomic, visitFenceInst, visitCall, visitReturnInst, memVars
<1>3. ASSUME NEW t \in Threads, Step(t)
      PROVE  prog' = prog
  BY <1>3, Zenon DEF Step, RefusedJoin, RefuseJoin, RefusedFull,
    RefusedPartial, visitLoadInst, visitStoreInst, visitAtomic, visitFenceInst,
    visitCall, visitReturnInst, callPthreadCreate, callPthreadJoin, callAssume,
    Return, Continue
<1>4. ASSUME NEW t \in Threads, visitStoreInst(t)
      PROVE  AuxInv'
  BY <1>4, StoreServed DEF Inv
<1>5. ASSUME NEW t \in Threads, NEW b0 \in Bytes, runAux(t, b0)
      PROVE  AuxInv'
  BY <1>5, UpdateServed
<1> QED
  BY <1>1, <1>2, <1>3, <1>4, <1>5 DEF Next, Update, vars, threadVars, memVars

(* Byte buffers that hold a store hold one that may be updated: the oldest *)
(* of all is the oldest for each of its bytes.                             *)
LEMMA OldestStore ==
  ASSUME NEW sb \in ByteBuffers, WholeStores(sb), ~all_buffers_empty(sb)
  PROVE  \E a \in Bytes :
           /\ sb[a] # << >> /\ 1 \in 1..Len(sb[a]) /\ Head(sb[a]) = sb[a][1]
           /\ Head(sb[a]).ml.addr = a
           /\ \A c \in bytes(Head(sb[a]).ml) : Head(sb[c]) = Head(sb[a])
<1>1. PICK st, n : Stamped(sb, st, n)
  BY DEF WholeStores
<1> DEFINE H == {b \in Bytes : sb[b] # << >>}
           S == {st[b][1] : b \in H}
<1>2. \A b \in H : 1 \in 1..Len(sb[b]) /\ Head(sb[b]) = sb[b][1] /\ Len(sb[b]) \in Nat
  <2> SUFFICES ASSUME NEW b \in H
               PROVE  1 \in 1..Len(sb[b]) /\ Head(sb[b]) = sb[b][1] /\ Len(sb[b]) \in Nat
    OBVIOUS
  <2>1. sb[b] \in Seq(PendingStores) /\ sb[b] # << >>
    BY DEF ByteBuffers
  <2> QED BY <2>1, TailProperties
<1>3. \A b \in H : st[b][1] \in Nat
  BY <1>1, <1>2 DEF Stamped
<1>4. S \subseteq Nat /\ S # {}
  <2>1. H # {}
    BY DEF all_buffers_empty
  <2> QED BY <1>3, <2>1
<1>5. PICK m \in S : \A y \in S : ~(<<y, m>> \in OpToRel(<, Nat))
  BY <1>4, NatLessThanWellFounded, WFMin, Zenon
<1>6. PICK b \in H : m = st[b][1]
  BY <1>5, Zenon
<1>7. \A c \in H : ~(st[c][1] < st[b][1])
  <2> SUFFICES ASSUME NEW c \in H  PROVE ~(st[c][1] < st[b][1])
    OBVIOUS
  <2>1. st[c][1] \in S /\ st[c][1] \in Nat /\ st[b][1] \in Nat
    BY <1>3
  <2> QED BY <1>5, <1>6, <2>1, Zenon DEF OpToRel
<1> HIDE DEF S
<1> DEFINE s == sb[b][1]
<1>8. s \in PendingStores /\ s.ml \in Locations /\ bytes(s.ml) \subseteq Bytes
  BY <1>2, Entries
<1>9. \A c \in bytes(s.ml) : \E j \in 1..Len(sb[c]) : st[c][j] = st[b][1] /\ sb[c][j] = s
  BY <1>1, <1>2 DEF Stamped
<1> HIDE DEF s
<1>10. ASSUME NEW c \in bytes(s.ml)
       PROVE  c \in H /\ Head(sb[c]) = s
  <2>1. PICK j \in 1..Len(sb[c]) : st[c][j] = st[b][1] /\ sb[c][j] = s
    BY <1>9
  <2>2. c \in Bytes /\ Len(sb[c]) # 0
    BY <1>8, <2>1
  <2>3. c \in H
    BY <2>2, Entries
  <2>4. j = 1 \/ st[c][1] < st[c][j]
    <3>1. 1 \in 1..Len(sb[c])
      BY <1>2, <2>3
    <3>2. 1 < j => st[c][1] < st[c][j]
      BY <1>1, <2>1, <2>2, <3>1, Zenon DEF Stamped
    <3> QED BY <2>1, <3>2
  <2>5. j = 1
    BY <1>7, <2>1, <2>3, <2>4
  <2> QED BY <1>2, <2>1, <2>3, <2>5
<1> DEFINE a == s.ml.addr
<1>11. a \in bytes(s.ml)
  BY <1>8, FirstByte
<1>12. a \in H /\ Head(sb[a]) = s
  BY <1>10, <1>11
<1>13. Head(sb[a]).ml.addr = a /\ \A c \in bytes(Head(sb[a]).ml) : Head(sb[c]) = Head(sb[a])
  BY <1>10, <1>12
<1> HIDE DEF a
<1> QED BY <1>2, <1>12, <1>13

(* When schedule() has no thread left in a program whose stores to an      *)
(* address have one size, every store has reached memory and a live thread *)
(* waits to join one that cannot end.                                      *)
QuiescentIsFinal ==
  Uniform(prog) /\ Quiescent => \A t \in Threads :
    /\ all_buffers_empty(store_buffers[t])
    /\ stack[t] = "live" =>
         I(t).op = "join" /\ (I(t).tid \in AssumeBlocked \/ stack[I(t).tid] # "empty")

(* A quiescent state of such a program has no store left to update.        *)
LEMMA QuiescentIsEmpty ==
  ASSUME Inv, AuxInv, Uniform(prog), Quiescent, NEW t \in Threads
  PROVE  all_buffers_empty(store_buffers[t])
<1> DEFINE sb == store_buffers[t]
<1> SUFFICES ASSUME ~all_buffers_empty(sb)  PROVE FALSE
  OBVIOUS
<1>1. sb \in ByteBuffers /\ WholeStores(sb)
  BY DEF Inv, TypeOK, ByteBuffers
<1>2. PICK a \in Bytes :
        /\ sb[a] # << >> /\ 1 \in 1..Len(sb[a]) /\ Head(sb[a]) = sb[a][1]
        /\ Head(sb[a]).ml.addr = a
        /\ \A c \in bytes(Head(sb[a]).ml) : Head(sb[c]) = Head(sb[a])
  <2> HIDE DEF sb
  <2> QED BY <1>1, OldestStore
<1>3. is_aux_at_head(t, a)
  BY <1>2 DEF is_aux_at_head
<1>4. <<t, a>> \in available_auxs
  BY <1>2 DEF AuxInv, Served
<1> QED BY <1>3, <1>4 DEF Quiescent

(* An execution of a program whose stores to an address all have one size  *)
(* ends only when every store has reached memory and whoever has not       *)
(* returned waits for a thread that never will.                            *)
THEOREM TheEndIsFinal == Spec => []QuiescentIsFinal
<1>1. Init => AuxInv
  BY DEF Init, NoStores, AuxInv
<1>2. Inv /\ Inv' /\ AuxInv /\ [Next]_vars => AuxInv'
  BY NextAuxInv
<1>3. Inv /\ WaitInv /\ AuxInv => QuiescentIsFinal
  <2> SUFFICES ASSUME Inv, WaitInv, AuxInv, Uniform(prog), Quiescent, NEW t \in Threads
               PROVE  /\ all_buffers_empty(store_buffers[t])
                      /\ stack[t] = "live" =>
                           /\ I(t).op = "join"
                           /\ I(t).tid \in AssumeBlocked \/ stack[I(t).tid] # "empty"
    BY DEF QuiescentIsFinal
  <2>1. TypeOK /\ \A u \in Threads : all_buffers_empty(store_buffers[u])
    BY QuiescentIsEmpty DEF Inv
  <2>2. ~FenceBlocked(t)
    BY <2>1 DEF FenceBlocked
  <2>3. ~LoadBlocked(t)
    <3> SUFFICES ASSUME I(t).op = "load"  PROVE readable(store_buffers[t], I(t).ml)
      BY DEF LoadBlocked
    <3>1. bytes(I(t).ml) \subseteq Bytes
      BY <2>1, Operands, AccessAssumption
    <3> QED BY <2>1, <3>1 DEF readable, all_buffers_empty
  <2>4. ASSUME stack[t] = "live"
        PROVE  JoinBlocked(t) \/ AssumeJoinBlocked(t)
    BY <2>2, <2>3, <2>4 DEF WaitInv, AllWait, Waits, Quiescent
  <2>5. ASSUME JoinBlocked(t)
        PROVE  I(t).op = "join" /\ stack[I(t).tid] # "empty"
    BY <2>1, <2>5, Named DEF JoinBlocked
  <2> QED BY <2>1, <2>4, <2>5 DEF AssumeJoinBlocked
<1> QED BY <1>1, <1>2, <1>3, Invariance, WaitInvariance, PTL DEF Spec
=============================================================================
