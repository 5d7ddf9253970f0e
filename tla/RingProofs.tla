------------------------------ MODULE RingProofs ------------------------------
(* Proofs about the two rings of the program.                                 *)
(*                                                                            *)
(* The receive ring of src/hal/hpsocket.c, for every number of slots from 1   *)
(* to 255, every set of frames and every size, when the peer does not send    *)
(* before the start-up code is done: the variables keep their types, the ring *)
(* is a bounded FIFO that keeps the frames inside buffer_storage unaltered,   *)
(* and no frame waits without a wake-up.  At most one frame is served after   *)
(* the close, whenever the peer sends.                                        *)
(*                                                                            *)
(* The segment queue of src/tp/tcq.c, for every size and margin.  As the      *)
(* program uses it today (no tcqPopBack, no tcqBackStep) the ring implements  *)
(* the tape and allFull is exact.  With those two operations, on a queue      *)
(* larger than TC_QUEUE_MARGIN, it does so and the reverse history is intact  *)
(* until a put uses the last free slot; tcqFull has said so by then.          *)
EXTENDS SocketRx, TcQueue, SequenceTheorems, TLAPS

------------------------------------------------------------------------------
(* Indices of a ring.                                                         *)

(* An index below the number of slots is its own remainder.                   *)
LEMMA ModSmall ==
  ASSUME NEW n \in Nat \ {0}, NEW x \in 0 .. n - 1
  PROVE  x % n = x
  BY Z3

(* An index that ran past the end once comes back by one ring.                *)
LEMMA ModOnce ==
  ASSUME NEW n \in Nat \ {0}, NEW x \in n .. 2 * n - 1
  PROVE  x % n = x - n
  BY Z3

(* The index k places after i in a ring of n.                                 *)
LEMMA ModAfter ==
  ASSUME NEW n \in Nat \ {0}, NEW i \in 0 .. n - 1, NEW k \in 0 .. n
  PROVE  /\ (i + k) % n = IF i + k < n THEN i + k ELSE i + k - n
         /\ (i + k) % n \in 0 .. n - 1
<1>1. CASE i + k < n
  <2>1. i + k \in 0 .. n - 1  BY <1>1
  <2> QED  BY <1>1, <2>1, ModSmall
<1>2. CASE ~(i + k < n)
  <2>1. i + k \in n .. 2 * n - 1  BY <1>2
  <2>2. (i + k) % n = (i + k) - n  BY <2>1, ModOnce, Zenon
  <2> QED  BY <1>2, <2>1, <2>2
<1> QED  BY <1>1, <1>2

(* An index that ran below the start once comes back by one ring.             *)
LEMMA ModNegative ==
  ASSUME NEW n \in Nat \ {0}, NEW x \in (0 - n) .. (0 - 1)
  PROVE  x % n = x + n
  BY Z3

(* A remainder is an index.                                                   *)
LEMMA ModRange ==
  ASSUME NEW n \in Nat \ {0}, NEW x \in Int
  PROVE  x % n \in 0 .. n - 1
  BY Z3

(* The index k places before i in a ring of n.                                *)
LEMMA ModBefore ==
  ASSUME NEW n \in Nat \ {0}, NEW i \in 0 .. n - 1, NEW k \in 0 .. n
  PROVE  /\ (i - k) % n = IF i >= k THEN i - k ELSE i - k + n
         /\ (i - k) % n \in 0 .. n - 1
<1>1. CASE i >= k
  <2>1. i - k \in 0 .. n - 1  BY <1>1
  <2> QED  BY <1>1, <2>1, ModSmall
<1>2. CASE ~(i >= k)
  <2>1. i - k \in (0 - n) .. (0 - 1)  BY <1>2
  <2>2. (i - k) % n = (i - k) + n  BY <2>1, ModNegative, Zenon
  <2> QED  BY <1>2, <2>1, <2>2
<1> QED  BY <1>1, <1>2

(* Stepping forward and then j back is stepping j - 1 back.                   *)
LEMMA ModForwardBack ==
  ASSUME NEW n \in Nat \ {0}, NEW i \in 0 .. n - 1, NEW j \in 1 .. n
  PROVE  (((i + 1) % n) - j) % n = (i - (j - 1)) % n
<1> DEFINE h == (i + 1) % n
<1>1. h = (IF i + 1 < n THEN i + 1 ELSE i + 1 - n) /\ h \in 0 .. n - 1
  <2>1. 1 \in 0 .. n  OBVIOUS
  <2> QED  BY <2>1, ModAfter
<1> HIDE DEF h
<1>2. j \in 0 .. n /\ j - 1 \in 0 .. n  OBVIOUS
<1>3. (h - j) % n = IF h >= j THEN h - j ELSE h - j + n  BY <1>1, <1>2, ModBefore
<1>4. (i - (j - 1)) % n = IF i >= j - 1 THEN i - (j - 1) ELSE i - (j - 1) + n
  BY <1>2, ModBefore
<1>5. (h - j) % n = (i - (j - 1)) % n  BY <1>1, <1>2, <1>3, <1>4
<1> QED  BY <1>5 DEF h

(* Stepping back and then j back is stepping j + 1 back.                      *)
LEMMA ModBackBack ==
  ASSUME NEW n \in Nat \ {0}, NEW i \in 0 .. n - 1, NEW j \in 0 .. n - 1
  PROVE  (((i - 1) % n) - j) % n = (i - (j + 1)) % n
<1> DEFINE h == (i - 1) % n
<1>1. h = (IF i >= 1 THEN i - 1 ELSE i - 1 + n) /\ h \in 0 .. n - 1
  <2>1. 1 \in 0 .. n  OBVIOUS
  <2> QED  BY <2>1, ModBefore
<1> HIDE DEF h
<1>2. j \in 0 .. n /\ j + 1 \in 0 .. n  OBVIOUS
<1>3. (h - j) % n = IF h >= j THEN h - j ELSE h - j + n  BY <1>1, <1>2, ModBefore
<1>4. (i - (j + 1)) % n = IF i >= j + 1 THEN i - (j + 1) ELSE i - (j + 1) + n
  BY <1>2, ModBefore
<1>5. (h - j) % n = (i - (j + 1)) % n  BY <1>1, <1>2, <1>3, <1>4
<1> QED  BY <1>5 DEF h

(* A full turn forward does not change a step back.                           *)
LEMMA ModBackTurn ==
  ASSUME NEW n \in Nat \ {0}, NEW i \in 0 .. n - 1
  PROVE  (i - 1 + n) % n = (i - 1) % n
<1>1. (i - 1) % n = IF i >= 1 THEN i - 1 ELSE i - 1 + n
  <2>1. 1 \in 0 .. n  OBVIOUS
  <2> QED  BY <2>1, ModBefore
<1>2. CASE i >= 1
  <2>1. i - 1 + n \in n .. 2 * n - 1  BY <1>2
  <2>2. (i - 1 + n) % n = (i - 1 + n) - n  BY <2>1, ModOnce, Zenon
  <2> QED  BY <1>1, <1>2, <2>2
<1>3. CASE ~(i >= 1)
  <2>1. i - 1 + n \in 0 .. n - 1  BY <1>3
  <2>2. (i - 1 + n) % n = i - 1 + n  BY <2>1, ModSmall, Zenon
  <2> QED  BY <1>1, <1>3, <2>2
<1> QED  BY <1>2, <1>3

(* A number is a multiple of n and its remainder.                             *)
LEMMA ModParts ==
  ASSUME NEW n \in Nat \ {0}, NEW x \in Nat
  PROVE  x = (x \div n) * n + (x % n) /\ x % n \in 0 .. n - 1 /\ x \div n \in Nat
  BY Z3

(* A multiple of n and a number below n: that number is the remainder.        *)
LEMMA ModOfParts ==
  ASSUME NEW n \in Nat \ {0}, NEW x \in Nat, NEW q \in Nat, NEW r \in 0 .. n - 1,
         x = q * n + r
  PROVE  x % n = r
  BY Z3

(* Counting on from a remainder is counting on from the number.               *)
LEMMA ModTurns ==
  ASSUME NEW n \in Nat \ {0}, NEW x \in Nat, NEW k \in 0 .. n
  PROVE  (x + k) % n = ((x % n) + k) % n
<1>1. PICK q \in Nat, r \in 0 .. n - 1 : x = q * n + r /\ r = x % n
  BY ModParts
<1>2. (r + k) % n = IF r + k < n THEN r + k ELSE r + k - n  BY ModAfter
<1>3. CASE r + k < n
  <2>1. x + k \in Nat /\ r + k \in 0 .. n - 1 /\ x + k = q * n + (r + k)  BY <1>1, <1>3
  <2>2. (x + k) % n = r + k  BY <2>1, ModOfParts
  <2> QED  BY <1>1, <1>2, <1>3, <2>2
<1>4. CASE ~(r + k < n)
  <2>1. (q + 1) * n = q * n + n  OBVIOUS
  <2>2. /\ x + k \in Nat /\ r + k - n \in 0 .. n - 1 /\ q + 1 \in Nat
        /\ x + k = (q + 1) * n + (r + k - n)
    BY <1>1, <1>4, <2>1
  <2>3. (x + k) % n = r + k - n  BY <2>2, ModOfParts
  <2> QED  BY <1>1, <1>2, <1>4, <2>3
<1> QED  BY <1>3, <1>4

------------------------------------------------------------------------------
(* Sequences as functions on indices.                                         *)

(* A function on 1 .. n is a sequence of length n.                            *)
LEMMA FunIsSeq ==
  ASSUME NEW S, NEW n \in Nat, NEW g \in [1 .. n -> S]
  PROVE  g \in Seq(S) /\ Len(g) = n
<1>1. g \in Seq(S)  OBVIOUS
<1>2. Len(g) = n  BY <1>1
<1> QED  BY <1>1, <1>2

(* Append as a function on indices.                                           *)
LEMMA AppendAsFun ==
  ASSUME NEW S, NEW s \in Seq(S), NEW e \in S
  PROVE  Append(s, e) = [k \in 1 .. Len(s) + 1 |-> IF k = Len(s) + 1 THEN e ELSE s[k]]
<1> DEFINE n == Len(s) + 1
           t == [k \in 1 .. n |-> IF k = n THEN e ELSE s[k]]
<1>1. n \in Nat  BY LenProperties
<1>2. t \in [1 .. n -> S]  BY <1>1, LenProperties
<1>3. t \in Seq(S) /\ Len(t) = n  BY <1>1, <1>2, FunIsSeq
<1>4. /\ Append(s, e) \in Seq(S) /\ Len(Append(s, e)) = n
      /\ \A k \in 1 .. n : Append(s, e)[k] = t[k]
  BY AppendProperties, LenProperties
<1> QED  BY <1>3, <1>4, SeqEqual

(* Tail as a function on indices.                                             *)
LEMMA TailAsFun ==
  ASSUME NEW S, NEW s \in Seq(S), s # << >>
  PROVE  Tail(s) = [k \in 1 .. Len(s) - 1 |-> s[k + 1]]
<1> DEFINE n == Len(s) - 1
           t == [k \in 1 .. n |-> s[k + 1]]
<1>1. n \in Nat  BY EmptySeq
<1>2. t \in [1 .. n -> S]  BY <1>1, LenProperties
<1>3. t \in Seq(S) /\ Len(t) = n  BY <1>1, <1>2, FunIsSeq
<1>4. /\ Tail(s) \in Seq(S) /\ Len(Tail(s)) = n
      /\ \A k \in 1 .. n : Tail(s)[k] = t[k]
  BY HeadTailProperties
<1> QED  BY <1>3, <1>4, SeqEqual

(* SubSeq as a function on indices.                                           *)
LEMMA SubSeqAsFun ==
  ASSUME NEW S, NEW s \in Seq(S), NEW m \in 1 .. Len(s) + 1, NEW n \in m - 1 .. Len(s)
  PROVE  SubSeq(s, m, n) = [k \in 1 .. n - m + 1 |-> s[m + k - 1]]
<1> DEFINE l == n - m + 1
           t == [k \in 1 .. l |-> s[m + k - 1]]
<1>0. Len(s) \in Nat  BY LenProperties
<1>1. l \in Nat /\ m \in Int /\ n \in Int  BY <1>0
<1>2. \A k \in 1 .. l : m + k - 1 \in 1 .. Len(s)  BY <1>0, <1>1
<1>3. t \in [1 .. l -> S]  BY <1>2, ElementOfSeq
<1>4. t \in Seq(S) /\ Len(t) = l  BY <1>1, <1>3, FunIsSeq
<1>5. \A i \in m .. n : s[i] \in S
  <2>1. \A i \in m .. n : i \in 1 .. Len(s)  BY <1>0
  <2> QED  BY <2>1, ElementOfSeq
<1>6. /\ SubSeq(s, m, n) \in Seq(S)
      /\ Len(SubSeq(s, m, n)) = IF m <= n THEN l ELSE 0
      /\ \A i \in 1 .. l : SubSeq(s, m, n)[i] = s[m + i - 1]
  BY <1>1, <1>5, SubSeqProperties
<1>7. Len(SubSeq(s, m, n)) = l  BY <1>0, <1>1, <1>6
<1> QED  BY <1>4, <1>6, <1>7, SeqEqual

(* A sequence with one element put in front, as a function on indices.        *)
LEMMA ConsAsFun ==
  ASSUME NEW S, NEW s \in Seq(S), NEW e \in S
  PROVE  <<e>> \o s = [k \in 1 .. Len(s) + 1 |-> IF k = 1 THEN e ELSE s[k - 1]]
<1> DEFINE n == Len(s) + 1
           t == [k \in 1 .. n |-> IF k = 1 THEN e ELSE s[k - 1]]
<1>0. Len(s) \in Nat  BY LenProperties
<1>1. n \in Nat /\ \A k \in 2 .. n : k - 1 \in 1 .. Len(s)  BY <1>0
<1>2. \A k \in 1 .. n : t[k] \in S
  <2>1. \A k \in 1 .. n : k = 1 \/ k \in 2 .. n  BY <1>0
  <2> QED  BY <1>1, <2>1, ElementOfSeq
<1>3. t \in [1 .. n -> S]  BY <1>2
<1>4. t \in Seq(S) /\ Len(t) = n  BY <1>1, <1>3, FunIsSeq
<1>5. <<e>> \in Seq(S) /\ Len(<<e>>) = 1 /\ <<e>>[1] = e  OBVIOUS
<1>6. /\ <<e>> \o s \in Seq(S)
      /\ Len(<<e>> \o s) = n
      /\ \A k \in 1 .. n : (<<e>> \o s)[k] = IF k <= 1 THEN <<e>>[k] ELSE s[k - 1]
  <2>1. /\ <<e>> \o s \in Seq(S)
        /\ Len(<<e>> \o s) = 1 + Len(s)
        /\ \A i \in 1 .. 1 + Len(s) : (<<e>> \o s)[i] = IF i <= 1 THEN <<e>>[i] ELSE s[i - 1]
    BY <1>5, ConcatProperties
  <2>2. 1 + Len(s) = n  BY <1>0
  <2> QED  BY <2>1, <2>2
<1>7. \A k \in 1 .. n : (<<e>> \o s)[k] = t[k]
  <2>1. \A k \in 1 .. n : k <= 1 <=> k = 1  BY <1>0
  <2> QED  BY <1>5, <1>6, <2>1
<1> QED  BY <1>4, <1>6, <1>7, SeqEqual

------------------------------------------------------------------------------
(* The receive ring.                                                          *)

(* Which thread owns TcpRxRingBuff.mutex is decided by where it is.           *)
MutexInv ==
  /\ (mutex = "recv") <=> (recvPc \in {"copy", "advance", "fault"})
  /\ (mutex = "proc") <=> (procPc \in {"copy", "advance"})

(* The ring is empty and the threads are idle until the start-up code ends.   *)
StartInv == initPc # "done" =>
  head = 0 /\ tail = 0 /\ length = 0 /\ recvPc = "idle" /\ procPc = "idle"

(* What slots may hold.                                                       *)
Content == Frames \cup {NoFrame}

(* The ring itself: tail is length slots after head, which has moved one slot *)
(* for every frame delivered.                                                 *)
RingInv ==
  /\ tail = (head + length) % BUFFER_NUM
  /\ head = Len(delivered) % BUFFER_NUM

(* What the two threads carry across the steps inside their critical section; *)
(* a slot outside buffer_storage may have changed in between.                 *)
RecvInv ==
  /\ recvPc # "idle" => recvFrame \in Frames
  /\ recvPc = "advance" =>
        length < BUFFER_NUM /\ (Inside(tail) => slots[tail] = recvFrame)

ProcInv ==
  procPc = "advance" => length > 0 /\ (Inside(head) => procFrame = slots[head])

IInv == TypeOK /\ MutexInv /\ StartInv /\ RingInv /\ RecvInv /\ ProcInv

------------------------------------------------------------------------------
(* Arithmetic of the wrapping indices.                                        *)

(* The uint8_t length does not wrap for the lengths the ring can have.        *)
LEMMA LengthFits ==
  ASSUME NEW l \in 0 .. 255
  PROVE  l % 256 = l
  BY ModSmall

(* The slot k places after i, without the remainder.                          *)
LEMMA At ==
  ASSUME NEW i \in Index, NEW k \in 0 .. BUFFER_NUM
  PROVE  /\ (i + k) % BUFFER_NUM = IF i + k < BUFFER_NUM THEN i + k ELSE i + k - BUFFER_NUM
         /\ (i + k) % BUFFER_NUM \in Index
<1>1. BUFFER_NUM \in Nat \ {0}  BY BufferNumFits
<1> QED  BY <1>1, ModAfter DEF Index

(* Both functions advance an index by the successor of the ring.              *)
LEMMA SuccAt ==
  ASSUME NEW i \in Index
  PROVE  /\ Succ(i) = IF i + 1 < BUFFER_NUM THEN i + 1 ELSE i + 1 - BUFFER_NUM
         /\ Succ(i) \in Index
  BY At, BufferNumFits DEF Succ

------------------------------------------------------------------------------
(* The invariant is inductive.                                                *)

(* The program starts in a state of the invariant.                            *)
LEMMA InitIInv == Init => IInv
<1> SUFFICES ASSUME Init PROVE IInv  OBVIOUS
<1>0. BUFFER_NUM \in Nat \ {0} /\ 0 \in Index  BY BufferNumFits DEF Index
<1>1. TypeOK  BY <1>0 DEF Init, TypeOK
<1>2. RingInv
  <2>1. head + length = 0 /\ Len(delivered) = 0 /\ 0 \in 0 .. BUFFER_NUM - 1
    BY <1>0 DEF Init
  <2>2. 0 % BUFFER_NUM = 0  BY <1>0, <2>1, ModSmall
  <2> QED  BY <2>1, <2>2 DEF Init, RingInv
<1> QED  BY <1>1, <1>2 DEF Init, IInv, MutexInv, StartInv, RecvInv, ProcInv

(* Every step of the start-up code, of the callback, of ProcessTask and of    *)
(* the owners of the memory behind the storage keeps the invariant.           *)
LEMMA NextIInv ==
  ASSUME ~EarlyReceive, IInv, [Next]_vars
  PROVE  IInv'
<1>0. BUFFER_NUM \in Nat \ {0} /\ BUFFER_NUM <= 255 /\ 0 \in Index
  BY BufferNumFits DEF Index
<1> USE DEF ring, recvVars, procVars
<1>1. CASE init_socket_comm_buffers
  <2>1. /\ head = 0 /\ tail = 0 /\ length = 0 /\ recvPc = "idle" /\ procPc = "idle"
        /\ mutex = "none"
    BY <1>1 DEF IInv, init_socket_comm_buffers, InitIndices, InitStore, InitMutex, InitSem,
       StartInv, MutexInv, TypeOK
  <2>2. UNCHANGED <<slots, head, tail, length, recvPc, recvFrame, procPc, procFrame, mutex,
                    delivered>>
    BY <1>1, <2>1 DEF init_socket_comm_buffers, InitIndices, InitStore, InitMutex, InitSem
  <2>3. TypeOK'
    BY <1>1, <2>2 DEF IInv, init_socket_comm_buffers, InitIndices, InitStore, InitMutex,
       InitSem, TypeOK
  <2> QED  BY <2>1, <2>2, <2>3 DEF IInv, MutexInv, StartInv, RingInv, RecvInv, ProcInv
<1>2. CASE OwnerStores
  <2>1. PICK i \in Index : ~Inside(i) /\ slots' = [slots EXCEPT ![i] = NoFrame]
    BY <1>2 DEF OwnerStores
  <2>2. UNCHANGED <<head, tail, length, initPc, mutex, recvPc, recvFrame, procPc, procFrame,
                    delivered>>
    BY <1>2 DEF OwnerStores
  <2>3. TypeOK'  BY <1>2, <2>1 DEF IInv, OwnerStores, TypeOK
  <2>4. \A j \in Index : Inside(j) => slots'[j] = slots[j]
    BY <2>1 DEF IInv, TypeOK
  <2>5. Inside(tail)' = Inside(tail) /\ Inside(head)' = Inside(head)
    BY <2>2 DEF Inside
  <2>6. RecvInv' /\ ProcInv'
    BY <2>2, <2>4, <2>5 DEF IInv, TypeOK, RecvInv, ProcInv
  <2> QED  BY <2>2, <2>3, <2>6 DEF IInv, MutexInv, StartInv, RingInv
<1>3. ASSUME NEW f \in Frames, OnReceiveLinux(f) PROVE IInv'
  <2>1. TypeOK'  BY <1>3 DEF IInv, OnReceiveLinux, TypeOK
  <2> QED
    BY <1>3, <2>1 DEF IInv, OnReceiveLinux, MutexInv, StartInv, RingInv, RecvInv, ProcInv, Inside
<1>4. CASE WriteLock \/ WriteRefused \/ PostSem \/ OnCloseLinux
  <2>1. TypeOK'
    <3>1. CASE WriteLock \/ WriteRefused  BY <3>1 DEF IInv, WriteLock, WriteRefused, TypeOK
    <3>2. CASE PostSem  BY <3>2 DEF IInv, PostSem, TypeOK
    <3>3. CASE OnCloseLinux  BY <3>3 DEF IInv, OnCloseLinux, TypeOK
    <3> QED  BY <1>4, <3>1, <3>2, <3>3
  <2>2. MutexInv'
    BY <1>4 DEF IInv, WriteLock, WriteRefused, PostSem, OnCloseLinux, MutexInv, TypeOK
  <2> QED
    BY <1>4, <2>1, <2>2 DEF IInv, WriteLock, WriteRefused, PostSem, OnCloseLinux,
       StartInv, RingInv, RecvInv, ProcInv, Inside
<1>5. CASE WriteCopy
  <2>1. CASE recvPc' = "fault" /\ UNCHANGED slots
    <3>1. TypeOK'  BY <1>5, <2>1 DEF IInv, WriteCopy, TypeOK
    <3> QED
      BY <1>5, <2>1, <3>1 DEF IInv, WriteCopy, MutexInv, StartInv, RingInv, RecvInv,
         ProcInv, Inside
  <2>2. CASE recvPc' = "advance" /\ slots' = [slots EXCEPT ![tail] = recvFrame]
    <3>1. /\ recvPc = "copy"
          /\ UNCHANGED <<head, tail, length, mutex, initPc, recvFrame, procPc, procFrame,
                         delivered>>
      BY <1>5 DEF WriteCopy
    <3>2. length < BUFFER_NUM /\ initPc = "done"
      <4>1. initPc = "done"  BY <3>1 DEF IInv, StartInv
      <4> QED  BY <1>5, <4>1 DEF WriteCopy, buffNum
    <3>3. recvFrame \in Frames  BY <3>1 DEF IInv, RecvInv
    <3>4. TypeOK'  BY <1>5, <2>2, <3>1, <3>3 DEF IInv, WriteCopy, TypeOK
    <3>5. procPc # "advance"  BY <3>1 DEF IInv, MutexInv
    <3>6. RecvInv'  BY <2>2, <3>1, <3>2, <3>3 DEF IInv, TypeOK, RecvInv
    <3> QED
      BY <2>2, <3>1, <3>2, <3>4, <3>5, <3>6 DEF IInv, MutexInv, StartInv, RingInv, ProcInv
  <2> QED  BY <1>5, <2>1, <2>2 DEF WriteCopy
<1>6. CASE WriteAdvance
  <2>1. /\ recvPc = "advance" /\ recvPc' = "post"
        /\ tail' = Succ(tail) /\ length' = (length + 1) % 256
        /\ mutex' = "none"
        /\ UNCHANGED <<slots, head, initPc, recvFrame, procPc, procFrame, delivered>>
    BY <1>6 DEF WriteAdvance
  <2>2. length < BUFFER_NUM /\ recvFrame \in Frames
    BY <2>1 DEF IInv, RecvInv
  <2>3. length' = length + 1
    BY <1>0, <2>1, <2>2, LengthFits DEF IInv, TypeOK
  <2>4. tail' \in Index  BY <2>1, SuccAt DEF IInv, TypeOK
  <2>5. TypeOK'  BY <1>0, <1>6, <2>1, <2>2, <2>3, <2>4 DEF IInv, WriteAdvance, TypeOK
  <2>6. mutex = "recv" /\ procPc \notin {"copy", "advance"}
    BY <2>1 DEF IInv, MutexInv
  <2>7. tail' = (head + length') % BUFFER_NUM
    <3>1. tail = (head + length) % BUFFER_NUM /\ head \in Index /\ tail \in Index
      BY DEF IInv, RingInv, TypeOK
    <3>2. length \in 0 .. BUFFER_NUM /\ length + 1 \in 0 .. BUFFER_NUM
      BY <1>0, <2>2 DEF IInv, TypeOK
    <3>3. tail = IF head + length < BUFFER_NUM THEN head + length ELSE head + length - BUFFER_NUM
      BY <3>1, <3>2, At
    <3>4. (head + (length + 1)) % BUFFER_NUM =
            IF head + (length + 1) < BUFFER_NUM THEN head + (length + 1)
                                                ELSE head + (length + 1) - BUFFER_NUM
      BY <3>1, <3>2, At
    <3>5. Succ(tail) = IF tail + 1 < BUFFER_NUM THEN tail + 1 ELSE tail + 1 - BUFFER_NUM
      BY <3>1, SuccAt
    <3> QED  BY <1>0, <2>1, <2>3, <3>1, <3>2, <3>3, <3>4, <3>5 DEF Index
  <2>8. RingInv'  BY <2>1, <2>7 DEF IInv, RingInv
  <2> QED
    BY <2>1, <2>2, <2>5, <2>6, <2>8 DEF IInv, MutexInv, StartInv, RecvInv, ProcInv
<1>7. CASE ProcessTask \/ WaitSem \/ ReadLock \/ ReadEmpty
  <2>1. TypeOK'
    BY <1>7 DEF IInv, ProcessTask, WaitSem, ReadLock, ReadEmpty, TypeOK
  <2>2. MutexInv'
    BY <1>7 DEF IInv, ProcessTask, WaitSem, ReadLock, ReadEmpty, MutexInv, TypeOK
  <2>3. StartInv'
    BY <1>7 DEF IInv, ProcessTask, WaitSem, ReadLock, ReadEmpty, StartInv
  <2> QED
    BY <1>7, <2>1, <2>2, <2>3 DEF IInv, ProcessTask, WaitSem, ReadLock, ReadEmpty,
       RingInv, RecvInv, ProcInv, Inside
<1>8. CASE ReadCopy
  <2>1. TypeOK'  BY <1>8 DEF IInv, ReadCopy, TypeOK
  <2> QED
    BY <1>8, <2>1 DEF IInv, ReadCopy, TypeOK, MutexInv, StartInv, RingInv, RecvInv, ProcInv,
       Inside
<1>9. CASE ReadAdvance
  <2>1. /\ procPc = "advance" /\ procPc' = "idle"
        /\ head' = Succ(head) /\ length' = (length - 1) % 256
        /\ mutex' = "none" /\ delivered' = Append(delivered, procFrame)
        /\ UNCHANGED <<slots, tail, initPc, recvPc, recvFrame, procFrame>>
    BY <1>9 DEF ReadAdvance
  <2>2. length > 0  BY <2>1 DEF IInv, ProcInv
  <2>3. length' = length - 1
    BY <1>0, <2>1, <2>2, LengthFits DEF IInv, TypeOK
  <2>4. head' \in Index  BY <2>1, SuccAt DEF IInv, TypeOK
  <2>5. /\ delivered' \in Seq(Content)
        /\ Len(delivered') = Len(delivered) + 1 /\ Len(delivered) \in Nat
    BY <2>1, AppendProperties, LenProperties DEF IInv, TypeOK, Content
  <2>6. TypeOK'
    BY <1>0, <1>9, <2>1, <2>2, <2>3, <2>4, <2>5 DEF IInv, ReadAdvance, TypeOK, Content
  <2>7. recvPc \notin {"copy", "advance", "fault"} /\ mutex = "proc"
    BY <2>1 DEF IInv, MutexInv
  <2>8. tail' = (head' + length') % BUFFER_NUM
    <3>1. head \in Index /\ tail \in Index /\ length \in 0 .. BUFFER_NUM
          /\ length - 1 \in 0 .. BUFFER_NUM /\ tail = (head + length) % BUFFER_NUM
      BY <1>0, <2>2 DEF IInv, TypeOK, RingInv
    <3>2. head' = IF head + 1 < BUFFER_NUM THEN head + 1 ELSE head + 1 - BUFFER_NUM
      BY <2>1, <3>1, SuccAt
    <3>3. (head' + (length - 1)) % BUFFER_NUM =
            IF head' + (length - 1) < BUFFER_NUM THEN head' + (length - 1)
                                                 ELSE head' + (length - 1) - BUFFER_NUM
      BY <2>4, <3>1, At
    <3>4. (head + length) % BUFFER_NUM =
            IF head + length < BUFFER_NUM THEN head + length ELSE head + length - BUFFER_NUM
      BY <3>1, At
    <3>5. (head' + (length - 1)) % BUFFER_NUM = (head + length) % BUFFER_NUM
      BY <1>0, <2>2, <3>1, <3>2, <3>3, <3>4 DEF Index
    <3> QED  BY <2>1, <2>3, <3>1, <3>5
  <2>9. head' = Len(delivered') % BUFFER_NUM
    <3>1. 1 \in 0 .. BUFFER_NUM  BY <1>0
    <3>2. (Len(delivered) + 1) % BUFFER_NUM = ((Len(delivered) % BUFFER_NUM) + 1) % BUFFER_NUM
      BY <1>0, <2>5, <3>1, ModTurns
    <3> QED  BY <2>1, <2>5, <3>2 DEF IInv, RingInv, Succ
  <2>10. RingInv'  BY <2>8, <2>9 DEF RingInv
  <2> QED
    BY <2>1, <2>6, <2>7, <2>10 DEF IInv, MutexInv, StartInv, RecvInv, ProcInv
<1>10. CASE UNCHANGED vars
  <2>1. TypeOK'  BY <1>10 DEF IInv, vars, TypeOK
  <2> QED
    BY <1>10, <2>1 DEF IInv, vars, MutexInv, StartInv, RingInv, RecvInv, ProcInv, Inside
<1> QED
  BY <1>1, <1>2, <1>3, <1>4, <1>5, <1>6, <1>7, <1>8, <1>9, <1>10 DEF Next,
     RecvThread, AnalyseData, write_ringbuff, ProcThread, read_ringbuff

(* The invariant holds in every state of every behaviour.                     *)
THEOREM Invariance == ~EarlyReceive => (Spec => []IInv)
<1> SUFFICES ASSUME ~EarlyReceive PROVE Spec => []IInv  OBVIOUS
<1>1. Init => IInv  BY InitIInv
<1>2. IInv /\ [Next]_vars => IInv'  BY NextIInv
<1> QED  BY <1>1, <1>2, PTL DEF Spec

(* Type correctness: in particular the uint8_t indices and length never leave *)
(* the ring, whatever arrives once the start-up code is done.                 *)
THEOREM TypeCorrect == ~EarlyReceive => (Spec => []TypeOK)
<1> SUFFICES ASSUME ~EarlyReceive PROVE Spec => []TypeOK  OBVIOUS
<1>1. Spec => []IInv  BY Invariance
<1>2. IInv => TypeOK  BY DEF IInv
<1> QED  BY <1>1, <1>2, PTL

------------------------------------------------------------------------------
(* The ring implements the bounded FIFO.                                      *)

(* The abstract queue is a sequence, one element per occupied slot.           *)
LEMMA PendingIsSeq ==
  ASSUME IInv
  PROVE  /\ Pending \in Seq(Content)
         /\ Len(Pending) = length
         /\ \A k \in 1 .. length : Pending[k] = slots[(head + k - 1) % BUFFER_NUM]
<1>0. /\ length \in 0 .. BUFFER_NUM /\ length \in Nat /\ head \in Index
      /\ slots \in [Index -> Content]
  BY BufferNumFits DEF IInv, TypeOK, Index, Content
<1>1. ASSUME NEW k \in 1 .. length PROVE slots[(head + k - 1) % BUFFER_NUM] \in Content
  <2>1. k - 1 \in 0 .. BUFFER_NUM /\ head + (k - 1) = head + k - 1
    BY <1>0, BufferNumFits DEF Index
  <2>2. (head + k - 1) % BUFFER_NUM \in Index  BY <1>0, <2>1, At
  <2> QED  BY <1>0, <2>2
<1>2. Pending \in [1 .. length -> Content]  BY <1>1 DEF Pending
<1>3. Pending \in Seq(Content)  BY <1>0, <1>2, FunIsSeq
<1>4. Len(Pending) = length  BY <1>0, <1>2, FunIsSeq
<1>5. \A k \in 1 .. length : Pending[k] = slots[(head + k - 1) % BUFFER_NUM]
  BY DEF Pending
<1> QED  BY <1>3, <1>4, <1>5

(* The place of a frame of the queue is the slot it lies in.                  *)
LEMMA PlaceIsSlot ==
  ASSUME IInv, NEW k \in 1 .. BUFFER_NUM + 1
  PROVE  Fifo!Place(k) = (head + k - 1) % BUFFER_NUM
<1>0. /\ BUFFER_NUM \in Nat \ {0} /\ Len(delivered) \in Nat
      /\ head \in Int /\ head = Len(delivered) % BUFFER_NUM
      /\ k - 1 \in 0 .. BUFFER_NUM
  BY BufferNumFits, LenProperties DEF IInv, TypeOK, RingInv, Index
<1>1. (Len(delivered) + (k - 1)) % BUFFER_NUM = (head + (k - 1)) % BUFFER_NUM
  BY <1>0, ModTurns
<1>2. Len(delivered) + (k - 1) = Len(delivered) + k - 1 /\ head + (k - 1) = head + k - 1
  BY <1>0
<1> QED  BY <1>1, <1>2 DEF Fifo!Place

(* A step that keeps head, length and the occupied slots keeps the queue.     *)
LEMMA PendingKept ==
  ASSUME IInv, UNCHANGED <<slots, head, length>>
  PROVE  Pending' = Pending
  BY DEF Pending

(* The copy writes a slot outside the occupied ones.                          *)
LEMMA CopyKeepsPending ==
  ASSUME IInv, WriteCopy
  PROVE  Pending' = Pending
<1>0. BUFFER_NUM \in Nat \ {0}  BY BufferNumFits
<1>1. CASE UNCHANGED slots  BY <1>1 DEF WriteCopy, Pending
<1>2. CASE slots' = [slots EXCEPT ![tail] = recvFrame]
  <2>1. UNCHANGED <<head, length>> /\ length < BUFFER_NUM
    <3>1. recvPc = "copy" /\ length < buffNum  BY DEF WriteCopy
    <3>2. initPc = "done"  BY <3>1 DEF IInv, StartInv
    <3> QED  BY <3>1, <3>2 DEF WriteCopy, buffNum
  <2>2. head \in Index /\ length \in 0 .. BUFFER_NUM /\ slots \in [Index -> Content]
    BY DEF IInv, TypeOK, Content
  <2>3. ASSUME NEW k \in 1 .. length
        PROVE  slots'[(head + k - 1) % BUFFER_NUM] = slots[(head + k - 1) % BUFFER_NUM]
    <3>1. k - 1 \in 0 .. BUFFER_NUM /\ head + (k - 1) = head + k - 1
      BY <1>0, <2>2 DEF Index
    <3>2. /\ (head + k - 1) % BUFFER_NUM \in Index
          /\ (head + k - 1) % BUFFER_NUM =
               IF head + k - 1 < BUFFER_NUM THEN head + k - 1 ELSE head + k - 1 - BUFFER_NUM
      BY <2>2, <3>1, At
    <3>3. tail = IF head + length < BUFFER_NUM THEN head + length ELSE head + length - BUFFER_NUM
      BY <2>2, At DEF IInv, RingInv
    <3>4. (head + k - 1) % BUFFER_NUM # tail
      BY <1>0, <2>1, <2>2, <3>2, <3>3 DEF Index
    <3> QED  BY <1>2, <2>2, <3>2, <3>4
  <2> QED  BY <2>1, <2>3 DEF Pending
<1> QED  BY <1>1, <1>2 DEF WriteCopy

(* The advance of write_ringbuff puts the received frame.                     *)
LEMMA AdvancePuts ==
  ASSUME IInv, IInv', WriteAdvance
  PROVE  Fifo!Put(recvFrame) /\ recvFrame \in Frames
<1>0. BUFFER_NUM \in Nat \ {0} /\ BUFFER_NUM <= 255  BY BufferNumFits
<1>1. /\ length < BUFFER_NUM /\ recvFrame \in Frames
      /\ Inside(tail) => slots[tail] = recvFrame
      /\ slots[tail] \in Content /\ tail \in Index
      /\ length \in 0 .. BUFFER_NUM /\ head \in Index
      /\ tail = (head + length) % BUFFER_NUM
  BY DEF IInv, TypeOK, RecvInv, RingInv, WriteAdvance, Content
<1>2. /\ UNCHANGED <<slots, head, delivered>>
      /\ length' = length + 1
  <2>1. length' = (length + 1) % 256  BY DEF WriteAdvance
  <2>2. length' = length + 1  BY <1>0, <1>1, <2>1, LengthFits
  <2> QED  BY <2>2 DEF WriteAdvance, procVars
<1>3. Pending \in Seq(Content) /\ Len(Pending) = length  BY PendingIsSeq
<1>4. head + (length + 1) - 1 = head + length  BY <1>0, <1>1 DEF Index
<1>5. Pending' = Append(Pending, slots[tail])
  <2>1. Pending' = [k \in 1 .. length + 1 |-> slots[(head + k - 1) % BUFFER_NUM]]
    BY <1>2 DEF Pending
  <2>2. slots[(head + (length + 1) - 1) % BUFFER_NUM] = slots[tail]  BY <1>1, <1>4
  <2>3. Append(Pending, slots[tail]) =
          [k \in 1 .. length + 1 |-> IF k = length + 1 THEN slots[tail] ELSE Pending[k]]
    BY <1>1, <1>3, AppendAsFun
  <2>4. ASSUME NEW k \in 1 .. length + 1
        PROVE  slots[(head + k - 1) % BUFFER_NUM] =
                 IF k = length + 1 THEN slots[tail] ELSE Pending[k]
    <3>1. CASE k = length + 1  BY <2>2, <3>1
    <3>2. CASE k # length + 1
      <4>1. k \in 1 .. length  BY <1>0, <1>1, <3>2
      <4> QED  BY <3>2, <4>1, PendingIsSeq
    <3> QED  BY <3>1, <3>2
  <2> QED  BY <2>1, <2>3, <2>4
<1>6. slots[tail] \in Fifo!Found(Len(Pending) + 1, recvFrame)
  <2>1. length + 1 \in 1 .. BUFFER_NUM + 1  BY <1>0, <1>1
  <2>2. Fifo!Place(length + 1) = tail  BY <1>1, <1>4, <2>1, PlaceIsSlot
  <2> QED  BY <1>1, <1>3, <2>2 DEF Fifo!Found, Fifo!Content, Content
<1> QED  BY <1>1, <1>2, <1>3, <1>5, <1>6 DEF Fifo!Put

(* The advance of read_ringbuff gets the oldest frame.                        *)
LEMMA AdvanceGets ==
  ASSUME IInv, IInv', ReadAdvance
  PROVE  Fifo!Get
<1>0. BUFFER_NUM \in Nat \ {0} /\ BUFFER_NUM <= 255  BY BufferNumFits
<1>1. /\ length > 0 /\ length \in 0 .. BUFFER_NUM /\ head \in Index
      /\ Inside(head) => procFrame = slots[head]
      /\ procFrame \in Content
  BY DEF IInv, TypeOK, ProcInv, ReadAdvance, Content
<1>2. /\ UNCHANGED slots
      /\ head' = Succ(head)
      /\ length' = length - 1
      /\ delivered' = Append(delivered, procFrame)
  <2>1. length' = (length - 1) % 256  BY DEF ReadAdvance
  <2>2. length' = length - 1  BY <1>0, <1>1, <2>1, LengthFits
  <2> QED  BY <2>2 DEF ReadAdvance
<1>3. Pending \in Seq(Content) /\ Len(Pending) = length  BY PendingIsSeq
<1>4. Pending # <<>>  BY <1>1, <1>3
<1>5. procFrame \in Fifo!Found(1, Head(Pending))
  <2>1. head + 1 - 1 = head /\ head % BUFFER_NUM = head /\ 1 \in 1 .. length
        /\ 1 \in 1 .. BUFFER_NUM + 1
    BY <1>0, <1>1, ModSmall DEF Index
  <2>2. Pending[1] = slots[head]  BY <2>1, PendingIsSeq
  <2>3. Head(Pending) = slots[head]  BY <1>3, <1>4, <2>2
  <2>4. Fifo!Place(1) = head  BY <2>1, PlaceIsSlot
  <2> QED  BY <1>1, <2>3, <2>4 DEF Fifo!Found, Fifo!Content, Content
<1>6. Pending' = Tail(Pending)
  <2>1. Pending' = [k \in 1 .. length - 1 |-> slots[(head' + k - 1) % BUFFER_NUM]]
    BY <1>2 DEF Pending
  <2>2. Tail(Pending) = [k \in 1 .. length - 1 |-> Pending[k + 1]]
    BY <1>3, <1>4, TailAsFun
  <2>3. ASSUME NEW k \in 1 .. length - 1
        PROVE  slots[(head' + k - 1) % BUFFER_NUM] = Pending[k + 1]
    <3>1. /\ head' \in Index
          /\ head' = IF head + 1 < BUFFER_NUM THEN head + 1 ELSE head + 1 - BUFFER_NUM
      BY <1>1, <1>2, SuccAt
    <3>2. /\ k - 1 \in 0 .. BUFFER_NUM /\ k \in 0 .. BUFFER_NUM
          /\ head' + (k - 1) = head' + k - 1
          /\ k + 1 \in 1 .. length /\ head + (k + 1) - 1 = head + k
      BY <1>0, <1>1, <3>1 DEF Index
    <3>3. (head' + k - 1) % BUFFER_NUM =
            IF head' + k - 1 < BUFFER_NUM THEN head' + k - 1 ELSE head' + k - 1 - BUFFER_NUM
      BY <3>1, <3>2, At
    <3>4. (head + k) % BUFFER_NUM =
            IF head + k < BUFFER_NUM THEN head + k ELSE head + k - BUFFER_NUM
      BY <1>1, <3>2, At
    <3>5. (head' + k - 1) % BUFFER_NUM = (head + k) % BUFFER_NUM
      BY <1>0, <1>1, <3>1, <3>2, <3>3, <3>4 DEF Index
    <3>6. Pending[k + 1] = slots[(head + (k + 1) - 1) % BUFFER_NUM]
      BY <3>2, PendingIsSeq
    <3> QED  BY <3>2, <3>5, <3>6
  <2> QED  BY <2>1, <2>2, <2>3
<1> QED  BY <1>2, <1>4, <1>5, <1>6 DEF Fifo!Get

(* A store behind the storage spoils the frame that lies there, if any.       *)
LEMMA OwnerSpoils ==
  ASSUME IInv, OwnerStores
  PROVE  [\E k \in 1 .. Len(Pending) : Fifo!Spoil(k)]_(Fifo!vars)
<1>0. BUFFER_NUM \in Nat \ {0}  BY BufferNumFits
<1>1. PICK i \in Index : ~Inside(i) /\ slots' = [slots EXCEPT ![i] = NoFrame]
  BY DEF OwnerStores
<1>2. UNCHANGED <<head, length, delivered>>  BY DEF OwnerStores, procVars
<1>3. head \in Index /\ length \in 0 .. BUFFER_NUM /\ slots \in [Index -> Content]
  BY DEF IInv, TypeOK, Content
<1>4. /\ Pending = [k \in 1 .. length |-> slots[(head + k - 1) % BUFFER_NUM]]
      /\ Pending' = [k \in 1 .. length |-> slots'[(head + k - 1) % BUFFER_NUM]]
      /\ Len(Pending) = length
  BY <1>2, PendingIsSeq DEF Pending
<1>5. ASSUME NEW k \in 1 .. length
      PROVE  /\ (head + k - 1) % BUFFER_NUM \in Index
             /\ (head + k - 1) % BUFFER_NUM =
                  IF head + k - 1 < BUFFER_NUM THEN head + k - 1 ELSE head + k - 1 - BUFFER_NUM
  <2>1. k - 1 \in 0 .. BUFFER_NUM /\ head + (k - 1) = head + k - 1
    BY <1>0, <1>3 DEF Index
  <2> QED  BY <1>3, <2>1, At
<1>6. CASE \E k \in 1 .. length : (head + k - 1) % BUFFER_NUM = i
  <2>1. PICK k \in 1 .. length : (head + k - 1) % BUFFER_NUM = i  BY <1>6
  <2>2. ASSUME NEW j \in 1 .. length, j # k
        PROVE  (head + j - 1) % BUFFER_NUM # i
    BY <1>0, <1>3, <1>5, <2>1, <2>2 DEF Index
  <2>3. ASSUME NEW j \in 1 .. length
        PROVE  slots'[(head + j - 1) % BUFFER_NUM] =
                 IF j = k THEN NoFrame ELSE slots[(head + j - 1) % BUFFER_NUM]
    BY <1>1, <1>3, <1>5, <2>1, <2>2
  <2>4. Pending' = [Pending EXCEPT ![k] = NoFrame]  BY <1>4, <2>3
  <2>5. k \in 1 .. BUFFER_NUM + 1  BY <1>0, <1>3
  <2>6. Fifo!Place(k) = i  BY <2>1, <2>5, PlaceIsSlot
  <2>7. Fifo!Spoil(k)  BY <1>1, <1>2, <2>4, <2>6 DEF Fifo!Spoil
  <2> QED  BY <1>4, <2>7
<1>7. CASE ~\E k \in 1 .. length : (head + k - 1) % BUFFER_NUM = i
  <2>1. ASSUME NEW j \in 1 .. length
        PROVE  slots'[(head + j - 1) % BUFFER_NUM] = slots[(head + j - 1) % BUFFER_NUM]
    BY <1>1, <1>3, <1>5, <1>7
  <2>2. Pending' = Pending  BY <1>4, <2>1
  <2> QED  BY <1>2, <2>2 DEF Fifo!vars
<1> QED  BY <1>6, <1>7

(* Every step of the receive path is a step of the FIFO or leaves it alone.   *)
LEMMA StepImplements ==
  ASSUME IInv, IInv', [Next]_vars
  PROVE  [Fifo!Next]_(Fifo!vars)
<1> USE DEF ring, recvVars, procVars
<1>1. CASE init_socket_comm_buffers
  <2>1. UNCHANGED <<slots, head, length, delivered>>
    BY <1>1 DEF init_socket_comm_buffers, InitIndices, InitStore, InitMutex, InitSem, IInv,
       StartInv
  <2> QED  BY <2>1, PendingKept DEF Fifo!vars
<1>2. CASE \/ \E f \in Frames : OnReceiveLinux(f)
           \/ WriteLock \/ WriteRefused \/ PostSem \/ OnCloseLinux
  <2>1. UNCHANGED <<slots, head, length, delivered>>
    BY <1>2 DEF OnReceiveLinux, WriteLock, WriteRefused, PostSem, OnCloseLinux
  <2> QED  BY <2>1, PendingKept DEF Fifo!vars
<1>3. CASE WriteCopy
  <2>1. UNCHANGED delivered  BY <1>3 DEF WriteCopy
  <2> QED  BY <1>3, <2>1, CopyKeepsPending DEF Fifo!vars
<1>4. CASE WriteAdvance  BY <1>4, AdvancePuts DEF Fifo!Next
<1>5. CASE ProcessTask \/ WaitSem \/ ReadLock \/ ReadEmpty \/ ReadCopy
  <2>1. UNCHANGED <<slots, head, length, delivered>>
    BY <1>5 DEF ProcessTask, WaitSem, ReadLock, ReadEmpty, ReadCopy
  <2> QED  BY <2>1, PendingKept DEF Fifo!vars
<1>6. CASE ReadAdvance  BY <1>6, AdvanceGets DEF Fifo!Next
<1>7. CASE OwnerStores  BY <1>7, OwnerSpoils DEF Fifo!Next
<1>8. CASE UNCHANGED vars
  <2>1. UNCHANGED <<slots, head, length, delivered>>  BY <1>8 DEF vars
  <2> QED  BY <2>1, PendingKept DEF Fifo!vars
<1> QED
  BY <1>1, <1>2, <1>3, <1>4, <1>5, <1>6, <1>7, <1>8 DEF Next, RecvThread, AnalyseData,
     write_ringbuff, ProcThread, read_ringbuff

(* The ring of hpsocket.c implements the bounded FIFO, which keeps what is    *)
(* stored inside buffer_storage, for every number of slots and every size.    *)
THEOREM RingIsFifo == ~EarlyReceive => (Spec => ImplementsFifo)
<1> SUFFICES ASSUME ~EarlyReceive PROVE Spec => ImplementsFifo  OBVIOUS
<1>1. Init => Fifo!Init
  <2> SUFFICES ASSUME Init PROVE Fifo!Init  OBVIOUS
  <2>1. IInv  BY InitIInv
  <2>2. Len(Pending) = 0 /\ Pending \in Seq(Content)  BY <2>1, PendingIsSeq DEF Init
  <2> QED  BY <2>2 DEF Init, Fifo!Init
<1>2. IInv /\ IInv' /\ [Next]_vars => [Fifo!Next]_(Fifo!vars)  BY StepImplements
<1>3. Spec => []IInv  BY Invariance
<1> QED  BY <1>1, <1>2, <1>3, PTL DEF Spec, ImplementsFifo, Fifo!Spec

(* Of a storage of 64 times 128 bytes, slots 256 bytes apart and frames of    *)
(* 138 bytes, half the slots lie inside.                                      *)
THEOREM HalfTheSlotsInside ==
  ASSUME BUFFER_NUM = 64, BUFFER_SIZE = 128, FRAME_SIZE = 138
  PROVE  \A i \in Index : Inside(i) <=> i < 32
  BY DEF Inside, Index

------------------------------------------------------------------------------
(* Wake-ups.                                                                  *)

(* Each step moves a token and its frame together: sem_post follows the       *)
(* write, sem_wait precedes the read.                                         *)
LEMMA NextWakeup ==
  ASSUME IInv, FrameHasWakeup, [Next]_vars
  PROVE  FrameHasWakeup'
<1>0. BUFFER_NUM \in Nat \ {0} /\ BUFFER_NUM <= 255  BY BufferNumFits
<1>a. length \in 0 .. BUFFER_NUM /\ sem \in Nat  BY DEF IInv, TypeOK
<1> USE DEF ring, recvVars, procVars, FrameHasWakeup, PostPending, TokenTaken
<1>1. CASE init_socket_comm_buffers
  BY <1>1, <1>a DEF init_socket_comm_buffers, InitIndices, InitStore, InitMutex, InitSem,
     IInv, StartInv
<1>2. CASE \E f \in Frames : OnReceiveLinux(f)
  BY <1>2, <1>a DEF OnReceiveLinux
<1>3. CASE WriteLock \/ WriteRefused \/ WriteCopy \/ PostSem \/ OnCloseLinux \/ OwnerStores
  BY <1>3, <1>a DEF WriteLock, WriteRefused, WriteCopy, PostSem, OnCloseLinux, OwnerStores
<1>4. CASE WriteAdvance
  <2>1. length < BUFFER_NUM  BY <1>4 DEF WriteAdvance, IInv, RecvInv
  <2>2. length' = length + 1
    BY <1>0, <1>a, <1>4, <2>1, LengthFits DEF WriteAdvance
  <2> QED  BY <1>4, <1>a, <2>2 DEF WriteAdvance
<1>5. CASE ProcessTask \/ WaitSem \/ ReadLock \/ ReadEmpty \/ ReadCopy
  BY <1>5, <1>a DEF ProcessTask, WaitSem, ReadLock, ReadEmpty, ReadCopy
<1>6. CASE ReadAdvance
  <2>1. length > 0  BY <1>6 DEF ReadAdvance, IInv, ProcInv
  <2>2. length' = length - 1
    BY <1>0, <1>a, <1>6, <2>1, LengthFits DEF ReadAdvance
  <2> QED  BY <1>6, <1>a, <2>1, <2>2 DEF ReadAdvance
<1>7. CASE UNCHANGED vars  BY <1>7 DEF vars
<1> QED
  BY <1>1, <1>2, <1>3, <1>4, <1>5, <1>6, <1>7 DEF Next,
     RecvThread, AnalyseData, write_ringbuff, ProcThread, read_ringbuff

(* Once start-up cannot be overtaken, every frame in the ring has a wake-up   *)
(* of its own.                                                                *)
THEOREM WakeupPerFrame == ~EarlyReceive => (Spec => []FrameHasWakeup)
<1> SUFFICES ASSUME ~EarlyReceive PROVE Spec => []FrameHasWakeup  OBVIOUS
<1>1. Init => FrameHasWakeup
  BY DEF Init, FrameHasWakeup, PostPending, TokenTaken
<1>2. IInv /\ FrameHasWakeup /\ [Next]_vars => FrameHasWakeup'  BY NextWakeup
<1>3. Spec => []IInv  BY Invariance
<1> QED  BY <1>1, <1>2, <1>3, PTL DEF Spec

------------------------------------------------------------------------------
(* The close.                                                                 *)

(* A frame served after the close was being waited for when it came.          *)
CloseInv == /\ late \in {0, 1}
            /\ globalRunning \/ procPc # "idle" => late = 0

(* The close callback lets the call of ProcessTask in progress finish, and    *)
(* no other begins.                                                           *)
THEOREM CloseStops == Spec => []AtMostOneAfterClose
<1>1. Init => CloseInv  BY DEF Init, CloseInv
<1>2. CloseInv /\ [Next]_vars => CloseInv'
  <2> SUFFICES ASSUME CloseInv, [Next]_vars PROVE CloseInv'  OBVIOUS
  <2> USE DEF ring, recvVars, procVars, CloseInv
  <2>1. CASE init_socket_comm_buffers
    BY <2>1 DEF init_socket_comm_buffers, InitIndices, InitStore, InitMutex, InitSem
  <2>2. CASE RecvThread
    BY <2>2 DEF RecvThread, OnReceiveLinux, AnalyseData, write_ringbuff, WriteLock,
       WriteRefused, WriteCopy, WriteAdvance, PostSem, OnCloseLinux
  <2>3. CASE ProcThread
    BY <2>3 DEF ProcThread, ProcessTask, WaitSem, read_ringbuff, ReadLock, ReadEmpty,
       ReadCopy, ReadAdvance
  <2>4. CASE OwnerStores  BY <2>4 DEF OwnerStores
  <2>5. CASE UNCHANGED vars  BY <2>5 DEF vars
  <2> QED  BY <2>1, <2>2, <2>3, <2>4, <2>5 DEF Next
<1>3. CloseInv => AtMostOneAfterClose  BY DEF CloseInv, AtMostOneAfterClose
<1> QED  BY <1>1, <1>2, <1>3, PTL DEF Spec

------------------------------------------------------------------------------
(* The segment queue.                                                         *)

(* The ring of the segments to run: end is _len slots after start, the slots  *)
(* between hold segments, and allFull tells a full ring from an empty one.    *)
QueueInv ==
  /\ tcqTypeOK
  /\ end = (start + _len) % Size
  /\ \A k \in 0 .. _len - 1 : tcqItem(k) \in Segments
  /\ AllFullExact

(* The history: the slots before start hold the segments run last, and a slot *)
(* is free between the oldest of them and the newest segment to run.          *)
HistInv ==
  /\ _len + _rlen < Size
  /\ rend = (start - _rlen) % Size
  /\ Len(history) = _rlen
  /\ \A j \in 1 .. _rlen : history[_rlen + 1 - j] = queue[(start - j) % Size]

------------------------------------------------------------------------------
(* The mapping to the tape.                                                   *)

(* The segments to run form a sequence of segments.                           *)
LEMMA AheadIsSeq ==
  ASSUME QueueInv
  PROVE  /\ Ahead \in Seq(Segments)
         /\ Len(Ahead) = _len
         /\ \A k \in 1 .. _len : Ahead[k] = tcqItem(k - 1)
<1>0. _len \in Nat  BY SizeIsPositive DEF QueueInv, tcqTypeOK
<1>1. ASSUME NEW k \in 1 .. _len PROVE tcqItem(k - 1) \in Segments
  <2>1. k - 1 \in 0 .. _len - 1  BY <1>0
  <2> QED  BY <2>1 DEF QueueInv
<1>2. Ahead \in [1 .. _len -> Segments]  BY <1>1 DEF Ahead
<1>3. Ahead \in Seq(Segments)  BY <1>0, <1>2, FunIsSeq
<1>4. Len(Ahead) = _len  BY <1>0, <1>2, FunIsSeq
<1>5. \A k \in 1 .. _len : Ahead[k] = tcqItem(k - 1)  BY DEF Ahead
<1> QED  BY <1>3, <1>4, <1>5

(* The slot of the k-th segment to run.                                       *)
LEMMA ItemSlot ==
  ASSUME tcqTypeOK, NEW k \in 0 .. Size
  PROVE  /\ (start + k) % Size = IF start + k < Size THEN start + k ELSE start + k - Size
         /\ (start + k) % Size \in Places
  BY SizeIsPositive, ModAfter DEF tcqTypeOK, Places

(* The newest n elements of a sequence form a sequence of at most n.          *)
LEMMA LatestIsSeq ==
  ASSUME NEW s \in Seq(Segments), NEW n \in Nat
  PROVE  Latest(s, n) \in Seq(Segments)
<1>1. CASE Len(s) <= n  BY <1>1 DEF Latest
<1>2. CASE ~(Len(s) <= n)
  <2>1. Len(s) \in Nat /\ Len(s) - n + 1 \in Int  BY LenProperties
  <2>2. \A i \in Len(s) - n + 1 .. Len(s) : s[i] \in Segments
    BY <1>2, <2>1, ElementOfSeq
  <2>3. SubSeq(s, Len(s) - n + 1, Len(s)) \in Seq(Segments)
    BY <2>1, <2>2, SubSeqProperties
  <2> QED  BY <1>2, <2>3 DEF Latest
<1> QED  BY <1>1, <1>2

------------------------------------------------------------------------------
(* One lemma per operation: it keeps the ring and is a step of the tape.      *)

(* A new queue is an empty tape.                                              *)
LEMMA StartIsEmpty ==
  ASSUME tcqCreate
  PROVE  QueueInv /\ Tape!Init
<1>0. 0 \in Places /\ Size \in Nat \ {0} /\ Size > 0  BY SizeIsPositive DEF Places
<1>1. tcqTypeOK  BY <1>0, MarginsAreNat DEF tcqCreate, tcqTypeOK
<1>2. QueueInv
  <2>1. (start + _len) % Size = 0  BY <1>0, <1>1, ItemSlot DEF tcqCreate
  <2> QED  BY <1>0, <1>1, <2>1 DEF tcqCreate, QueueInv, AllFullExact
<1>3. Len(Ahead) = 0 /\ Ahead \in Seq(Segments)  BY <1>2, AheadIsSeq DEF tcqCreate
<1>4. Tape!Init  BY <1>3 DEF tcqCreate, Tape!Init
<1> QED  BY <1>2, <1>4

(* tcqInit clears the tape.                                                   *)
LEMMA InitStep ==
  ASSUME QueueInv, tcqInit
  PROVE  QueueInv' /\ Tape!Clear
<1>0. 0 \in Places /\ Size \in Nat \ {0} /\ Size > 0  BY SizeIsPositive DEF Places
<1>1. tcqTypeOK'  BY <1>0, MarginsAreNat DEF QueueInv, tcqTypeOK, tcqInit
<1>2. (0 + 0) % Size = 0  BY <1>0, ModSmall
<1>3. QueueInv'  BY <1>0, <1>1, <1>2 DEF tcqInit, QueueInv, AllFullExact
<1>4. Ahead' = [k \in 1 .. 0 |-> tcqItem(k - 1)']  BY DEF tcqInit, Ahead
<1>5. Ahead' = <<>>
  <2>1. Ahead' \in [1 .. 0 -> Segments]  BY <1>4
  <2>2. Ahead' \in Seq(Segments) /\ Len(Ahead') = 0  BY <2>1, FunIsSeq
  <2> QED  BY <2>2
<1> QED  BY <1>3, <1>5 DEF tcqInit, Tape!Clear

(* tcqPut appends, and writes no slot of a segment still to run.              *)
LEMMA PutStep ==
  ASSUME QueueInv, NEW tc \in Segments, tcqPut(tc)
  PROVE  QueueInv' /\ Tape!Put(tc)
<1>0. Size \in Nat \ {0}  BY SizeIsPositive
<1>1. /\ queue' = [queue EXCEPT ![end] = tc]
      /\ _len' = _len + 1 /\ end' = (end + 1) % Size
      /\ allFull' = (end' = start)
      /\ UNCHANGED <<_rlen, start, rend, history>>
  BY DEF tcqPut
<1>2. _len \in 0 .. Size - 1 /\ start \in Places /\ end \in Places
      /\ queue \in [Places -> Segments \cup {NoSegment}]
  BY <1>0 DEF tcqPut, QueueInv, tcqTypeOK, AllFullExact
<1>3. end = IF start + _len < Size THEN start + _len ELSE start + _len - Size
  <2>1. end = (start + _len) % Size  BY Zenon DEF QueueInv
  <2>2. _len \in 0 .. Size  BY <1>0, <1>2
  <2> QED  BY <1>0, <1>2, <2>1, <2>2, ModAfter DEF Places
<1>4. end' = (IF end + 1 < Size THEN end + 1 ELSE end + 1 - Size) /\ end' \in Places
  <2>1. 1 \in 0 .. Size  BY <1>0
  <2> QED  BY <1>0, <1>1, <1>2, <2>1, ModAfter DEF Places
<1>5. end' = (start + (_len + 1)) % Size
  <2>1. _len + 1 \in 0 .. Size  BY <1>0, <1>2
  <2>2. (start + (_len + 1)) % Size =
          IF start + (_len + 1) < Size THEN start + (_len + 1) ELSE start + (_len + 1) - Size
    BY <2>1, ItemSlot DEF QueueInv
  <2> QED  BY <1>0, <1>2, <1>3, <1>4, <2>2 DEF Places
<1>6. ASSUME NEW k \in 0 .. _len
      PROVE  tcqItem(k)' = IF k = _len THEN tc ELSE tcqItem(k)
  <2>1. k \in 0 .. Size  BY <1>0, <1>2
  <2>2. /\ (start + k) % Size = IF start + k < Size THEN start + k ELSE start + k - Size
        /\ (start + k) % Size \in Places
    BY <2>1, ItemSlot DEF QueueInv
  <2>3. (start + k) % Size = end <=> k = _len
    BY <1>0, <1>2, <1>3, <2>1, <2>2 DEF Places
  <2> QED  BY <1>1, <1>2, <2>2, <2>3 DEF tcqItem
<1>7. tcqTypeOK'
  BY <1>0, <1>1, <1>2, <1>4 DEF QueueInv, tcqTypeOK
<1>8. AllFullExact'
  <2>1. end' = start <=> _len + 1 = Size
    BY <1>0, <1>2, <1>3, <1>4 DEF Places
  <2> QED  BY <1>1, <2>1 DEF AllFullExact
<1>9. QueueInv'
  <2>1. ASSUME NEW k \in 0 .. _len' - 1 PROVE tcqItem(k)' \in Segments
    <3>1. k \in 0 .. _len  BY <1>1, <1>2
    <3>2. CASE k = _len  BY <1>6, <3>1, <3>2
    <3>3. CASE k # _len
      <4>1. k \in 0 .. _len - 1  BY <1>2, <3>1, <3>3
      <4>2. tcqItem(k) \in Segments  BY <4>1 DEF QueueInv
      <4> QED  BY <1>6, <3>1, <3>3, <4>2
    <3> QED  BY <3>2, <3>3
  <2>2. end' = (start' + _len') % Size  BY <1>1, <1>5
  <2> QED  BY <1>7, <1>8, <2>1, <2>2 DEF QueueInv
<1>10. Ahead \in Seq(Segments) /\ Len(Ahead) = _len  BY AheadIsSeq
<1>11. Ahead' = Append(Ahead, tc)
  <2>1. Ahead' = [k \in 1 .. _len + 1 |-> tcqItem(k - 1)']  BY <1>1 DEF Ahead
  <2>2. Append(Ahead, tc) = [k \in 1 .. _len + 1 |-> IF k = _len + 1 THEN tc ELSE Ahead[k]]
    BY <1>10, AppendAsFun
  <2>3. ASSUME NEW k \in 1 .. _len + 1
        PROVE  tcqItem(k - 1)' = IF k = _len + 1 THEN tc ELSE Ahead[k]
    <3>1. k - 1 \in 0 .. _len /\ (k - 1 = _len <=> k = _len + 1)  BY <1>2
    <3>2. k # _len + 1 => Ahead[k] = tcqItem(k - 1)
      <4>1. k # _len + 1 => k \in 1 .. _len  BY <1>2
      <4> QED  BY <4>1, AheadIsSeq
    <3> QED  BY <1>6, <3>1, <3>2
  <2> QED  BY <2>1, <2>2, <2>3
<1> QED  BY <1>0, <1>1, <1>2, <1>9, <1>10, <1>11 DEF Tape!Put

(* Moving start n places on drops the n oldest segments to run.               *)
LEMMA Forward ==
  ASSUME QueueInv, NEW n \in 1 .. Size, n <= _len,
         start' = (start + n) % Size, _len' = _len - n,
         UNCHANGED <<queue, end>>
  PROVE  /\ start' \in Places
         /\ end' = (start' + _len') % Size
         /\ \A k \in 0 .. _len' - 1 : tcqItem(k)' = tcqItem(k + n) /\ tcqItem(k)' \in Segments
         /\ Ahead' = SubSeq(Ahead, n + 1, Len(Ahead))
<1>0. Size \in Nat \ {0} /\ _len \in 0 .. Size /\ start \in Places
  BY SizeIsPositive DEF QueueInv, tcqTypeOK
<1>1. start' = (IF start + n < Size THEN start + n ELSE start + n - Size) /\ start' \in Places
  <2>1. n \in 0 .. Size  BY <1>0
  <2> QED  BY <2>1, ItemSlot DEF QueueInv
<1>2. ASSUME NEW k \in 0 .. _len - n
      PROVE  (start' + k) % Size = (start + (k + n)) % Size
  <2>1. k \in 0 .. Size /\ k + n \in 0 .. Size  BY <1>0
  <2>2. (start' + k) % Size = IF start' + k < Size THEN start' + k ELSE start' + k - Size
    BY <1>0, <1>1, <2>1, ModAfter DEF Places
  <2>3. (start + (k + n)) % Size =
          IF start + (k + n) < Size THEN start + (k + n) ELSE start + (k + n) - Size
    BY <2>1, ItemSlot DEF QueueInv
  <2> QED  BY <1>0, <1>1, <2>1, <2>2, <2>3 DEF Places
<1>3. end' = (start' + _len') % Size
  <2>1. _len - n \in 0 .. _len - n /\ (_len - n) + n = _len  BY <1>0
  <2>2. (start' + (_len - n)) % Size = (start + _len) % Size  BY <1>2, <2>1
  <2> QED  BY <2>2 DEF QueueInv
<1>4. ASSUME NEW k \in 0 .. _len' - 1
      PROVE  tcqItem(k)' = tcqItem(k + n) /\ tcqItem(k)' \in Segments
  <2>1. k \in 0 .. _len - n /\ k + n \in 0 .. _len - 1  BY <1>0
  <2>2. tcqItem(k)' = tcqItem(k + n)  BY <1>2, <2>1 DEF tcqItem
  <2>3. tcqItem(k + n) \in Segments  BY <2>1 DEF QueueInv
  <2> QED  BY <2>2, <2>3
<1>5. Ahead \in Seq(Segments) /\ Len(Ahead) = _len  BY AheadIsSeq
<1>6. Ahead' = SubSeq(Ahead, n + 1, Len(Ahead))
  <2>1. Ahead' = [k \in 1 .. _len - n |-> tcqItem(k - 1)']  BY DEF Ahead
  <2>2. n + 1 \in 1 .. Len(Ahead) + 1 /\ Len(Ahead) \in (n + 1) - 1 .. Len(Ahead)
        /\ Len(Ahead) - (n + 1) + 1 = _len - n
    BY <1>0, <1>5
  <2>3. SubSeq(Ahead, n + 1, Len(Ahead)) = [k \in 1 .. _len - n |-> Ahead[(n + 1) + k - 1]]
    BY <1>5, <2>2, SubSeqAsFun
  <2>4. ASSUME NEW k \in 1 .. _len - n
        PROVE  tcqItem(k - 1)' = Ahead[(n + 1) + k - 1]
    <3>1. /\ k - 1 \in 0 .. _len' - 1 /\ (n + 1) + k - 1 \in 1 .. _len
          /\ (n + 1) + k - 1 - 1 = (k - 1) + n
      BY <1>0
    <3>2. Ahead[(n + 1) + k - 1] = tcqItem((n + 1) + k - 1 - 1)  BY <3>1, AheadIsSeq
    <3> QED  BY <1>4, <3>1, <3>2
  <2> QED  BY <2>1, <2>3, <2>4
<1> QED  BY <1>1, <1>3, <1>4, <1>6

(* tcqRemove drops the n oldest segments to run.                              *)
LEMMA RemoveStep ==
  ASSUME QueueInv, NEW n \in 1 .. Size, tcqRemove(n)
  PROVE  QueueInv' /\ n \in 1 .. Len(Ahead) /\ Tape!Drop(n)
<1>0. Size \in Nat \ {0} /\ _len \in 0 .. Size  BY SizeIsPositive DEF QueueInv, tcqTypeOK
<1>1. /\ n <= _len /\ start' = (start + n) % Size /\ _len' = _len - n
      /\ allFull' = FALSE
      /\ UNCHANGED <<queue, _rlen, end, rend, history>>
  BY DEF tcqRemove
<1>2. /\ start' \in Places
      /\ end' = (start' + _len') % Size
      /\ \A k \in 0 .. _len' - 1 : tcqItem(k)' \in Segments
      /\ Ahead' = SubSeq(Ahead, n + 1, Len(Ahead))
  BY <1>1, Forward
<1>3. tcqTypeOK'
  <2>1. allFull' \in BOOLEAN  BY <1>1, Zenon
  <2>2. _len' \in 0 .. Size  BY <1>0, <1>1
  <2> QED  BY <1>1, <1>2, <2>1, <2>2 DEF QueueInv, tcqTypeOK
<1>4. AllFullExact'  BY <1>0, <1>1 DEF AllFullExact
<1>5. Len(Ahead) = _len  BY AheadIsSeq
<1> QED  BY <1>0, <1>1, <1>2, <1>3, <1>4, <1>5 DEF QueueInv, Tape!Drop

(* tcqPop moves the next segment to run to the history of the tape.           *)
LEMMA PopStep ==
  ASSUME QueueInv, tcqPop
  PROVE  QueueInv' /\ Tape!Advance
<1>0. Size \in Nat \ {0} /\ _len \in 0 .. Size /\ start \in Places
  BY SizeIsPositive DEF QueueInv, tcqTypeOK
<1>1. _len >= 1  BY <1>0 DEF tcqPop, QueueInv, AllFullExact
<1>2. /\ start' = (start + 1) % Size /\ _len' = _len - 1 /\ allFull' = FALSE
      /\ history' = Latest(Append(history, queue[start]), TCQ_REVERSE_MARGIN)
      /\ UNCHANGED <<queue, end>>
  BY DEF tcqPop
<1>3. /\ start' \in Places
      /\ end' = (start' + _len') % Size
      /\ \A k \in 0 .. _len' - 1 : tcqItem(k)' \in Segments
      /\ Ahead' = SubSeq(Ahead, 2, Len(Ahead))
  <2>1. 1 \in 1 .. Size /\ 1 <= _len /\ 1 + 1 = 2  BY <1>0, <1>1
  <2> QED  BY <1>2, <2>1, Forward
<1>4. Ahead \in Seq(Segments) /\ Len(Ahead) = _len /\ Ahead[1] = tcqItem(0)
  <2>1. 1 \in 1 .. _len /\ 1 - 1 = 0  BY <1>0, <1>1
  <2> QED  BY <2>1, AheadIsSeq
<1>5. Ahead # <<>> /\ Head(Ahead) = queue[start] /\ queue[start] \in Segments
  <2>1. start + 0 = start /\ start % Size = start  BY <1>0, ModSmall DEF Places
  <2>2. tcqItem(0) = queue[start]  BY <2>1 DEF tcqItem
  <2>3. 0 \in 0 .. _len - 1  BY <1>0, <1>1
  <2>4. queue[start] \in Segments  BY <2>2, <2>3 DEF QueueInv
  <2> QED  BY <1>0, <1>1, <1>4, <2>2, <2>4
<1>6. Ahead' = Tail(Ahead)  BY <1>3, <1>4, <1>5, TailIsSubSeq
<1>7. history' \in Seq(Segments)
  <2>1. Append(history, queue[start]) \in Seq(Segments)
    BY <1>5, AppendProperties DEF QueueInv, tcqTypeOK
  <2> QED  BY <1>2, <2>1, LatestIsSeq, MarginsAreNat
<1>8. _rlen' \in 0 .. TCQ_REVERSE_MARGIN /\ rend' \in Places
  <2>1. CASE _rlen < TCQ_REVERSE_MARGIN
    <3>1. _rlen' = _rlen + 1 /\ rend' = rend  BY <2>1 DEF tcqPop
    <3> QED  BY <2>1, <3>1, MarginsAreNat DEF QueueInv, tcqTypeOK
  <2>2. CASE ~(_rlen < TCQ_REVERSE_MARGIN)
    <3>1. _rlen' = _rlen /\ rend' = (rend + 1) % Size  BY <2>2 DEF tcqPop
    <3>2. rend \in Places /\ rend + 1 \in Int  BY <1>0 DEF QueueInv, tcqTypeOK, Places
    <3>3. (rend + 1) % Size \in Places  BY <1>0, <3>2, ModRange DEF Places
    <3> QED  BY <3>1, <3>3 DEF QueueInv, tcqTypeOK
  <2> QED  BY <2>1, <2>2
<1>9. tcqTypeOK'
  <2>1. allFull' \in BOOLEAN  BY <1>2, Zenon
  <2>2. _len' \in 0 .. Size  BY <1>0, <1>1, <1>2
  <2> QED  BY <1>2, <1>3, <1>7, <1>8, <2>1, <2>2 DEF QueueInv, tcqTypeOK
<1>10. AllFullExact'  BY <1>0, <1>2 DEF AllFullExact
<1>11. Tape!Advance
  BY <1>2, <1>5, <1>6 DEF Tape!Advance, Tape!Latest, Latest
<1> QED  BY <1>3, <1>9, <1>10, <1>11 DEF QueueInv

(* tcqPopBack removes the newest segment, if the ring was not full: then the  *)
(* stale allFull it leaves does no harm.                                      *)
LEMMA PopBackStep ==
  ASSUME QueueInv, ~allFull, tcqPopBack
  PROVE  QueueInv' /\ Tape!PopBack
<1>0. Size \in Nat \ {0} /\ _len \in 0 .. Size /\ start \in Places /\ end \in Places
  BY SizeIsPositive DEF QueueInv, tcqTypeOK
<1>1. /\ _len >= 1 /\ end' = (end - 1 + Size) % Size /\ _len' = _len - 1
      /\ UNCHANGED <<queue, _rlen, start, rend, allFull, history>>
  BY DEF tcqPopBack
<1>2. end' = (IF end = 0 THEN Size - 1 ELSE end - 1) /\ end' \in Places
  <2>1. CASE end = 0
    <3>1. end - 1 + Size = Size - 1 /\ Size - 1 \in 0 .. Size - 1  BY <1>0, <2>1
    <3>2. (Size - 1) % Size = Size - 1  BY <1>0, <3>1, ModSmall
    <3> QED  BY <1>1, <2>1, <3>1, <3>2 DEF Places
  <2>2. CASE end # 0
    <3>1. end - 1 + Size \in Size .. 2 * Size - 1  BY <1>0, <2>2 DEF Places
    <3>2. (end - 1 + Size) % Size = (end - 1 + Size) - Size
      BY <1>0, <3>1, ModOnce, Zenon
    <3> QED  BY <1>0, <1>1, <2>2, <3>2 DEF Places
  <2> QED  BY <2>1, <2>2
<1>3. end' = (start' + _len') % Size
  <2>1. _len - 1 \in 0 .. Size  BY <1>0, <1>1
  <2>2. (start + (_len - 1)) % Size =
          IF start + (_len - 1) < Size THEN start + (_len - 1) ELSE start + (_len - 1) - Size
    BY <2>1, ItemSlot DEF QueueInv
  <2>3. end = IF start + _len < Size THEN start + _len ELSE start + _len - Size
    BY <1>0, ItemSlot DEF QueueInv
  <2>4. (IF end = 0 THEN Size - 1 ELSE end - 1) = (start + (_len - 1)) % Size
    BY <1>0, <1>1, <2>2, <2>3 DEF Places
  <2> QED  BY <1>1, <1>2, <2>4
<1>4. \A k \in 0 .. _len - 1 : tcqItem(k)' = tcqItem(k)  BY <1>1 DEF tcqItem
<1>5. tcqTypeOK'  BY <1>0, <1>1, <1>2 DEF QueueInv, tcqTypeOK
<1>6. AllFullExact'  BY <1>0, <1>1 DEF AllFullExact
<1>7. \A k \in 0 .. _len' - 1 : tcqItem(k)' \in Segments
  <2>1. \A k \in 0 .. _len' - 1 : k \in 0 .. _len - 1  BY <1>0, <1>1
  <2> QED  BY <1>4, <2>1 DEF QueueInv
<1>8. Ahead \in Seq(Segments) /\ Len(Ahead) = _len  BY AheadIsSeq
<1>9. Ahead' = SubSeq(Ahead, 1, Len(Ahead) - 1)
  <2>1. Ahead' = [k \in 1 .. _len - 1 |-> tcqItem(k - 1)']  BY <1>1 DEF Ahead
  <2>2. 1 \in 1 .. Len(Ahead) + 1 /\ Len(Ahead) - 1 \in 1 - 1 .. Len(Ahead)
        /\ (Len(Ahead) - 1) - 1 + 1 = _len - 1
    BY <1>0, <1>1, <1>8
  <2>3. SubSeq(Ahead, 1, Len(Ahead) - 1) = [k \in 1 .. _len - 1 |-> Ahead[1 + k - 1]]
    BY <1>8, <2>2, SubSeqAsFun
  <2>4. ASSUME NEW k \in 1 .. _len - 1 PROVE tcqItem(k - 1)' = Ahead[1 + k - 1]
    <3>1. k \in 1 .. _len /\ k - 1 \in 0 .. _len - 1 /\ 1 + k - 1 = k  BY <1>0, <1>1
    <3>2. Ahead[k] = tcqItem(k - 1)  BY <3>1, AheadIsSeq
    <3> QED  BY <1>4, <3>1, <3>2
  <2> QED  BY <2>1, <2>3, <2>4
<1>10. Ahead # <<>>  BY <1>0, <1>1, <1>8
<1> QED  BY <1>1, <1>3, <1>5, <1>6, <1>7, <1>9, <1>10 DEF QueueInv, Tape!PopBack

------------------------------------------------------------------------------
(* As the program uses the queue today.                                       *)

AsBuilt == "PopBack" \notin Ops /\ "BackStep" \notin Ops

(* Without the two operations no step leaves the ring or the tape.            *)
LEMMA NextAsBuilt ==
  ASSUME AsBuilt, QueueInv, [tcqNext]_tcqVars
  PROVE  QueueInv' /\ [Tape!Next]_(Tape!vars)
<1>1. CASE tcqInit  BY <1>1, InitStep DEF Tape!Next
<1>2. ASSUME NEW tc \in Segments, tcqPut(tc) PROVE QueueInv' /\ [Tape!Next]_(Tape!vars)
  BY <1>2, PutStep DEF Tape!Next
<1>3. CASE tcqPop  BY <1>3, PopStep DEF Tape!Next
<1>4. ASSUME NEW n \in 1 .. Size, tcqRemove(n) PROVE QueueInv' /\ [Tape!Next]_(Tape!vars)
  BY <1>4, RemoveStep DEF Tape!Next
<1>5. ~tcqPopBack /\ ~tcqBackStep  BY DEF AsBuilt, tcqPopBack, tcqBackStep
<1>6. CASE UNCHANGED tcqVars
  <2>1. UNCHANGED <<queue, _len, _rlen, start, end, rend, allFull, history>>
    BY <1>6 DEF tcqVars, tcq
  <2>2. QueueInv'
    BY <2>1 DEF QueueInv, tcqTypeOK, tcqItem, AllFullExact
  <2>3. UNCHANGED <<Ahead, history>>  BY <2>1 DEF Ahead, tcqItem
  <2> QED  BY <2>2, <2>3 DEF Tape!vars
<1> QED  BY <1>1, <1>2, <1>3, <1>4, <1>5, <1>6 DEF tcqNext

(* The ring stays a ring: type correctness of the queue as it is used today.  *)
THEOREM QueueTypeCorrect == AsBuilt => (tcqSpec => []tcqTypeOK)
<1> SUFFICES ASSUME AsBuilt PROVE tcqSpec => []tcqTypeOK  OBVIOUS
<1>1. tcqCreate => QueueInv  BY StartIsEmpty
<1>2. QueueInv /\ [tcqNext]_tcqVars => QueueInv'  BY NextAsBuilt
<1>3. QueueInv => tcqTypeOK  BY DEF QueueInv
<1> QED  BY <1>1, <1>2, <1>3, PTL DEF tcqSpec

(* As used today, allFull is set exactly when every slot holds a segment to   *)
(* run, so tcqPut never refuses a segment it has room for.                    *)
THEOREM FlagIsExact == AsBuilt => (tcqSpec => []AllFullExact)
<1> SUFFICES ASSUME AsBuilt PROVE tcqSpec => []AllFullExact  OBVIOUS
<1>1. tcqCreate => QueueInv  BY StartIsEmpty
<1>2. QueueInv /\ [tcqNext]_tcqVars => QueueInv'  BY NextAsBuilt
<1>3. QueueInv => AllFullExact  BY DEF QueueInv
<1> QED  BY <1>1, <1>2, <1>3, PTL DEF tcqSpec

(* As used today, no segment to run is lost, repeated, altered or reordered,  *)
(* whatever the appender does and however full the queue is.                  *)
THEOREM QueueIsTape == AsBuilt => (tcqSpec => ImplementsTape)
<1> SUFFICES ASSUME AsBuilt PROVE tcqSpec => ImplementsTape  OBVIOUS
<1>1. tcqCreate => QueueInv /\ Tape!Init  BY StartIsEmpty
<1>2. QueueInv /\ [tcqNext]_tcqVars => QueueInv' /\ [Tape!Next]_(Tape!vars)  BY NextAsBuilt
<1> QED  BY <1>1, <1>2, PTL DEF tcqSpec, ImplementsTape, Tape!Spec

------------------------------------------------------------------------------
(* With tcqPopBack and tcqBackStep, on a queue larger than its margin, as the *)
(* program's is (2000 against 220).  tcqRemove, which nothing calls, is out:  *)
(* it moves start past segments it does not count as run.                     *)

Reversible == Size > TC_QUEUE_MARGIN /\ "Remove" \notin Ops

FullInv == QueueInv /\ HistInv

(* What holds of the variables once the ring is crowded.                      *)
RingTyped ==
  /\ queue \in [Places -> Segments \cup {NoSegment}]
  /\ start \in Places /\ end \in Places
  /\ crowded \in BOOLEAN

UntilCrowdedInv == RingTyped /\ (~crowded => FullInv)

(* What the history invariant says in numbers.                                *)
LEMMA HistNumbers ==
  ASSUME FullInv
  PROVE  /\ Size \in Nat \ {0} /\ ExtraMargin \in Nat \ {0} /\ TCQ_REVERSE_MARGIN \in Nat
         /\ _len \in Nat /\ _rlen \in Nat /\ _rlen <= TCQ_REVERSE_MARGIN
         /\ _len + _rlen < Size
         /\ start \in 0 .. Size - 1 /\ end \in 0 .. Size - 1 /\ rend \in 0 .. Size - 1
         /\ ~allFull
         /\ history \in Seq(Segments) /\ Len(history) = _rlen
<1>1. /\ Size \in Nat \ {0} /\ ExtraMargin \in Nat \ {0} /\ TCQ_REVERSE_MARGIN \in Nat
      /\ _len \in Nat /\ _rlen \in Nat /\ _rlen <= TCQ_REVERSE_MARGIN
      /\ start \in 0 .. Size - 1 /\ end \in 0 .. Size - 1 /\ rend \in 0 .. Size - 1
      /\ _len + _rlen < Size
      /\ history \in Seq(Segments) /\ Len(history) = _rlen
  BY SizeIsPositive, MarginsAreNat DEF FullInv, QueueInv, HistInv, tcqTypeOK, Places
<1>2. _len + _rlen < Size /\ _len # Size  BY <1>1
<1>3. ~allFull  BY <1>2 DEF FullInv, QueueInv, AllFullExact
<1> QED  BY <1>1, <1>2, <1>3

(* The history invariant gives the property the runs check.                   *)
LEMMA HistGivesIntact == UntilCrowdedInv => HistoryIntact
<1> SUFFICES ASSUME FullInv PROVE Behind = history
  BY Zenon DEF UntilCrowdedInv, HistoryIntact
<1>0. /\ _rlen \in Nat /\ start \in Int /\ history \in Seq(Segments) /\ Len(history) = _rlen
  BY HistNumbers
<1>1. ASSUME NEW k \in 1 .. _rlen PROVE queue[(start - _rlen + k - 1) % Size] = history[k]
  <2>1. _rlen + 1 - k \in 1 .. _rlen /\ _rlen + 1 - (_rlen + 1 - k) = k
        /\ start - (_rlen + 1 - k) = start - _rlen + k - 1
    BY <1>0
  <2>2. history[_rlen + 1 - (_rlen + 1 - k)] = queue[(start - (_rlen + 1 - k)) % Size]
    BY <2>1 DEF FullInv, HistInv
  <2> QED  BY <2>1, <2>2
<1>2. history = [k \in 1 .. _rlen |-> history[k]]  BY <1>0
<1>3. Behind = [k \in 1 .. _rlen |-> history[k]]  BY <1>1 DEF Behind
<1> QED  BY <1>2, <1>3

(* tcqPut writes no slot of the history while one is free.                    *)
LEMMA HistPut ==
  ASSUME FullInv, NEW tc \in Segments, tcqPut(tc), _len' + _rlen < Size
  PROVE  HistInv'
<1>0. /\ Size \in Nat \ {0} /\ TCQ_REVERSE_MARGIN \in Nat
      /\ _len \in Nat /\ _rlen \in Nat /\ _rlen <= TCQ_REVERSE_MARGIN
      /\ _len + _rlen < Size /\ start \in 0 .. Size - 1 /\ end \in 0 .. Size - 1
  BY HistNumbers
<1>1. /\ queue' = [queue EXCEPT ![end] = tc] /\ _len' = _len + 1
      /\ UNCHANGED <<_rlen, start, rend, history>>
  BY DEF tcqPut
<1>3. _len' + _rlen' < Size  BY <1>1
<1>4. end = IF start + _len < Size THEN start + _len ELSE start + _len - Size
  <2>1. _len \in 0 .. Size  BY <1>0
  <2> QED  BY <2>1, ItemSlot DEF FullInv, QueueInv
<1>5. ASSUME NEW j \in 1 .. _rlen
      PROVE  queue'[(start - j) % Size] = queue[(start - j) % Size]
  <2>1. j \in 0 .. Size  BY <1>0
  <2>2. /\ (start - j) % Size = IF start >= j THEN start - j ELSE start - j + Size
        /\ (start - j) % Size \in 0 .. Size - 1
    BY <1>0, <2>1, ModBefore
  <2>3. (start - j) % Size # end  BY <1>0, <1>4, <2>2
  <2>4. queue \in [Places -> Segments \cup {NoSegment}]  BY DEF FullInv, QueueInv, tcqTypeOK
  <2> QED  BY <1>1, <2>2, <2>3, <2>4 DEF Places
<1>6. /\ rend' = (start' - _rlen') % Size /\ Len(history') = _rlen'
      /\ \A j \in 1 .. _rlen' : history'[_rlen' + 1 - j] = queue'[(start' - j) % Size]
  BY <1>1, <1>5 DEF FullInv, HistInv
<1> QED  BY <1>3, <1>6 DEF HistInv

(* tcqPopBack only moves end.                                                 *)
LEMMA HistPopBack ==
  ASSUME FullInv, tcqPopBack
  PROVE  HistInv'
<1>0. Size \in Nat /\ _len \in Nat /\ _rlen \in Nat /\ _len + _rlen < Size  BY HistNumbers
<1>1. _len' = _len - 1 /\ UNCHANGED <<queue, _rlen, start, rend, history>>
  BY DEF tcqPopBack
<1>2. _len' + _rlen' < Size  BY <1>0, <1>1
<1> QED  BY <1>1, <1>2 DEF FullInv, HistInv

(* The last n elements of a sequence one longer than n, or at most n long.    *)
LEMMA LatestAppend ==
  ASSUME NEW s \in Seq(Segments), NEW e \in Segments, NEW n \in Nat, Len(s) <= n
  PROVE  /\ Len(Latest(Append(s, e), n)) = IF Len(s) < n THEN Len(s) + 1 ELSE n
         /\ \A j \in 1 .. Len(Latest(Append(s, e), n)) :
              Latest(Append(s, e), n)[Len(Latest(Append(s, e), n)) + 1 - j] =
                IF j = 1 THEN e ELSE s[Len(s) + 1 - (j - 1)]
<1> DEFINE a == Append(s, e)
<1>0. Len(s) \in Nat  BY LenProperties
<1>1. a = [k \in 1 .. Len(s) + 1 |-> IF k = Len(s) + 1 THEN e ELSE s[k]]
  BY AppendAsFun
<1>2. a \in Seq(Segments) /\ Len(a) = Len(s) + 1  BY AppendProperties
<1>3. CASE Len(s) < n
  <2>1. Latest(a, n) = a  BY <1>0, <1>2, <1>3 DEF Latest
  <2>3. ASSUME NEW j \in 1 .. Len(s) + 1
        PROVE  a[Len(s) + 1 + 1 - j] = IF j = 1 THEN e ELSE s[Len(s) + 1 - (j - 1)]
    <3>1. /\ Len(s) + 1 + 1 - j \in 1 .. Len(s) + 1
          /\ Len(s) + 1 + 1 - j = Len(s) + 1 <=> j = 1
          /\ Len(s) + 1 + 1 - j = Len(s) + 1 - (j - 1)
      BY <1>0
    <3> HIDE DEF a
    <3> QED  BY <1>1, <3>1
  <2> QED  BY <1>2, <1>3, <2>1, <2>3
<1>4. CASE ~(Len(s) < n)
  <2>1. Len(s) = n /\ ~(Len(a) <= n) /\ Len(a) = n + 1  BY <1>0, <1>2, <1>4
  <2>2. Latest(a, n) = SubSeq(a, 2, n + 1)
    <3>1. Len(a) - n + 1 = 2  BY <2>1
    <3> QED  BY <2>1, <3>1 DEF Latest
  <2>3. /\ 2 \in 1 .. Len(a) + 1 /\ n + 1 \in 2 - 1 .. Len(a) /\ (n + 1) - 2 + 1 = n
    BY <2>1
  <2> HIDE DEF a
  <2>4. SubSeq(a, 2, n + 1) = [k \in 1 .. n |-> a[2 + k - 1]]
    BY <1>2, <2>3, SubSeqAsFun
  <2>5. Len(SubSeq(a, 2, n + 1)) = n
    <3>1. \A i \in 2 .. n + 1 : a[i] \in Segments  BY <1>2, <2>1, ElementOfSeq
    <3>2. [k \in 1 .. n |-> a[2 + k - 1]] \in [1 .. n -> Segments]
      <4>1. \A k \in 1 .. n : 2 + k - 1 \in 2 .. n + 1  OBVIOUS
      <4> QED  BY <3>1, <4>1
    <3> QED  BY <2>4, <3>2, FunIsSeq
  <2>6. ASSUME NEW j \in 1 .. n
        PROVE  SubSeq(a, 2, n + 1)[n + 1 - j] = IF j = 1 THEN e ELSE s[Len(s) + 1 - (j - 1)]
    <3>1. /\ n + 1 - j \in 1 .. n /\ 2 + (n + 1 - j) - 1 = n + 1 - (j - 1)
          /\ n + 1 - (j - 1) \in 1 .. Len(s) + 1
          /\ n + 1 - (j - 1) = Len(s) + 1 <=> j = 1
      BY <2>1
    <3>2. SubSeq(a, 2, n + 1)[n + 1 - j] = a[n + 1 - (j - 1)]  BY <2>4, <3>1
    <3>3. a[n + 1 - (j - 1)] = IF j = 1 THEN e ELSE s[n + 1 - (j - 1)]  BY <1>1, <3>1
    <3> QED  BY <2>1, <3>2, <3>3
  <2> QED  BY <1>4, <2>1, <2>2, <2>5, <2>6 DEF a
<1> QED  BY <1>3, <1>4

(* tcqPop turns the oldest segment to run into the newest of the history.     *)
LEMMA HistPop ==
  ASSUME FullInv, tcqPop
  PROVE  HistInv'
<1> DEFINE l == IF _rlen < TCQ_REVERSE_MARGIN THEN _rlen + 1 ELSE TCQ_REVERSE_MARGIN
<1>0. /\ Size \in Nat \ {0} /\ TCQ_REVERSE_MARGIN \in Nat /\ ExtraMargin \in Nat \ {0}
      /\ _len \in Nat /\ _rlen \in Nat /\ _rlen <= TCQ_REVERSE_MARGIN
      /\ _len + _rlen < Size /\ start \in 0 .. Size - 1 /\ rend \in 0 .. Size - 1
      /\ ~allFull /\ history \in Seq(Segments) /\ Len(history) = _rlen
  BY HistNumbers
<1>1. /\ _len >= 1 /\ start' = (start + 1) % Size /\ _len' = _len - 1
      /\ history' = Latest(Append(history, queue[start]), TCQ_REVERSE_MARGIN)
      /\ queue' = queue
  BY <1>0 DEF tcqPop
<1>2. _rlen' = l /\ l \in Nat /\ l <= _rlen + 1 /\ l < Size
  <2>1. CASE _rlen < TCQ_REVERSE_MARGIN
    <3>1. _rlen' = _rlen + 1  BY <2>1 DEF tcqPop
    <3> QED  BY <1>0, <1>1, <2>1, <3>1
  <2>2. CASE ~(_rlen < TCQ_REVERSE_MARGIN)
    <3>1. _rlen' = _rlen  BY <2>2 DEF tcqPop
    <3> QED  BY <1>0, <1>1, <2>2, <3>1
  <2> QED  BY <2>1, <2>2
<1>3. queue[start] \in Segments
  <2>1. 0 \in 0 .. _len - 1 /\ 0 \in 0 .. Size /\ start + 0 < Size  BY <1>0, <1>1
  <2>2. (start + 0) % Size = start  BY <1>0, <2>1, ModSmall
  <2>3. tcqItem(0) \in Segments  BY <2>1 DEF FullInv, QueueInv
  <2> QED  BY <2>2, <2>3 DEF tcqItem
<1>4. start' = (IF start + 1 < Size THEN start + 1 ELSE start + 1 - Size)
      /\ start' \in 0 .. Size - 1
  <2>1. 1 \in 0 .. Size  BY <1>0
  <2> QED  BY <1>0, <1>1, <2>1, ModAfter
<1>5. rend' = (start' - l) % Size
  <2>1. rend = IF start >= _rlen THEN start - _rlen ELSE start - _rlen + Size
    <3>1. _rlen \in 0 .. Size  BY <1>0
    <3> QED  BY <1>0, <3>1, ModBefore DEF FullInv, HistInv
  <2>2. (start' - l) % Size = IF start' >= l THEN start' - l ELSE start' - l + Size
    <3>1. l \in 0 .. Size  BY <1>0, <1>2
    <3> HIDE DEF l
    <3> QED  BY <1>0, <1>4, <3>1, ModBefore
  <2>3. CASE _rlen < TCQ_REVERSE_MARGIN
    <3>1. rend' = rend /\ l = _rlen + 1  BY <2>3 DEF tcqPop
    <3> HIDE DEF l
    <3> QED  BY <1>0, <1>1, <1>4, <2>1, <2>2, <3>1
  <2>4. CASE ~(_rlen < TCQ_REVERSE_MARGIN)
    <3>1. rend' = (rend + 1) % Size /\ l = _rlen  BY <1>0, <2>4 DEF tcqPop
    <3>2. 1 \in 0 .. Size  BY <1>0
    <3>3. rend' = IF rend + 1 < Size THEN rend + 1 ELSE rend + 1 - Size
      BY <1>0, <3>1, <3>2, ModAfter
    <3> HIDE DEF l
    <3> QED  BY <1>0, <1>4, <2>1, <2>2, <3>1, <3>3
  <2> QED  BY <2>3, <2>4
<1>6. /\ Len(history') = l
      /\ \A j \in 1 .. l : history'[l + 1 - j] =
                             IF j = 1 THEN queue[start] ELSE history[_rlen + 1 - (j - 1)]
  <2>1. Len(history) <= TCQ_REVERSE_MARGIN  BY <1>0
  <2> DEFINE t == Latest(Append(history, queue[start]), TCQ_REVERSE_MARGIN)
  <2>2. Len(t) = IF Len(history) < TCQ_REVERSE_MARGIN THEN Len(history) + 1 ELSE TCQ_REVERSE_MARGIN
    BY <1>0, <1>3, <2>1, LatestAppend
  <2>3. \A j \in 1 .. Len(t) : t[Len(t) + 1 - j] =
             IF j = 1 THEN queue[start] ELSE history[Len(history) + 1 - (j - 1)]
    BY <1>0, <1>3, <2>1, LatestAppend
  <2>4. history' = t  BY <1>1
  <2> HIDE DEF t
  <2>5. Len(history') = l  BY <1>0, <2>2, <2>4
  <2> QED  BY <1>0, <2>3, <2>4, <2>5
<1> HIDE DEF l
<1>7. ASSUME NEW j \in 1 .. l PROVE history'[l + 1 - j] = queue[(start' - j) % Size]
  <2>1. j \in 1 .. Size /\ j \in Int  BY <1>0, <1>2
  <2>2. (start' - j) % Size = (start - (j - 1)) % Size
    BY <1>0, <1>1, <2>1, ModForwardBack
  <2>3. CASE j = 1
    <3>1. start - (j - 1) = start  BY <1>0, <2>3
    <3>2. start % Size = start  BY <1>0, ModSmall
    <3> QED  BY <1>6, <2>2, <2>3, <3>1, <3>2
  <2>4. CASE j # 1
    <3>1. j - 1 \in 1 .. _rlen  BY <1>0, <1>2, <2>1, <2>4
    <3>2. history[_rlen + 1 - (j - 1)] = queue[(start - (j - 1)) % Size]
      BY <3>1 DEF FullInv, HistInv
    <3> QED  BY <1>6, <2>2, <2>4, <3>2
  <2> QED  BY <2>3, <2>4
<1>8. _len' + _rlen' < Size  BY <1>0, <1>1, <1>2
<1> QED  BY <1>1, <1>2, <1>5, <1>6, <1>7, <1>8 DEF HistInv

(* tcqBackStep runs the newest segment of the history again.                  *)
LEMMA BackStepStep ==
  ASSUME FullInv, tcqBackStep
  PROVE  QueueInv' /\ HistInv' /\ Tape!StepBack
<1>0. /\ Size \in Nat \ {0} /\ TCQ_REVERSE_MARGIN \in Nat /\ ExtraMargin \in Nat \ {0}
      /\ _len \in Nat /\ _rlen \in Nat /\ _rlen <= TCQ_REVERSE_MARGIN
      /\ _len + _rlen < Size /\ start \in 0 .. Size - 1 /\ end \in 0 .. Size - 1
      /\ ~allFull /\ history \in Seq(Segments) /\ Len(history) = _rlen
  BY HistNumbers
<1>1. /\ start # rend /\ start' = (start - 1 + Size) % Size
      /\ _len' = _len + 1 /\ _rlen' = _rlen - 1
      /\ history' = SubSeq(history, 1, Len(history) - 1)
      /\ UNCHANGED <<queue, end, rend, allFull>>
  BY DEF tcqBackStep
<1>2. start' = (start - 1) % Size  BY <1>0, <1>1, ModBackTurn
<1>3. start' = (IF start >= 1 THEN start - 1 ELSE start - 1 + Size)
      /\ start' \in 0 .. Size - 1
  <2>1. 1 \in 0 .. Size  BY <1>0
  <2> QED  BY <1>0, <1>2, <2>1, ModBefore
<1>4. _rlen >= 1
  <2>1. CASE _rlen = 0
    <3>1. start - _rlen = start  BY <1>0, <2>1
    <3>2. start % Size = start  BY <1>0, ModSmall
    <3> QED  BY <1>1, <3>1, <3>2 DEF FullInv, HistInv
  <2> QED  BY <1>0, <2>1
<1>5. history[_rlen] = queue[start'] /\ history[_rlen] \in Segments
  <2>1. 1 \in 1 .. _rlen /\ _rlen + 1 - 1 = _rlen /\ _rlen \in 1 .. Len(history)
    BY <1>0, <1>4
  <2>2. history[_rlen + 1 - 1] = queue[(start - 1) % Size]  BY <2>1 DEF FullInv, HistInv
  <2> QED  BY <1>0, <1>2, <2>1, <2>2, ElementOfSeq
<1>6. ASSUME NEW k \in 0 .. _len + 1
      PROVE  k >= 1 => (start' + k) % Size = (start + (k - 1)) % Size
  <2>1. k \in 0 .. Size /\ (k >= 1 => k - 1 \in 0 .. Size)  BY <1>0, <1>4
  <2>2. (start' + k) % Size = IF start' + k < Size THEN start' + k ELSE start' + k - Size
    BY <1>0, <1>3, <2>1, ModAfter
  <2>3. k >= 1 => (start + (k - 1)) % Size =
          IF start + (k - 1) < Size THEN start + (k - 1) ELSE start + (k - 1) - Size
    BY <1>0, <2>1, ModAfter
  <2> QED  BY <1>0, <1>3, <2>1, <2>2, <2>3
<1>7. (start' + 0) % Size = start'
  <2>1. start' + 0 = start' /\ start' \in 0 .. Size - 1  BY <1>3
  <2> QED  BY <1>0, <2>1, ModSmall
<1>8. ASSUME NEW k \in 0 .. _len
      PROVE  tcqItem(k)' = IF k = 0 THEN history[_rlen] ELSE tcqItem(k - 1)
  <2>1. CASE k = 0  BY <1>1, <1>5, <1>7, <2>1 DEF tcqItem
  <2>2. CASE k # 0
    <3>1. k \in 0 .. _len + 1 /\ k >= 1  BY <1>0, <2>2
    <3>2. (start' + k) % Size = (start + (k - 1)) % Size  BY <1>6, <3>1
    <3> QED  BY <1>1, <2>2, <3>2 DEF tcqItem
  <2> QED  BY <2>1, <2>2
<1>9. end' = (start' + _len') % Size
  <2>1. _len + 1 \in 0 .. _len + 1 /\ _len + 1 >= 1 /\ _len + 1 - 1 = _len  BY <1>0
  <2>2. (start' + (_len + 1)) % Size = (start + _len) % Size  BY <1>0, <1>3, <1>6, <2>1
  <2> QED  BY <1>1, <2>2 DEF FullInv, QueueInv
<1>10. /\ 1 \in 1 .. Len(history) + 1 /\ Len(history) - 1 \in 1 - 1 .. Len(history)
       /\ (Len(history) - 1) - 1 + 1 = _rlen - 1
  BY <1>0, <1>4
<1>11. history' = [k \in 1 .. _rlen - 1 |-> history[1 + k - 1]]
  BY <1>0, <1>1, <1>10, SubSeqAsFun
<1>12. history' \in Seq(Segments) /\ Len(history') = _rlen - 1
  <2>1. \A k \in 1 .. _rlen - 1 : 1 + k - 1 \in 1 .. Len(history)  BY <1>0
  <2>2. history' \in [1 .. _rlen - 1 -> Segments]  BY <1>0, <1>11, <2>1, ElementOfSeq
  <2>3. _rlen - 1 \in Nat  BY <1>0, <1>4
  <2> QED  BY <2>2, <2>3, FunIsSeq
<1>13. QueueInv'
  <2>1. _len' \in 0 .. Size /\ _rlen' \in 0 .. TCQ_REVERSE_MARGIN /\ _len' # Size
    BY <1>0, <1>1, <1>4
  <2>2. tcqTypeOK'
    BY <1>1, <1>3, <1>12, <2>1 DEF FullInv, QueueInv, tcqTypeOK, Places
  <2>3. AllFullExact'  BY <1>0, <1>1, <2>1 DEF AllFullExact
  <2>4. ASSUME NEW k \in 0 .. _len' - 1 PROVE tcqItem(k)' \in Segments
    <3>1. k \in 0 .. _len /\ (k # 0 => k - 1 \in 0 .. _len - 1)  BY <1>0, <1>1
    <3>2. k # 0 => tcqItem(k - 1) \in Segments  BY <3>1 DEF FullInv, QueueInv
    <3> QED  BY <1>5, <1>8, <3>1, <3>2
  <2> QED  BY <1>9, <2>2, <2>3, <2>4 DEF QueueInv
<1>14. HistInv'
  <2>1. _len' + _rlen' < Size  BY <1>0, <1>1
  <2>2. ASSUME NEW j \in 0 .. _rlen - 1
        PROVE  (start' - j) % Size = (start - (j + 1)) % Size
    <3>1. j \in 0 .. Size - 1  BY <1>0
    <3> QED  BY <1>0, <1>2, <3>1, ModBackBack
  <2>3. rend' = (start' - _rlen') % Size
    <3>1. _rlen - 1 \in 0 .. _rlen - 1 /\ (_rlen - 1) + 1 = _rlen  BY <1>0, <1>4
    <3>2. (start' - (_rlen - 1)) % Size = (start - _rlen) % Size  BY <2>2, <3>1
    <3> QED  BY <1>1, <3>2 DEF FullInv, HistInv
  <2>4. ASSUME NEW j \in 1 .. _rlen'
        PROVE  history'[_rlen' + 1 - j] = queue'[(start' - j) % Size]
    <3>1. /\ j \in 0 .. _rlen - 1 /\ j + 1 \in 1 .. _rlen
          /\ _rlen' + 1 - j \in 1 .. _rlen - 1
          /\ 1 + (_rlen' + 1 - j) - 1 = _rlen + 1 - (j + 1)
      BY <1>0, <1>1
    <3>2. history'[_rlen' + 1 - j] = history[_rlen + 1 - (j + 1)]  BY <1>11, <3>1
    <3>3. history[_rlen + 1 - (j + 1)] = queue[(start - (j + 1)) % Size]
      BY <3>1 DEF FullInv, HistInv
    <3> QED  BY <1>1, <2>2, <3>1, <3>2, <3>3
  <2> QED  BY <1>1, <1>12, <2>1, <2>3, <2>4 DEF HistInv
<1>15. Ahead \in Seq(Segments) /\ Len(Ahead) = _len  BY AheadIsSeq DEF FullInv
<1>16. Ahead' = <<history[Len(history)]>> \o Ahead
  <2>1. Ahead' = [k \in 1 .. _len + 1 |-> tcqItem(k - 1)']  BY <1>1 DEF Ahead
  <2>2. <<history[_rlen]>> \o Ahead =
          [k \in 1 .. _len + 1 |-> IF k = 1 THEN history[_rlen] ELSE Ahead[k - 1]]
    BY <1>5, <1>15, ConsAsFun
  <2>3. ASSUME NEW k \in 1 .. _len + 1
        PROVE  tcqItem(k - 1)' = IF k = 1 THEN history[_rlen] ELSE Ahead[k - 1]
    <3>1. /\ k - 1 \in 0 .. _len /\ (k - 1 = 0 <=> k = 1)
          /\ (k # 1 => k - 1 \in 1 .. _len)
      BY <1>0
    <3>2. k # 1 => Ahead[k - 1] = tcqItem(k - 1 - 1)  BY <3>1, AheadIsSeq DEF FullInv
    <3> QED  BY <1>8, <3>1, <3>2
  <2> QED  BY <1>0, <2>1, <2>2, <2>3
<1>17. history # <<>>  BY <1>0, <1>4
<1> QED  BY <1>1, <1>13, <1>14, <1>16, <1>17 DEF Tape!StepBack

(* The history is empty in a new queue and after tcqInit.                     *)
LEMMA HistStart == (tcqCreate => HistInv) /\ (tcqInit => HistInv')
<1>0. Size \in Nat \ {0} /\ 0 + 0 < Size  BY SizeIsPositive
<1>1. (0 - 0) % Size = 0
  <2>1. 0 - 0 = 0 /\ 0 \in 0 .. Size - 1  BY <1>0
  <2> QED  BY <1>0, <2>1, ModSmall
<1>2. Len(<<>>) = 0  OBVIOUS
<1>3. tcqCreate => HistInv  BY <1>0, <1>1, <1>2 DEF tcqCreate, HistInv
<1>4. tcqInit => HistInv'  BY <1>0, <1>1, <1>2 DEF tcqInit, HistInv
<1> QED  BY <1>3, <1>4

(* Every operation keeps the types, crowded or not.                           *)
LEMMA NextTyped ==
  ASSUME RingTyped, [tcqNext]_tcqVars
  PROVE  RingTyped'
<1>0. Size \in Nat \ {0} /\ 0 \in Places  BY SizeIsPositive DEF Places
<1>1. CASE tcqInit  BY <1>0, <1>1 DEF tcqInit, RingTyped
<1>2. ASSUME NEW tc \in Segments, tcqPut(tc) PROVE RingTyped'
  <2>1. end' \in Places
    <3>1. end' = (end + 1) % Size /\ end + 1 \in Int  BY <1>0, <1>2 DEF tcqPut, RingTyped, Places
    <3> QED  BY <1>0, <3>1, ModRange DEF Places
  <2>2. queue' \in [Places -> Segments \cup {NoSegment}] /\ start' \in Places
    BY <1>2 DEF tcqPut, RingTyped
  <2>3. crowded' \in BOOLEAN  BY <1>2, Zenon DEF tcqPut
  <2> QED  BY <2>1, <2>2, <2>3 DEF RingTyped
<1>3. CASE tcqPop
  <2>1. start' \in Places
    <3>1. start' = (start + 1) % Size /\ start + 1 \in Int  BY <1>0, <1>3 DEF tcqPop, RingTyped, Places
    <3> QED  BY <1>0, <3>1, ModRange DEF Places
  <2> QED  BY <1>3, <2>1 DEF tcqPop, RingTyped
<1>4. CASE tcqPopBack
  <2>1. end' \in Places
    <3>1. end' = (end - 1 + Size) % Size /\ end - 1 + Size \in Int
      BY <1>0, <1>4 DEF tcqPopBack, RingTyped, Places
    <3> QED  BY <1>0, <3>1, ModRange DEF Places
  <2> QED  BY <1>4, <2>1 DEF tcqPopBack, RingTyped
<1>5. CASE tcqBackStep
  <2>1. start' \in Places
    <3>1. start' = (start - 1 + Size) % Size /\ start - 1 + Size \in Int
      BY <1>0, <1>5 DEF tcqBackStep, RingTyped, Places
    <3> QED  BY <1>0, <3>1, ModRange DEF Places
  <2> QED  BY <1>5, <2>1 DEF tcqBackStep, RingTyped
<1>6. ASSUME NEW n \in 1 .. Size, tcqRemove(n) PROVE RingTyped'
  <2>1. start' \in Places
    <3>1. start' = (start + n) % Size /\ start + n \in Int
      BY <1>0, <1>6 DEF tcqRemove, RingTyped, Places
    <3> QED  BY <1>0, <3>1, ModRange DEF Places
  <2> QED  BY <1>6, <2>1 DEF tcqRemove, RingTyped
<1>7. CASE UNCHANGED tcqVars  BY <1>7 DEF tcqVars, tcq, RingTyped
<1> QED  BY <1>1, <1>2, <1>3, <1>4, <1>5, <1>6, <1>7 DEF tcqNext

(* A put keeps the history or crowds the ring, and then tcqFull said so.      *)
LEMMA PutCrowds ==
  ASSUME Size > TC_QUEUE_MARGIN, FullInv, NEW tc \in Segments, tcqPut(tc)
  PROVE  (~crowded' => FullInv') /\ Tape!Put(tc) /\ (~crowded => (crowded' => tcqFull))
<1>0. /\ Size \in Nat \ {0} /\ TCQ_REVERSE_MARGIN \in Nat /\ ExtraMargin \in Nat \ {0}
      /\ _len \in Nat /\ _rlen \in Nat /\ _rlen <= TCQ_REVERSE_MARGIN
  BY HistNumbers
<1>1. QueueInv' /\ Tape!Put(tc)  BY PutStep DEF FullInv
<1>2. _len' = _len + 1 /\ crowded' = (crowded \/ _len' + _rlen >= Size)  BY DEF tcqPut
<1>3. ~crowded' => FullInv'
  <2>0. ~crowded' => ~(_len' + _rlen >= Size)  BY <1>2, Zenon
  <2>1. ~crowded' => _len' + _rlen < Size  BY <1>0, <1>2, <2>0
  <2> QED  BY <1>1, <2>1, HistPut DEF FullInv
<1>4. ASSUME ~crowded, crowded' PROVE tcqFull
  <2>0. _len' + _rlen >= Size  BY <1>2, <1>4, Zenon
  <2>1. _len + 1 + _rlen >= Size  BY <1>0, <1>2, <2>0
  <2>2. TC_QUEUE_MARGIN = TCQ_REVERSE_MARGIN + ExtraMargin  BY DEF TC_QUEUE_MARGIN
  <2>3. _len >= Size - TC_QUEUE_MARGIN /\ ~(Size <= TC_QUEUE_MARGIN)  BY <1>0, <2>1, <2>2
  <2> QED  BY <2>3 DEF tcqFull
<1> QED  BY <1>1, <1>3, <1>4

(* Until it is crowded no step leaves the ring, the history or the tape.      *)
LEMMA NextUntilCrowded ==
  ASSUME Reversible, UntilCrowdedInv, [tcqNext]_tcqVars
  PROVE  /\ UntilCrowdedInv'
         /\ [~crowded => Tape!Next /\ (crowded' => tcqFull)]_(Tape!vars)
<1>0. Size > TC_QUEUE_MARGIN /\ RingTyped /\ RingTyped' /\ (~crowded => FullInv)
  BY NextTyped DEF Reversible, UntilCrowdedInv
<1>1. CASE tcqInit
  <2>1. QueueInv' /\ HistInv' /\ Tape!Clear /\ ~crowded'
    <3>1. tcqTypeOK'
      <4>1. 0 \in Places /\ 0 \in 0 .. Size /\ 0 \in 0 .. TCQ_REVERSE_MARGIN
        BY SizeIsPositive, MarginsAreNat DEF Places
      <4>2. queue' = queue /\ queue \in [Places -> Segments \cup {NoSegment}]
        BY <1>0, <1>1 DEF RingTyped, tcqInit
      <4> QED  BY <1>1, <4>1, <4>2 DEF tcqTypeOK, tcqInit
    <3>2. (0 + 0) % Size = 0 /\ 0 # Size
      <4>1. Size \in Nat \ {0} /\ 0 + 0 \in 0 .. Size - 1  BY SizeIsPositive
      <4> QED  BY <4>1, ModSmall
    <3>3. QueueInv'  BY <1>1, <3>1, <3>2 DEF tcqInit, QueueInv, AllFullExact
    <3>4. Ahead' = <<>>
      <4>1. Ahead' \in [1 .. 0 -> Segments]  BY <1>1 DEF tcqInit, Ahead
      <4>2. Ahead' \in Seq(Segments) /\ Len(Ahead') = 0  BY <4>1, FunIsSeq
      <4> QED  BY <4>2
    <3> QED  BY <1>1, <3>3, <3>4, HistStart DEF tcqInit, Tape!Clear
  <2> QED  BY <1>0, <2>1 DEF UntilCrowdedInv, FullInv, Tape!Next
<1>2. CASE crowded /\ ~tcqInit
  <2>1. crowded'
    <3>1. ASSUME NEW tc \in Segments, tcqPut(tc) PROVE crowded'  BY <1>2, <3>1 DEF tcqPut
    <3>2. (tcqPop \/ tcqPopBack \/ tcqBackStep \/ UNCHANGED tcqVars) => crowded'
      BY <1>2 DEF tcqPop, tcqPopBack, tcqBackStep, tcqVars
    <3>3. \A n \in 1 .. Size : ~tcqRemove(n)  BY DEF Reversible, tcqRemove
    <3> QED  BY <1>2, <3>1, <3>2, <3>3 DEF tcqNext
  <2> QED  BY <1>0, <1>2, <2>1 DEF UntilCrowdedInv
<1>3. CASE ~crowded
  <2>0. FullInv /\ QueueInv /\ ~allFull  BY <1>0, <1>3, HistNumbers DEF FullInv
  <2>1. ASSUME NEW tc \in Segments, tcqPut(tc)
        PROVE  /\ UntilCrowdedInv'
               /\ [~crowded => Tape!Next /\ (crowded' => tcqFull)]_(Tape!vars)
    <3>1. (~crowded' => FullInv') /\ Tape!Put(tc) /\ (~crowded => (crowded' => tcqFull))
      BY <1>0, <2>0, <2>1, PutCrowds
    <3> QED  BY <1>0, <3>1 DEF UntilCrowdedInv, Tape!Next
  <2>2. ASSUME UNCHANGED crowded, FullInv', [Tape!Next]_(Tape!vars)
        PROVE  /\ UntilCrowdedInv'
               /\ [~crowded => Tape!Next /\ (crowded' => tcqFull)]_(Tape!vars)
    BY <1>0, <1>3, <2>2 DEF UntilCrowdedInv
  <2>3. CASE tcqPop
    <3>1. UNCHANGED crowded /\ FullInv' /\ Tape!Next
      BY <2>0, <2>3, PopStep, HistPop DEF Tape!Next, FullInv, tcqPop
    <3> QED  BY <2>2, <3>1
  <2>4. CASE tcqPopBack
    <3>1. UNCHANGED crowded /\ FullInv' /\ Tape!Next
      BY <2>0, <2>4, PopBackStep, HistPopBack DEF Tape!Next, FullInv, tcqPopBack
    <3> QED  BY <2>2, <3>1
  <2>5. CASE tcqBackStep
    <3>1. UNCHANGED crowded /\ FullInv' /\ Tape!Next
      BY <2>0, <2>5, BackStepStep DEF Tape!Next, FullInv, tcqBackStep
    <3> QED  BY <2>2, <3>1
  <2>6. \A n \in 1 .. Size : ~tcqRemove(n)  BY DEF Reversible, tcqRemove
  <2>7. CASE UNCHANGED tcqVars
    <3>1. UNCHANGED <<queue, _len, _rlen, start, end, rend, allFull, history, crowded>>
      BY <2>7 DEF tcqVars, tcq
    <3>2. FullInv'
      BY <2>0, <3>1 DEF FullInv, HistInv, QueueInv, tcqTypeOK, tcqItem, AllFullExact
    <3>3. UNCHANGED <<Ahead, history>>  BY <3>1 DEF Ahead, tcqItem
    <3> QED  BY <2>2, <3>1, <3>2, <3>3 DEF Tape!vars
  <2> QED  BY <1>1, <2>1, <2>3, <2>4, <2>5, <2>6, <2>7 DEF tcqNext
<1> QED  BY <1>1, <1>2, <1>3

(* A new queue has all of it.                                                 *)
LEMMA StartUncrowded == tcqCreate => UntilCrowdedInv /\ Tape!Init
<1> SUFFICES ASSUME tcqCreate PROVE UntilCrowdedInv /\ Tape!Init  OBVIOUS
<1>1. QueueInv /\ HistInv /\ Tape!Init  BY StartIsEmpty, HistStart
<1>2. crowded \in BOOLEAN  BY Zenon DEF tcqCreate
<1>3. RingTyped  BY <1>1, <1>2 DEF QueueInv, tcqTypeOK, RingTyped
<1> QED  BY <1>1, <1>3 DEF UntilCrowdedInv, FullInv

(* Whatever the order of puts, pops, puts taken back and steps back, the      *)
(* reverse history holds the segments run last until a put uses the last free *)
(* slot, for every size and margin.                                           *)
THEOREM HistoryIsIntact == Reversible => (tcqSpec => []HistoryIntact)
<1> SUFFICES ASSUME Reversible PROVE tcqSpec => []HistoryIntact  OBVIOUS
<1>1. tcqCreate => UntilCrowdedInv  BY StartUncrowded
<1>2. UntilCrowdedInv /\ [tcqNext]_tcqVars => UntilCrowdedInv'  BY NextUntilCrowded
<1>3. UntilCrowdedInv => HistoryIntact  BY HistGivesIntact
<1> QED  BY <1>1, <1>2, <1>3, PTL DEF tcqSpec

(* As long the queue is the tape, puts taken back and steps back included,    *)
(* and the put that ends it is one tcqFull would have warned of.              *)
THEOREM ReversibleQueueIsTape == Reversible => (tcqSpec => TapeUntilCrowded)
<1> SUFFICES ASSUME Reversible PROVE tcqSpec => TapeUntilCrowded  OBVIOUS
<1>1. tcqCreate => UntilCrowdedInv /\ Tape!Init  BY StartUncrowded
<1>2. UntilCrowdedInv /\ [tcqNext]_tcqVars
        => UntilCrowdedInv' /\ [~crowded => Tape!Next /\ (crowded' => tcqFull)]_(Tape!vars)
  BY NextUntilCrowded
<1> QED  BY <1>1, <1>2, PTL DEF tcqSpec, TapeUntilCrowded

------------------------------------------------------------------------------
(* The end of the ring.                                                       *)

(* A number is a multiple of n and its remainder, negative ones included.     *)
LEMMA ModPartsInt ==
  ASSUME NEW n \in Nat \ {0}, NEW x \in Int
  PROVE  x = (x \div n) * n + (x % n) /\ x % n \in 0 .. n - 1 /\ x \div n \in Int
  BY Z3

LEMMA ModOfPartsInt ==
  ASSUME NEW n \in Nat \ {0}, NEW x \in Int, NEW q \in Int, NEW r \in 0 .. n - 1,
         x = q * n + r
  PROVE  x % n = r
  BY Z3

(* A remainder may be taken before an addition or after it.                   *)
LEMMA ModSum ==
  ASSUME NEW n \in Nat \ {0}, NEW x \in Int, NEW y \in Int
  PROVE  ((x % n) + y) % n = (x + y) % n
<1>1. PICK q \in Int, r \in 0 .. n - 1 : x = q * n + r /\ r = x % n
  BY ModPartsInt
<1>2. r + y \in Int  OBVIOUS
<1>3. PICK p \in Int, t \in 0 .. n - 1 : r + y = p * n + t /\ t = (r + y) % n
  BY <1>2, ModPartsInt
<1>4. /\ (q + p) * n = q * n + p * n
      /\ x + y \in Int /\ q + p \in Int /\ q * n \in Int /\ p * n \in Int
  OBVIOUS
<1>5. x + y = (q + p) * n + t
  <2>1. \A a, b \in Int : x = a + r /\ r + y = b + t => x + y = a + b + t  OBVIOUS
  <2>2. x + y = q * n + p * n + t  BY <1>1, <1>3, <1>4, <2>1, Zenon
  <2> QED  BY <1>4, <2>2, Zenon
<1>6. (x + y) % n = t  BY <1>4, <1>5, ModOfPartsInt
<1> QED  BY <1>1, <1>3, <1>6

(* A turn of the ring changes no remainder.                                   *)
LEMMA ModTurnInt ==
  ASSUME NEW n \in Nat \ {0}, NEW x \in Int
  PROVE  (x + n) % n = x % n
<1>1. PICK q \in Int, r \in 0 .. n - 1 : x = q * n + r /\ r = x % n
  BY ModPartsInt
<1>2. (q + 1) * n = q * n + n  OBVIOUS
<1>3. x + n \in Int /\ q + 1 \in Int /\ x + n = (q + 1) * n + r  BY <1>1, <1>2
<1>4. (x + n) % n = r  BY <1>3, ModOfPartsInt
<1> QED  BY <1>1, <1>4

(* end is _len slots after start, whatever the counts are.                    *)
Linked == /\ _len \in Int /\ start \in Int /\ end \in Int
          /\ end = (start + _len) % Size

LEMMA NextLinked ==
  ASSUME Linked, [tcqNext]_tcqVars
  PROVE  Linked'
<1>0. Size \in Nat \ {0} /\ _len \in Int /\ start \in Int /\ start + _len \in Int
      /\ end \in Int /\ end = (start + _len) % Size
  BY SizeIsPositive DEF Linked
<1>1. CASE tcqInit
  <2>1. 0 + 0 \in 0 .. Size - 1 /\ 0 + 0 = 0  BY <1>0
  <2>2. (0 + 0) % Size = 0  BY <1>0, <2>1, ModSmall
  <2> QED  BY <1>1, <2>2 DEF tcqInit, Linked
<1>2. ASSUME NEW tc \in Segments, tcqPut(tc) PROVE Linked'
  <2>1. end' = (end + 1) % Size /\ _len' = _len + 1 /\ start' = start  BY <1>2 DEF tcqPut
  <2>2. (((start + _len) % Size) + 1) % Size = ((start + _len) + 1) % Size
    <3>1. 1 \in Int  OBVIOUS
    <3> QED  BY <1>0, <3>1, ModSum, Zenon
  <2>3. (start + _len) + 1 = start + (_len + 1)  BY <1>0
  <2>4. (end + 1) % Size \in Int  BY <1>0, ModRange
  <2> QED  BY <1>0, <2>1, <2>2, <2>3, <2>4 DEF Linked
<1>3. CASE tcqPop
  <2>1. start' = (start + 1) % Size /\ _len' = _len - 1 /\ end' = end  BY <1>3 DEF tcqPop
  <2>2. (((start + 1) % Size) + (_len - 1)) % Size = ((start + 1) + (_len - 1)) % Size
    <3>1. start + 1 \in Int /\ _len - 1 \in Int  BY <1>0
    <3> QED  BY <1>0, <3>1, ModSum, Zenon
  <2>3. (start + 1) + (_len - 1) = start + _len  BY <1>0
  <2>4. (start + 1) % Size \in Int  BY <1>0, ModRange
  <2> QED  BY <1>0, <2>1, <2>2, <2>3, <2>4 DEF Linked
<1>4. CASE tcqPopBack
  <2>1. end' = (end - 1 + Size) % Size /\ _len' = _len - 1 /\ start' = start
    BY <1>4 DEF tcqPopBack
  <2>2. (((start + _len) % Size) + (0 - 1)) % Size = ((start + _len) + (0 - 1)) % Size
    <3>1. 0 - 1 \in Int  OBVIOUS
    <3> QED  BY <1>0, <3>1, ModSum, Zenon
  <2>3. end - 1 + Size = (end - 1) + Size /\ end - 1 \in Int /\ end - 1 = end + (0 - 1)
        /\ (start + _len) + (0 - 1) = start + (_len - 1)
    BY <1>0
  <2>4. ((end - 1) + Size) % Size = (end - 1) % Size  BY <1>0, <2>3, ModTurnInt
  <2>5. (end - 1) % Size \in Int  BY <1>0, <2>3, ModRange
  <2> QED  BY <1>0, <2>1, <2>2, <2>3, <2>4, <2>5 DEF Linked
<1>5. CASE tcqBackStep
  <2>1. start' = (start - 1 + Size) % Size /\ _len' = _len + 1 /\ end' = end
    BY <1>5 DEF tcqBackStep
  <2>2. start - 1 + Size = (start - 1) + Size /\ start - 1 \in Int /\ _len + 1 \in Int
        /\ (start - 1) + (_len + 1) = start + _len
    BY <1>0
  <2>3. ((start - 1) + Size) % Size = (start - 1) % Size  BY <1>0, <2>2, ModTurnInt
  <2>4. (((start - 1) % Size) + (_len + 1)) % Size = ((start - 1) + (_len + 1)) % Size
    BY <1>0, <2>2, ModSum, Zenon
  <2>5. (start - 1) % Size \in Int  BY <1>0, <2>2, ModRange
  <2> QED  BY <1>0, <2>1, <2>2, <2>3, <2>4, <2>5 DEF Linked
<1>6. ASSUME NEW n \in 1 .. Size, tcqRemove(n) PROVE Linked'
  <2>1. start' = (start + n) % Size /\ _len' = _len - n /\ end' = end  BY <1>6 DEF tcqRemove
  <2>2. start + n \in Int /\ _len - n \in Int /\ (start + n) + (_len - n) = start + _len
    BY <1>0
  <2>3. (((start + n) % Size) + (_len - n)) % Size = ((start + n) + (_len - n)) % Size
    BY <1>0, <2>2, ModSum, Zenon
  <2>4. (start + n) % Size \in Int  BY <1>0, <2>2, ModRange
  <2> QED  BY <1>0, <2>1, <2>2, <2>3, <2>4 DEF Linked
<1>7. CASE UNCHANGED tcqVars  BY <1>7 DEF tcqVars, tcq, Linked
<1> QED  BY <1>1, <1>2, <1>3, <1>4, <1>5, <1>6, <1>7 DEF tcqNext

(* So the slot before end is that of the newest segment to run, on whichever  *)
(* side of the wrap it lies.                                                  *)
LEMMA LinkGivesLast == Linked => LastIsNewest
<1> SUFFICES ASSUME Linked, _len > 0 PROVE tcqLast = Ahead[_len]
  BY DEF LastIsNewest
<1>0. Size \in Nat \ {0} /\ _len \in Int /\ start \in Int /\ start + _len \in Int
      /\ end \in Int /\ end = (start + _len) % Size
  BY SizeIsPositive DEF Linked
<1>1. Ahead[_len] = queue[(start + (_len - 1)) % Size]
  <2>1. _len \in 1 .. _len  BY <1>0
  <2> QED  BY <2>1 DEF Ahead, tcqItem
<1>2. (end - 1 + Size) % Size = (start + (_len - 1)) % Size
  <2>1. (((start + _len) % Size) + (0 - 1)) % Size = ((start + _len) + (0 - 1)) % Size
    <3>1. 0 - 1 \in Int  OBVIOUS
    <3> QED  BY <1>0, <3>1, ModSum, Zenon
  <2>2. end - 1 + Size = (end - 1) + Size /\ end - 1 \in Int /\ end - 1 = end + (0 - 1)
        /\ (start + _len) + (0 - 1) = start + (_len - 1)
    BY <1>0
  <2>3. ((end - 1) + Size) % Size = (end - 1) % Size  BY <1>0, <2>2, ModTurnInt
  <2> QED  BY <1>0, <2>1, <2>2, <2>3
<1> QED  BY <1>1, <1>2 DEF tcqLast

(* The segment the planner blends with the next one is the newest of those to *)
(* run, whichever operations are used, in whatever order and however full the *)
(* ring is.                                                                   *)
THEOREM LastSlotIsNewest == tcqSpec => []LastIsNewest
<1>1. tcqCreate => Linked
  <2> SUFFICES ASSUME tcqCreate PROVE Linked  OBVIOUS
  <2>1. QueueInv  BY StartIsEmpty
  <2> QED  BY <2>1, SizeIsPositive DEF QueueInv, tcqTypeOK, Places, Linked
<1>2. Linked /\ [tcqNext]_tcqVars => Linked'  BY NextLinked
<1>3. Linked => LastIsNewest  BY LinkGivesLast
<1> QED  BY <1>1, <1>2, <1>3, PTL DEF tcqSpec
==============================================================================
