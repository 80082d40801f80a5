-------------------------- MODULE RingBufferProofs --------------------------
(***************************************************************************)
(* Theorems about the audio ring buffer, for every size of the buffer,     *)
(* every set of packets and every set of lengths the audio thread asks     *)
(* for.                                                                    *)
(***************************************************************************)
EXTENDS RingBuffer, SequenceTheorems, TLAPS

(* Facts about the remainder, which turns an index that has run past the end  *)
(* of the array into a place of it: rb->tail = (rb->tail + n) % rb->max_size. *)

LEMMA TimesPositive ==
  ASSUME NEW N \in Nat, NEW d \in Nat \ {0}
  PROVE  N * d >= N
<1>1. d - 1 \in Nat
  OBVIOUS
<1> DEFINE c == d - 1
<1>2. N * (c + 1) = N * c + N /\ N * c >= 0
  BY <1>1, SMT
<1> QED BY <1>2, SMT

LEMMA ModDef ==
  ASSUME NEW N \in Nat \ {0}, NEW a \in Nat
  PROVE  /\ a % N \in 0 .. N - 1
         /\ a \div N \in Nat
         /\ a = N * (a \div N) + (a % N)
<1>1. a % N \in 0 .. N - 1
  BY SMT
<1>2. a \div N \in Int /\ a = N * (a \div N) + (a % N)
  BY SMT
<1>3. a \div N >= 0
  <2> DEFINE q == a \div N
             r == a % N
  <2>1. q \in Int /\ r \in 0 .. N - 1 /\ a = N * q + r
    BY <1>1, <1>2
  <2> HIDE DEF q, r
  <2>2. SUFFICES ASSUME q < 0 PROVE FALSE
    BY <2>1 DEF q
  <2>3. -q \in Nat \ {0} /\ N * (-q) >= N
    BY <2>1, <2>2, TimesPositive
  <2>4. N * q = -(N * (-q)) /\ N * q \in Int
    BY <2>1, SMT
  <2> QED BY <2>1, <2>3, <2>4
<1> QED BY <1>1, <1>2, <1>3

\* Two multiples of N that differ by less than N are equal.
LEMMA MultipleUnique ==
  ASSUME NEW N \in Nat \ {0}, NEW p \in Nat, NEW q \in Nat,
         N * p < N * q + N, N * q < N * p + N
  PROVE  p = q
<1>1. ASSUME NEW x \in Nat, NEW y \in Nat, x < y PROVE N * y >= N * x + N
  <2> DEFINE d == y - x
  <2>1. d \in Nat \ {0} /\ y = x + d
    BY <1>1
  <2>2. N * d >= N
    BY <2>1, TimesPositive
  <2> HIDE DEF d
  <2>3. N * (x + d) = N * x + N * d
    BY <2>1, SMT
  <2>4. N * x \in Int /\ N * d \in Int
    BY <2>1, SMT
  <2> QED BY <2>1, <2>2, <2>3, <2>4
<1>2. N * p \in Int /\ N * q \in Int
  BY SMT
<1>3. ~(p < q) /\ ~(q < p)
  BY <1>1, <1>2, SMT
<1> QED BY <1>3

\* A number that is a multiple of N and a rest below N has that rest.
LEMMA ModUnique ==
  ASSUME NEW N \in Nat \ {0}, NEW a \in Nat, NEW q \in Nat, NEW r \in 0 .. N - 1,
         a = N * q + r
  PROVE  a % N = r
<1>1. a % N \in 0 .. N - 1 /\ a \div N \in Nat /\ a = N * (a \div N) + (a % N)
  BY ModDef
<1> DEFINE p == a \div N
           s == a % N
<1>2. N * p \in Int /\ N * q \in Int /\ p \in Nat /\ s \in 0 .. N - 1 /\ a = N * p + s
  BY <1>1, SMT
<1> HIDE DEF p, s
<1>3. N * p < N * q + N /\ N * q < N * p + N
  BY <1>2
<1>4. p = q
  BY <1>2, <1>3, MultipleUnique
<1>5. s = r
  BY <1>2, <1>4
<1> QED BY <1>5 DEF s

LEMMA ModSmall ==
  ASSUME NEW N \in Nat \ {0}, NEW a \in 0 .. N - 1
  PROVE  a % N = a
  BY SMT

LEMMA ModPlusN ==
  ASSUME NEW N \in Nat \ {0}, NEW a \in Nat
  PROVE  (a + N) % N = a % N
<1> DEFINE p == a \div N
           s == a % N
<1>1. p \in Nat /\ s \in 0 .. N - 1 /\ a = N * p + s
  BY ModDef
<1> HIDE DEF p, s
<1>2. N * (p + 1) = N * p + N /\ N * p \in Int
  BY <1>1, SMT
<1>3. a + N = N * (p + 1) + s /\ a + N \in Nat /\ p + 1 \in Nat
  BY <1>1, <1>2
<1>4. (a + N) % N = s
  BY <1>1, <1>3, ModUnique
<1> QED BY <1>4 DEF s

\* The remainder may be taken before or after an addition.
LEMMA ModAdd ==
  ASSUME NEW N \in Nat \ {0}, NEW a \in Nat, NEW b \in Nat
  PROVE  ((a % N) + b) % N = (a + b) % N
<1> DEFINE p == a \div N
           s == a % N
<1>1. p \in Nat /\ s \in 0 .. N - 1 /\ a = N * p + s
  BY ModDef
<1> HIDE DEF p, s
<1>2. s + b \in Nat
  BY <1>1
<1> DEFINE q == (s + b) \div N
           t == (s + b) % N
<1>3. q \in Nat /\ t \in 0 .. N - 1 /\ s + b = N * q + t
  BY <1>2, ModDef
<1> HIDE DEF q, t
<1>4. N * (p + q) = N * p + N * q /\ N * p \in Int /\ N * q \in Int
  BY <1>1, <1>3, SMT
<1>5. a + b = N * (p + q) + t /\ a + b \in Nat /\ p + q \in Nat
  BY <1>1, <1>3, <1>4
<1>6. (a + b) % N = t
  BY <1>3, <1>5, ModUnique
<1> QED BY <1>6 DEF s, t

\* Numbers less than N apart have different remainders: they are different
\* slots.
LEMMA ModInjective ==
  ASSUME NEW N \in Nat \ {0}, NEW a \in Nat, NEW b \in Nat, a < b, b < a + N
  PROVE  a % N # b % N
<1> SUFFICES ASSUME a % N = b % N PROVE FALSE
  OBVIOUS
<1> DEFINE p == a \div N
           q == b \div N
           s == a % N
<1>1. p \in Nat /\ q \in Nat /\ s \in 0 .. N - 1 /\ a = N * p + s /\ b = N * q + s
  BY ModDef
<1> HIDE DEF p, q, s
<1>2. N * p \in Int /\ N * q \in Int
  BY <1>1, SMT
<1>3. N * p < N * q + N /\ N * q < N * p + N
  BY <1>1, <1>2
<1>4. p = q
  BY <1>1, <1>3, MultipleUnique
<1> QED BY <1>1, <1>2, <1>4
-----------------------------------------------------------------------------

\* An index that runs past the end of the array continues at its start.
LEMMA Wrapped ==
  ASSUME NEW a \in Nat, a < 2 * MaxSize
  PROVE  a % MaxSize = IF a < MaxSize THEN a ELSE a - MaxSize
<1> USE RingAssumption
<1>1. CASE a < MaxSize
  BY <1>1, ModSmall
<1>2. CASE ~(a < MaxSize)
  <2> DEFINE b == a - MaxSize
  <2>1. b \in 0 .. MaxSize - 1 /\ a = b + MaxSize
    BY <1>2
  <2> HIDE DEF b
  <2>2. (b + MaxSize) % MaxSize = b % MaxSize
    <3>1. b \in Nat /\ MaxSize \in Nat \ {0}
      BY <2>1
    <3> QED BY ONLY <3>1, ModPlusN
  <2>3. b % MaxSize = b
    BY <2>1, ModSmall
  <2>4. a % MaxSize = b
    BY <2>1, <2>2, <2>3
  <2> QED BY <1>2, <2>4 DEF b
<1> QED BY <1>1, <1>2

\* The i-th slot from start on.
LEMMA SlotFrom ==
  ASSUME NEW start \in Index, NEW i \in 1 .. MaxSize
  PROVE  (start + i - 1) % MaxSize
           = IF start + i - 1 < MaxSize THEN start + i - 1 ELSE start + i - 1 - MaxSize
<1>0. start \in Int /\ MaxSize \in Int
  BY RingAssumption DEF Index
<1>1. PICK a \in Nat : a = start + i - 1
  BY RingAssumption DEF Index
<1>2. a < 2 * MaxSize
  BY <1>1, RingAssumption DEF Index
<1>3. a % MaxSize = IF a < MaxSize THEN a ELSE a - MaxSize
  BY <1>2, Wrapped
<1> QED BY <1>0, <1>1, <1>3

LEMMA InIndex ==
  ASSUME NEW a \in Nat
  PROVE  a % MaxSize \in Index
  BY ModDef, RingAssumption DEF Index

LEMMA SmallerFacts ==
  ASSUME NEW a \in Nat, NEW b \in Nat
  PROVE  /\ Smaller(a, b) \in Nat
         /\ Smaller(a, b) <= a
         /\ Smaller(a, b) <= b
  BY DEF Smaller

\* Filled puts data in the slots after tail, round the end of the array if need
\* be, and leaves the other slots alone.
LEMMA FilledFacts ==
  ASSUME buffer \in [Index -> Byte], tail \in Index,
         NEW data \in Seq(Byte), NEW n \in Nat, n <= Len(data), n <= MaxSize
  PROVE  /\ Filled(data, n) \in [Index -> Byte]
         /\ \A i \in 1 .. n : Filled(data, n)[(tail + i - 1) % MaxSize] = data[i]
         /\ \A k \in Index :
              (\A i \in 1 .. n : k # (tail + i - 1) % MaxSize)
                => Filled(data, n)[k] = buffer[k]
<1> USE RingAssumption
<1> DEFINE F == Filled(data, n)
           space1 == MaxSize - tail
<1>0. tail \in Nat /\ tail < MaxSize /\ space1 \in Nat /\ Len(data) \in Nat
  BY DEF Index
<1>1. ASSUME NEW k \in Index, k >= tail, k < tail + n
      PROVE  F[k] = data[k - tail + 1] /\ k - tail + 1 \in 1 .. n
  BY <1>0, <1>1 DEF Filled, Index
<1>2. ASSUME NEW k \in Index, ~(k >= tail /\ k < tail + n), n > space1, k < n - space1
      PROVE  F[k] = data[space1 + k + 1] /\ space1 + k + 1 \in 1 .. n
  BY <1>0, <1>2 DEF Filled, Index
<1>3. ASSUME NEW k \in Index, ~(k >= tail /\ k < tail + n), ~(n > space1 /\ k < n - space1)
      PROVE  F[k] = buffer[k]
  BY <1>0, <1>3 DEF Filled
<1>4. \A i \in 1 .. n : data[i] \in Byte
  BY <1>0
<1>5. F = [k \in Index |-> F[k]]
  BY DEF Filled
<1> HIDE DEF F
<1>6. ASSUME NEW k \in Index PROVE F[k] \in Byte
  BY <1>1, <1>2, <1>3, <1>4
<1>7. F \in [Index -> Byte]
  BY <1>5, <1>6
<1>8. ASSUME NEW i \in 1 .. n
      PROVE  (tail + i - 1) % MaxSize
               = IF tail + i - 1 < MaxSize THEN tail + i - 1 ELSE tail + i - 1 - MaxSize
  BY SlotFrom
<1>9. ASSUME NEW i \in 1 .. n PROVE F[(tail + i - 1) % MaxSize] = data[i]
  <2>1. CASE tail + i - 1 < MaxSize
    <3> DEFINE k == tail + i - 1
    <3>1. k \in Index /\ k >= tail /\ k < tail + n /\ k - tail + 1 = i
      BY <1>0, <2>1 DEF Index
    <3> QED BY <1>1, <1>8, <2>1, <3>1
  <2>2. CASE ~(tail + i - 1 < MaxSize)
    <3> DEFINE k == tail + i - 1 - MaxSize
    <3>1. /\ k \in Index /\ ~(k >= tail /\ k < tail + n)
          /\ n > space1 /\ k < n - space1 /\ space1 + k + 1 = i
      BY <1>0, <2>2 DEF Index
    <3>2. F[k] = data[i]
      BY <1>2, <3>1
    <3> QED BY <1>8, <2>2, <3>2
  <2> QED BY <2>1, <2>2
<1>10. ASSUME NEW k \in Index, \A i \in 1 .. n : k # (tail + i - 1) % MaxSize
       PROVE  F[k] = buffer[k]
  <2>1. ~(k >= tail /\ k < tail + n)
    <3> SUFFICES ASSUME k >= tail, k < tail + n PROVE FALSE
      OBVIOUS
    <3> DEFINE i == k - tail + 1
    <3>1. i \in 1 .. n /\ tail + i - 1 = k /\ tail + i - 1 < MaxSize
      BY <1>0 DEF Index
    <3> QED BY <1>8, <1>10, <3>1
  <2>2. ~(n > space1 /\ k < n - space1)
    <3> SUFFICES ASSUME n > space1, k < n - space1 PROVE FALSE
      OBVIOUS
    <3> DEFINE i == space1 + k + 1
    <3>1. /\ i \in 1 .. n /\ tail + i - 1 - MaxSize = k
          /\ ~(tail + i - 1 < MaxSize)
      BY <1>0 DEF Index
    <3> QED BY <1>8, <1>10, <3>1
  <2> QED BY <1>3, <2>1, <2>2
<1> QED BY <1>7, <1>9, <1>10 DEF F

\* Taken copies the bytes after head in order.
LEMMA TakenFacts ==
  ASSUME buffer \in [Index -> Byte], head \in Index, NEW n \in Nat, n <= MaxSize
  PROVE  /\ Taken(n) = [i \in 1 .. n |-> buffer[(head + i - 1) % MaxSize]]
         /\ Taken(n) \in Seq(Byte)
<1> USE RingAssumption
<1>0. head \in Nat /\ head < MaxSize
  BY DEF Index
<1>1. ASSUME NEW i \in 1 .. n
      PROVE  Taken(n)[i] = buffer[(head + i - 1) % MaxSize]
  <2>1. (head + i - 1) % MaxSize
          = IF head + i - 1 < MaxSize THEN head + i - 1 ELSE head + i - 1 - MaxSize
    BY SlotFrom
  <2>2. i <= MaxSize - head <=> head + i - 1 < MaxSize
    BY <1>0
  <2>3. i - (MaxSize - head) - 1 = head + i - 1 - MaxSize
    BY <1>0
  <2> QED BY <2>1, <2>2, <2>3 DEF Taken
<1>2. ASSUME NEW i \in 1 .. n PROVE Taken(n)[i] \in Byte
  <2>1. head + i - 1 \in Nat
    BY <1>0
  <2> QED BY <1>1, <2>1, InIndex
<1>3. Taken(n) = [i \in 1 .. n |-> Taken(n)[i]]
  BY DEF Taken
<1>4. Taken(n) = [i \in 1 .. n |-> buffer[(head + i - 1) % MaxSize]]
  BY <1>1, <1>3
<1>5. Taken(n) \in Seq(Byte)
  BY <1>2, <1>3
<1> QED BY <1>4, <1>5
-----------------------------------------------------------------------------
LEMMA InitRingInv == Init => RingInv /\ TestStaysGood
<1> SUFFICES ASSUME Init PROVE RingInv /\ TestStaysGood
  OBVIOUS
<1> USE RingAssumption DEF Init, IdlePusher, IdlePopper
<1>1. TypeOK
  BY DEF TypeOK, Index, Failed
<1>2. MutexInv /\ PushInv /\ PopInv /\ TestStaysGood
  BY DEF MutexInv, PushInv, PopInv, TestStaysGood
<1>3. IndexInv
  BY ModSmall DEF IndexInv
<1> QED BY <1>1, <1>2, <1>3 DEF RingInv

\* Steps that change neither the indices nor the bytes.
LEMMA CallStep ==
  ASSUME RingInv, TestStaysGood,
         \/ \E packet \in Packets : PushCall(packet)
         \/ PushFull
         \/ PushLock
         \/ \E length \in PopLengths : PopCall(length)
         \/ PopEmpty
         \/ PopLock
  PROVE  RingInv' /\ TestStaysGood'
<1> USE RingAssumption DEF RingInv
<1>1. ASSUME NEW packet \in Packets, PushCall(packet) PROVE RingInv' /\ TestStaysGood'
  <2> USE <1>1 DEF PushCall
  <2>0. packet \in Seq(Byte) /\ 0 \in 0 .. MaxSize
    OBVIOUS
  <2>1. TypeOK'
    BY <2>0 DEF TypeOK
  <2>2. MutexInv' /\ IndexInv' /\ PushInv' /\ PopInv'
    BY DEF TypeOK, MutexInv, IndexInv, PushInv, PopInv
  <2>3. TestStaysGood'
    BY DEF TestStaysGood, ring_buffer_full, ring_buffer_empty
  <2> QED BY <2>1, <2>2, <2>3
<1>2. CASE PushFull
  <2> USE <1>2 DEF PushFull
  <2>1. TypeOK'
    BY DEF TypeOK
  <2>2. MutexInv' /\ IndexInv' /\ PushInv' /\ PopInv'
    BY DEF MutexInv, IndexInv, PushInv, PopInv
  <2>3. TestStaysGood'
    BY DEF TestStaysGood, ring_buffer_full, ring_buffer_empty
  <2> QED BY <2>1, <2>2, <2>3
<1>3. CASE PushLock
  <2> USE <1>3 DEF PushLock
  <2>1. TypeOK'
    BY DEF TypeOK
  <2>2. MutexInv' /\ IndexInv' /\ PushInv' /\ PopInv'
    BY DEF TypeOK, MutexInv, IndexInv, PushInv, PopInv
  <2>3. TestStaysGood'
    BY DEF TestStaysGood, ring_buffer_full, ring_buffer_empty, TypeOK
  <2> QED BY <2>1, <2>2, <2>3
<1>4. ASSUME NEW length \in PopLengths, PopCall(length) PROVE RingInv' /\ TestStaysGood'
  <2> USE <1>4 DEF PopCall
  <2>0. length \in Nat /\ 0 \in 0 .. MaxSize /\ <<>> \in Seq(Byte)
    OBVIOUS
  <2>1. TypeOK'
    BY <2>0 DEF TypeOK
  <2>2. MutexInv' /\ IndexInv' /\ PushInv' /\ PopInv'
    BY DEF TypeOK, MutexInv, IndexInv, PushInv, PopInv
  <2>3. TestStaysGood'
    BY DEF TestStaysGood, ring_buffer_full, ring_buffer_empty
  <2> QED BY <2>1, <2>2, <2>3
<1>5. CASE PopEmpty
  <2> USE <1>5 DEF PopEmpty
  <2>1. TypeOK'
    BY DEF TypeOK
  <2>2. MutexInv' /\ IndexInv' /\ PushInv' /\ PopInv'
    BY DEF MutexInv, IndexInv, PushInv, PopInv
  <2>3. TestStaysGood'
    BY DEF TestStaysGood, ring_buffer_full, ring_buffer_empty
  <2> QED BY <2>1, <2>2, <2>3
<1>6. CASE PopLock
  <2> USE <1>6 DEF PopLock
  <2>1. TypeOK'
    BY DEF TypeOK
  <2>2. MutexInv' /\ IndexInv' /\ PushInv' /\ PopInv'
    BY DEF TypeOK, MutexInv, IndexInv, PushInv, PopInv
  <2>3. TestStaysGood'
    BY DEF TestStaysGood, ring_buffer_full, ring_buffer_empty, TypeOK
  <2> QED BY <2>1, <2>2, <2>3
<1> QED BY <1>1, <1>2, <1>3, <1>4, <1>5, <1>6

\* A push that has copied its bytes has them in the slots after tail.
LEMMA PushCopyStep ==
  ASSUME RingInv, TestStaysGood, PushCopy
  PROVE  RingInv' /\ TestStaysGood'
<1> USE RingAssumption DEF RingInv
<1> DEFINE n == Smaller(Len(pusher.data), MaxSize - size)
<1>1. pusher.data \in Seq(Byte) /\ Len(pusher.data) \in Nat /\ MaxSize - size \in Nat
  BY DEF TypeOK
<1>2. n \in Nat /\ n <= Len(pusher.data) /\ n <= MaxSize - size /\ n <= MaxSize
  BY <1>1 DEF TypeOK, Smaller
<1>3. buffer' = Filled(pusher.data, n)
  BY DEF PushCopy
<1>4. /\ pusher' = [pusher EXCEPT !.pc = "store", !.n = n, !.loaded = size]
      /\ n = Smaller(Len(pusher.data), MaxSize - size)
  BY DEF PushCopy
<1> HIDE DEF n
<1>5. /\ pusher'.pc = "store"
      /\ pusher'.n = n
      /\ pusher'.loaded = size
      /\ pusher'.data = pusher.data
      /\ pusher' \in [pc : {"idle", "lock", "copy", "store"}, data : Seq(Byte),
                      n : 0 .. MaxSize, loaded : 0 .. MaxSize]
  <2>1. /\ pusher \in [pc : {"idle", "lock", "copy", "store"}, data : Seq(Byte),
                       n : 0 .. MaxSize, loaded : 0 .. MaxSize]
        /\ size \in 0 .. MaxSize
    BY DEF TypeOK
  <2>2. n \in 0 .. MaxSize
    BY <1>2
  <2>3. pusher' = [pc |-> "store", data |-> pusher.data, n |-> n, loaded |-> size]
    BY ONLY <1>4, <2>1
  <2> QED BY <2>1, <2>2, <2>3
<1>6. /\ buffer' \in [Index -> Byte]
      /\ \A i \in 1 .. n : buffer'[(tail + i - 1) % MaxSize] = pusher.data[i]
  BY <1>1, <1>2, <1>3, FilledFacts DEF TypeOK
<1>7. UNCHANGED <<head, tail, size, mutex, popper, pushRet, popRet, popData>> /\ pusher.pc = "copy"
  BY DEF PushCopy
<1>8. TypeOK'
  BY <1>5, <1>6, <1>7 DEF TypeOK
<1>9. MutexInv' /\ IndexInv'
  BY <1>5, <1>7 DEF MutexInv, IndexInv
<1>10. PushInv'
  BY <1>4, <1>5, <1>6, <1>7 DEF PushInv
<1>11. PopInv'
  BY <1>7 DEF PopInv, MutexInv
<1>12. TestStaysGood'
  BY <1>5, <1>7 DEF TestStaysGood, ring_buffer_full, ring_buffer_empty
<1> QED BY <1>8, <1>9, <1>10, <1>11, <1>12

LEMMA PushStoreStep ==
  ASSUME RingInv, TestStaysGood, PushStore
  PROVE  RingInv' /\ TestStaysGood'
<1> USE RingAssumption DEF RingInv
<1>1. /\ pusher.pc = "store" /\ mutex' = "none" /\ pusher' = IdlePusher
      /\ tail' = (tail + pusher.n) % MaxSize
      /\ size' = size + pusher.n
      /\ pushRet' = pusher.n
      /\ UNCHANGED <<buffer, head, popper, popRet, popData>>
  BY DEF PushStore, PushInv
<1>2. /\ pusher.n \in Nat /\ size \in Nat /\ head \in Nat
      /\ Len(pusher.data) \in Nat /\ MaxSize - size \in Nat
  BY DEF TypeOK, Index
<1>3. pusher.n <= MaxSize - size
  BY <1>1, <1>2, SmallerFacts DEF PushInv
<1>4. tail' \in Index /\ tail' = (head + (size + pusher.n)) % MaxSize
  <2>1. PICK a \in Nat : a = head + size
    BY <1>2
  <2>2. tail = a % MaxSize
    BY <2>1 DEF IndexInv
  <2>3. ((a % MaxSize) + pusher.n) % MaxSize = (a + pusher.n) % MaxSize
    BY <1>2, <2>1, ModAdd
  <2>4. a + pusher.n \in Nat /\ a + pusher.n = head + (size + pusher.n)
    BY <1>2, <2>1
  <2>5. (a + pusher.n) % MaxSize \in Index
    BY <2>4, InIndex
  <2> QED BY <1>1, <2>2, <2>3, <2>4, <2>5
<1>5. TypeOK'
  <2>1. pusher' \in [pc : {"idle", "lock", "copy", "store"}, data : Seq(Byte),
                     n : 0 .. MaxSize, loaded : 0 .. MaxSize]
    BY <1>1 DEF IdlePusher
  <2>2. size' \in 0 .. MaxSize /\ pushRet' \in 0 .. MaxSize
    BY <1>1, <1>2, <1>3
  <2> QED BY <1>1, <1>4, <2>1, <2>2 DEF TypeOK
<1>6. MutexInv' /\ PushInv' /\ PopInv'
  BY <1>1 DEF MutexInv, PushInv, PopInv, IdlePusher
<1>7. IndexInv'
  BY <1>1, <1>4 DEF IndexInv
<1>8. TestStaysGood'
  BY <1>1, <1>2 DEF TestStaysGood, ring_buffer_full, ring_buffer_empty, IdlePusher
<1> QED BY <1>5, <1>6, <1>7, <1>8

LEMMA PopCopyStep ==
  ASSUME RingInv, TestStaysGood, PopCopy
  PROVE  RingInv' /\ TestStaysGood'
<1> USE RingAssumption DEF RingInv
<1> DEFINE n == Smaller(popper.length, size)
<1>1. n \in Nat /\ n <= size /\ n <= MaxSize
  BY DEF TypeOK, Smaller
<1>2. /\ Taken(n) = [i \in 1 .. n |-> buffer[(head + i - 1) % MaxSize]]
      /\ Taken(n) \in Seq(Byte)
  BY <1>1, TakenFacts DEF TypeOK
<1>3. /\ popper' = [popper EXCEPT !.pc = "store", !.n = n, !.loaded = size, !.data = Taken(n)]
      /\ n = Smaller(popper.length, size)
  BY DEF PopCopy
<1> HIDE DEF n
<1>4. /\ popper'.pc = "store"
      /\ popper'.n = n
      /\ popper'.loaded = size
      /\ popper'.length = popper.length
      /\ popper'.data = Taken(n)
      /\ popper' \in [pc : {"idle", "lock", "copy", "store"}, length : Nat,
                      n : 0 .. MaxSize, loaded : 0 .. MaxSize, data : Seq(Byte)]
  <2>1. /\ popper \in [pc : {"idle", "lock", "copy", "store"}, length : Nat,
                       n : 0 .. MaxSize, loaded : 0 .. MaxSize, data : Seq(Byte)]
        /\ size \in 0 .. MaxSize
    BY DEF TypeOK
  <2>2. n \in 0 .. MaxSize
    BY <1>1 DEF TypeOK
  <2>3. popper' = [pc |-> "store", length |-> popper.length, n |-> n, loaded |-> size,
                   data |-> Taken(n)]
    BY ONLY <1>3, <2>1
  <2> QED BY <1>2, <2>1, <2>2, <2>3
<1>5. popper.pc = "copy" /\ UNCHANGED <<buffer, head, tail, size, mutex, pusher, pushRet, popRet, popData>>
  BY DEF PopCopy
<1>6. TypeOK'
  BY <1>4, <1>5 DEF TypeOK
<1>7. MutexInv' /\ IndexInv' /\ PushInv'
  BY <1>4, <1>5 DEF MutexInv, IndexInv, PushInv
<1>8. PopInv'
  BY <1>2, <1>3, <1>4, <1>5 DEF PopInv
<1>9. TestStaysGood'
  BY <1>4, <1>5 DEF TestStaysGood, ring_buffer_full, ring_buffer_empty
<1> QED BY <1>6, <1>7, <1>8, <1>9

LEMMA PopStoreStep ==
  ASSUME RingInv, TestStaysGood, PopStore
  PROVE  RingInv' /\ TestStaysGood'
<1> USE RingAssumption DEF RingInv
<1>1. /\ popper.pc = "store" /\ mutex' = "none" /\ popper' = IdlePopper
      /\ head' = (head + popper.n) % MaxSize
      /\ size' = size - popper.n
      /\ popRet' = popper.n /\ popData' = popper.data
      /\ UNCHANGED <<buffer, tail, pusher, pushRet>>
  BY DEF PopStore, PopInv
<1>2. popper.n \in Nat /\ size \in Nat /\ head \in Nat /\ popper.length \in Nat
  BY DEF TypeOK, Index
<1>3. popper.n <= size
  BY <1>1, <1>2, SmallerFacts DEF PopInv
<1>4. head' \in Index /\ tail = (head' + size') % MaxSize
  <2>1. PICK a \in Nat : a = head + popper.n
    BY <1>2
  <2>2. PICK b \in Nat : b = size - popper.n
    BY <1>2, <1>3
  <2>3. ((a % MaxSize) + b) % MaxSize = (a + b) % MaxSize
    BY ModAdd
  <2>4. a + b = head + size
    BY <1>2, <2>1, <2>2
  <2>5. a % MaxSize \in Index
    BY InIndex
  <2> QED BY <1>1, <2>1, <2>2, <2>3, <2>4, <2>5 DEF IndexInv
<1>5. TypeOK'
  <2>1. popper' \in [pc : {"idle", "lock", "copy", "store"}, length : Nat,
                     n : 0 .. MaxSize, loaded : 0 .. MaxSize, data : Seq(Byte)]
    BY <1>1 DEF IdlePopper
  <2>2. size \in 0 .. MaxSize
    BY DEF TypeOK
  <2>3. size' \in 0 .. MaxSize /\ popRet' \in 0 .. MaxSize
    BY <1>1, <1>2, <1>3, <2>2
  <2>4. popData' \in Seq(Byte)
    BY <1>1 DEF TypeOK
  <2> QED BY <1>1, <1>4, <2>1, <2>3, <2>4 DEF TypeOK
<1>6. MutexInv' /\ PushInv' /\ PopInv'
  BY <1>1 DEF MutexInv, PushInv, PopInv, IdlePopper
<1>7. IndexInv'
  BY <1>1, <1>4 DEF IndexInv
<1>8. TestStaysGood'
  <2>1. pusher.pc # "idle" => size' # MaxSize
    BY <1>1, <1>2, <1>3 DEF TestStaysGood, ring_buffer_full, TypeOK
  <2> QED BY <1>1, <2>1 DEF TestStaysGood, ring_buffer_full, ring_buffer_empty, IdlePopper
<1> QED BY <1>5, <1>6, <1>7, <1>8

LEMMA RingStep ==
  ASSUME RingInv, TestStaysGood, [Next]_vars
  PROVE  RingInv' /\ TestStaysGood'
<1>1. CASE Next
  BY <1>1, CallStep, PushCopyStep, PushStoreStep, PopCopyStep, PopStoreStep DEF Next
<1>2. CASE UNCHANGED vars
  BY <1>2 DEF vars, RingInv, TypeOK, MutexInv, IndexInv, PushInv, PopInv, TestStaysGood,
     ring_buffer_full, ring_buffer_empty
<1> QED BY <1>1, <1>2

\* The structure is consistent whatever the two threads do: indices and size
\* agree, the mutex is held by the thread inside its critical section, and a
\* call half-way through has the right bytes in hand.
THEOREM RingHolds == Spec => []RingInv
<1>1. RingInv /\ TestStaysGood /\ [Next]_vars => RingInv' /\ TestStaysGood'
  BY RingStep
<1> QED BY <1>1, InitRingInv, PTL DEF Spec

\* The test a call makes before it takes the mutex is still good when it has it.
THEOREM TestHolds == Spec => []TestStaysGood
<1>1. RingInv /\ TestStaysGood /\ [Next]_vars => RingInv' /\ TestStaysGood'
  BY RingStep
<1> QED BY <1>1, InitRingInv, PTL DEF Spec
-----------------------------------------------------------------------------
(* The refinement: the size bytes that start at head are the queue. *)

\* The slots of the queue are apart from the free ones that a push fills.
LEMMA FreeSlots ==
  ASSUME head \in Index, size \in Nat, IndexInv,
         NEW n \in Nat, size + n <= MaxSize,
         NEW i \in 1 .. size, NEW j \in 1 .. n
  PROVE  (head + i - 1) % MaxSize # (tail + j - 1) % MaxSize
<1> USE RingAssumption
<1>0. head \in Nat /\ MaxSize \in Nat \ {0}
  BY DEF Index
<1>1. PICK a \in Nat : a = head + i - 1
  BY <1>0
<1>2. PICK b \in Nat : b = head + size + (j - 1)
  BY <1>0
<1>3. a % MaxSize # b % MaxSize
  <2>1. a < b /\ b < a + MaxSize
    BY <1>0, <1>1, <1>2
  <2> QED BY ONLY <1>0, <2>1, ModInjective
<1>4. b % MaxSize = (tail + j - 1) % MaxSize
  <2>1. PICK c \in Nat : c = head + size
    BY <1>0
  <2>2. PICK d \in Nat : d = j - 1
    OBVIOUS
  <2>3. ((c % MaxSize) + d) % MaxSize = (c + d) % MaxSize
    BY ONLY <1>0, ModAdd
  <2>4. tail = c % MaxSize /\ tail \in Nat
    BY <2>1, InIndex DEF IndexInv, Index
  <2>5. tail + d = tail + j - 1 /\ c + d = b
    BY <1>0, <1>2, <2>1, <2>2, <2>4
  <2> QED BY <2>3, <2>4, <2>5
<1> QED BY <1>0, <1>1, <1>3, <1>4

LEMMA QueueFacts ==
  ASSUME TypeOK
  PROVE  /\ Queue \in Seq(Byte)
         /\ Len(Queue) = size
<1>1. size \in Nat /\ head \in Nat
  BY DEF TypeOK, Index
<1>2. ASSUME NEW i \in 1 .. size PROVE buffer[(head + i - 1) % MaxSize] \in Byte
  <2>1. head + i - 1 \in Nat
    BY <1>1
  <2> QED BY <2>1, InIndex DEF TypeOK
<1> QED BY <1>1, <1>2 DEF Queue

\* What a push copies does not touch the queue.
LEMMA CopyKeepsQueue ==
  ASSUME RingInv, PushCopy
  PROVE  Queue' = Queue
<1> USE RingAssumption DEF RingInv
<1> DEFINE n == Smaller(Len(pusher.data), MaxSize - size)
<1>1. pusher.data \in Seq(Byte) /\ Len(pusher.data) \in Nat /\ MaxSize - size \in Nat
      /\ size \in Nat /\ head \in Nat /\ MaxSize \in Nat
  BY DEF TypeOK, Index
<1>2. n \in Nat /\ n <= Len(pusher.data) /\ n <= MaxSize /\ size + n <= MaxSize
  BY <1>1 DEF Smaller
<1>3. buffer' = Filled(pusher.data, n) /\ UNCHANGED <<head, size>>
  BY DEF PushCopy
<1> HIDE DEF n
<1>4. ASSUME NEW i \in 1 .. size
      PROVE  buffer'[(head + i - 1) % MaxSize] = buffer[(head + i - 1) % MaxSize]
  <2>1. PICK a \in Nat : a = head + i - 1
    BY <1>1
  <2>2. PICK k \in Index : k = a % MaxSize
    BY InIndex
  <2>3. k = (head + i - 1) % MaxSize
    BY <1>1, <2>1, <2>2
  <2>4. \A j \in 1 .. n : k # (tail + j - 1) % MaxSize
    BY <1>1, <1>2, <2>3, FreeSlots DEF TypeOK
  <2>5. buffer \in [Index -> Byte] /\ tail \in Index
    BY DEF TypeOK
  <2>6. Filled(pusher.data, n)[k] = buffer[k]
    BY ONLY <1>1, <1>2, <2>4, <2>5, FilledFacts
  <2> QED BY <1>3, <2>3, <2>6
<1> QED BY <1>3, <1>4 DEF Queue

\* When it unlocks, a push has appended the first n bytes of its packet.
LEMMA PushAppends ==
  ASSUME RingInv, PushStore
  PROVE  Fifo!Push(pusher.data)
<1> USE RingAssumption DEF RingInv
<1> DEFINE n == pusher.n
           data == pusher.data
<1>1. /\ pusher.pc = "store"
      /\ size' = size + n
      /\ pushRet' = n
      /\ UNCHANGED <<buffer, head, popRet, popData>>
  BY DEF PushStore, PushInv
<1>2. /\ data \in Seq(Byte) /\ Len(data) \in Nat /\ size \in Nat /\ head \in Nat
      /\ MaxSize - size \in Nat /\ n \in Nat /\ tail \in Nat
  BY DEF TypeOK, Index
<1>3. /\ n = Smaller(Len(data), MaxSize - size)
      /\ \A i \in 1 .. n : buffer[(tail + i - 1) % MaxSize] = data[i]
  BY <1>1 DEF PushInv
<1>4. n <= Len(data)
  BY <1>2, <1>3, SmallerFacts
<1> HIDE DEF n, data
<1>5. Queue' = [i \in 1 .. size + n |-> buffer[(head + i - 1) % MaxSize]]
  BY <1>1 DEF Queue
<1>6. ASSUME NEW j \in 1 .. n
      PROVE  buffer[(head + (size + j) - 1) % MaxSize] = data[j]
  <2>1. PICK c \in Nat : c = head + size
    BY <1>2
  <2>2. PICK d \in Nat : d = j - 1
    BY <1>2
  <2>3. ((c % MaxSize) + d) % MaxSize = (c + d) % MaxSize
    BY ModAdd
  <2>4. tail = c % MaxSize
    BY <2>1 DEF IndexInv
  <2>5. tail + d = tail + j - 1 /\ c + d = head + (size + j) - 1
    BY <1>2, <2>1, <2>2
  <2> QED BY <1>3, <2>3, <2>4, <2>5
<1>7. Queue' = Queue \o SubSeq(data, 1, n)
  <2> DEFINE q == Queue
             p == SubSeq(data, 1, n)
  <2>1. /\ Len(q) = size /\ q \in Seq(Byte)
        /\ \A i \in 1 .. size : q[i] = buffer[(head + i - 1) % MaxSize]
    BY QueueFacts DEF Queue
  <2>2. p \in Seq(Byte) /\ Len(p) = n /\ \A j \in 1 .. n : p[j] = data[j]
    BY <1>2, <1>4
  <2> HIDE DEF q, p
  <2>3. /\ q \o p \in Seq(Byte)
        /\ Len(q \o p) = size + n
        /\ \A i \in 1 .. size + n : (q \o p)[i] = IF i <= size THEN q[i] ELSE p[i - size]
    BY <2>1, <2>2, ConcatProperties
  <2>4. ASSUME NEW i \in 1 .. size + n
        PROVE  buffer[(head + i - 1) % MaxSize] = IF i <= size THEN q[i] ELSE p[i - size]
    <3>1. CASE i <= size
      BY <1>2, <2>1, <3>1
    <3>2. CASE ~(i <= size)
      <4>1. PICK j \in 1 .. n : i = size + j
        BY <1>2, <3>2
      <4>2. p[i - size] = data[j]
        BY <1>2, <2>2, <4>1
      <4> QED BY <1>6, <3>2, <4>1, <4>2
    <3> QED BY <3>1, <3>2
  <2>5. \A i \in 1 .. size + n : buffer[(head + i - 1) % MaxSize] = (q \o p)[i]
    BY <2>3, <2>4
  <2>6. \A i \in 1 .. size + n : buffer[(head + i - 1) % MaxSize] \in Byte
    BY <2>3, <2>5, ElementOfSeq
  <2>7. Queue' \in Seq(Byte) /\ Len(Queue') = size + n
    <3>1. size + n \in Nat
      BY <1>2
    <3> QED BY ONLY <1>5, <2>6, <3>1
  <2>8. \A i \in 1 .. size + n : Queue'[i] = (q \o p)[i]
    BY <1>5, <2>5
  <2>9. Queue' = q \o p
    BY <2>3, <2>7, <2>8, SeqEqual
  <2> QED BY <2>9 DEF q, p
<1>8. n = Smaller(Len(data), MaxSize - Len(Queue))
  BY <1>3, QueueFacts
<1> QED BY <1>1, <1>7, <1>8 DEF Fifo!Push, Fifo!Smaller, Smaller, n, data

\* When it unlocks, a pop has taken the n oldest bytes away.
LEMMA PopTakes ==
  ASSUME RingInv, PopStore
  PROVE  Fifo!Pop(popper.length)
<1> USE RingAssumption DEF RingInv
<1> DEFINE n == popper.n
           q == Queue
<1>1. /\ popper.pc = "store"
      /\ head' = (head + n) % MaxSize
      /\ size' = size - n
      /\ popRet' = n
      /\ popData' = popper.data
      /\ UNCHANGED <<buffer, tail, pusher, pushRet>>
  BY DEF PopStore, PopInv
<1>2. size \in Nat /\ head \in Nat /\ n \in Nat /\ popper.length \in Nat
  BY DEF TypeOK, Index
<1>3. /\ n = Smaller(popper.length, size)
      /\ popData' = [i \in 1 .. n |-> buffer[(head + i - 1) % MaxSize]]
  BY <1>1 DEF PopInv
<1>4. n <= size
  BY <1>2, <1>3, SmallerFacts
<1>5. /\ Len(q) = size /\ q \in Seq(Byte)
      /\ \A i \in 1 .. size : q[i] = buffer[(head + i - 1) % MaxSize]
  BY QueueFacts DEF Queue
<1>6. Queue' = [i \in 1 .. size - n |-> buffer[(head' + i - 1) % MaxSize]]
  BY <1>1 DEF Queue
<1>7. popData' \in Seq(Byte)
  BY <1>1 DEF TypeOK
<1> HIDE DEF n, q
<1>8. ASSUME NEW i \in 1 .. size - n
      PROVE  buffer[(head' + i - 1) % MaxSize] = q[n + i]
  <2>1. PICK c \in Nat : c = head + n
    BY <1>2
  <2>2. PICK d \in Nat : d = i - 1
    BY <1>2
  <2>3. ((c % MaxSize) + d) % MaxSize = (c + d) % MaxSize
    BY ModAdd
  <2>4. head' = c % MaxSize /\ c % MaxSize \in Int
    BY <1>1, <2>1, InIndex DEF Index
  <2>5. head' + d = head' + i - 1 /\ c + d = head + (n + i) - 1
    BY <1>2, <2>1, <2>2, <2>4
  <2>6. n + i \in 1 .. size
    BY <1>2
  <2> QED BY <1>5, <2>3, <2>4, <2>5, <2>6
<1>9. popData' = SubSeq(q, 1, n)
  <2> DEFINE s == SubSeq(q, 1, n)
  <2>1. /\ s \in Seq(Byte) /\ Len(s) = n
        /\ \A i \in 1 .. n : s[i] = q[i]
    BY <1>2, <1>4, <1>5
  <2> HIDE DEF s
  <2>2. Len(popData') = n
    BY <1>2, <1>3
  <2>3. \A i \in 1 .. n : popData'[i] = s[i]
    BY <1>2, <1>3, <1>4, <1>5, <2>1
  <2>4. popData' = s
    BY <1>7, <2>1, <2>2, <2>3, SeqEqual
  <2> QED BY <2>4 DEF s
<1>10. Queue' = SubSeq(q, n + 1, size)
  <2> DEFINE s == SubSeq(q, n + 1, size)
  <2>1. /\ s \in Seq(Byte) /\ Len(s) = size - n
        /\ \A i \in 1 .. size - n : s[i] = q[n + i]
    <3>1. PICK m \in Nat : m = n + 1
      BY <1>2
    <3>2. \A i \in m .. size : q[i] \in Byte
      BY <1>2, <1>5, <3>1, ElementOfSeq
    <3>3. /\ SubSeq(q, m, size) \in Seq(Byte)
          /\ Len(SubSeq(q, m, size)) = IF m <= size THEN size - m + 1 ELSE 0
          /\ \A i \in 1 .. size - m + 1 : SubSeq(q, m, size)[i] = q[m + i - 1]
      BY ONLY <1>2, <3>2, SubSeqProperties
    <3>4. s = SubSeq(q, m, size)
      BY <3>1
    <3> HIDE DEF s
    <3>5. s \in Seq(Byte) /\ Len(s) = size - n
      BY <1>2, <1>4, <3>1, <3>3, <3>4
    <3>6. ASSUME NEW i \in 1 .. size - n PROVE s[i] = q[n + i]
      <4>1. i \in 1 .. size - m + 1 /\ m + i - 1 = n + i
        BY <1>2, <3>1
      <4> QED BY <3>3, <3>4, <4>1
    <3> QED BY <3>5, <3>6
  <2> HIDE DEF s
  <2>2. \A i \in 1 .. size - n : buffer[(head' + i - 1) % MaxSize] = s[i]
    BY <1>8, <2>1
  <2>3. \A i \in 1 .. size - n : buffer[(head' + i - 1) % MaxSize] \in Byte
    BY <2>1, <2>2, ElementOfSeq
  <2>4. Queue' \in Seq(Byte) /\ Len(Queue') = size - n
    <3>1. size - n \in Nat
      BY <1>2, <1>4
    <3> QED BY ONLY <1>6, <2>3, <3>1
  <2>5. \A i \in 1 .. size - n : Queue'[i] = s[i]
    BY <1>6, <2>2
  <2>6. Queue' = s
    BY <2>1, <2>4, <2>5, SeqEqual
  <2> QED BY <2>6 DEF s
<1> QED BY <1>1, <1>3, <1>5, <1>9, <1>10 DEF Fifo!Pop, Fifo!Smaller, Smaller, n, q

LEMMA RefinedStep ==
  ASSUME RingInv, Next
  PROVE  [Fifo!Next]_(Fifo!vars)
<1> USE RingAssumption DEF RingInv
<1>1. ASSUME UNCHANGED <<buffer, head, size, pushRet, popRet, popData>>
      PROVE  UNCHANGED Fifo!vars
  BY <1>1 DEF Fifo!vars, Queue
<1>2. CASE \/ \E packet \in Packets : PushCall(packet)
           \/ PushLock
           \/ \E length \in PopLengths : PopCall(length)
           \/ PopLock
           \/ PopCopy
  BY <1>1, <1>2 DEF PushCall, PushLock, PopCall, PopLock, PopCopy
<1>3. CASE PushFull
  <2>1. Len(Queue) = MaxSize /\ Queue' = Queue
    BY <1>3, QueueFacts DEF PushFull, ring_buffer_full, Queue
  <2>2. Fifo!PushFull
    BY <1>3, <2>1 DEF PushFull, Fifo!PushFull
  <2> QED BY <2>2 DEF Fifo!Next
<1>4. CASE PushCopy
  <2>1. Queue' = Queue /\ UNCHANGED <<pushRet, popRet, popData>>
    BY <1>4, CopyKeepsQueue DEF PushCopy
  <2> QED BY <2>1 DEF Fifo!vars
<1>5. CASE PushStore
  <2>1. pusher.data \in Packets
    BY <1>5 DEF PushStore, PushInv
  <2> QED BY <1>5, <2>1, PushAppends DEF Fifo!Next
<1>6. CASE PopEmpty
  <2>1. Queue = <<>> /\ Queue' = Queue
    BY <1>6 DEF PopEmpty, ring_buffer_empty, Queue
  <2>2. Fifo!PopEmpty
    BY <1>6, <2>1 DEF PopEmpty, Fifo!PopEmpty
  <2> QED BY <2>2 DEF Fifo!Next
<1>7. CASE PopStore
  <2>1. popper.length \in PopLengths
    BY <1>7 DEF PopStore, PopInv
  <2> QED BY <1>7, <2>1, PopTakes DEF Fifo!Next
<1> QED BY <1>2, <1>3, <1>4, <1>5, <1>6, <1>7 DEF Next

\* The ring buffer implements the byte queue of ByteFifo: a push takes effect
\* when it unlocks, and so does a pop.
THEOREM RingImplementsFifo == Spec => IsFifo
<1>1. Init => Fifo!Init
  BY DEF Init, Fifo!Init, Queue
<1>2. RingInv /\ [Next]_vars => [Fifo!Next]_(Fifo!vars)
  <2>1. ASSUME UNCHANGED vars PROVE UNCHANGED Fifo!vars
    BY <2>1 DEF vars, Fifo!vars, Queue
  <2> QED BY <2>1, RefinedStep
<1> QED BY <1>1, <1>2, RingHolds, PTL DEF Spec, IsFifo, Fifo!Spec

-----------------------------------------------------------------------------
(* Calls return.  ENABLED means nothing to the provers: that a step can be     *)
(* taken when its guard holds, OnlyMutexBlocks, is a hypothesis here, to be    *)
(* read off the guards and the assignments of six actions.                     *)

\* What a step may do to the place of a thread, and what the thread's own steps do.
LEMMA PusherMoves ==
  ASSUME RingInv, [Next]_vars
  PROVE  /\ pusher.pc = "idle" \/ pusher.pc = "lock" \/ pusher.pc = "copy" \/ pusher.pc = "store"
         /\ pusher.pc = "lock" => (pusher.pc = "lock")' \/ (pusher.pc = "copy")'
         /\ pusher.pc = "copy" => (pusher.pc = "copy")' \/ (pusher.pc = "store")'
         /\ pusher.pc = "store" =>
              (pusher.pc = "store")' \/ ((pusher.pc = "idle")' /\ (mutex = "none")')
         /\ PushLock => (pusher.pc = "copy")'
         /\ pusher.pc = "copy" /\ (PushCopy \/ PushStore) => (pusher.pc = "store")'
         /\ pusher.pc = "store" /\ (PushCopy \/ PushStore) =>
              (pusher.pc = "idle")' /\ (mutex = "none")'
<1>1. pusher.pc \in {"idle", "lock", "copy", "store"} /\ pusher = [pusher EXCEPT !.pc = @]
  BY DEF RingInv, TypeOK
<1>2. ASSUME PushLock PROVE pusher.pc = "lock" /\ pusher'.pc = "copy"
  BY <1>2 DEF PushLock, RingInv, TypeOK
<1>3. ASSUME PushCopy PROVE pusher.pc = "copy" /\ pusher'.pc = "store"
  BY <1>3 DEF PushCopy, RingInv, TypeOK
<1>4. ASSUME PushStore PROVE pusher.pc = "store" /\ pusher'.pc = "idle" /\ mutex' = "none"
  BY <1>4 DEF PushStore, IdlePusher
<1>5. ASSUME \E packet \in Packets : PushCall(packet) PROVE pusher.pc = "idle"
  BY <1>5 DEF PushCall
<1>6. ASSUME \/ PushFull \/ PopEmpty \/ PopLock \/ PopCopy \/ PopStore \/ UNCHANGED vars
             \/ \E length \in PopLengths : PopCall(length)
      PROVE  pusher' = pusher
  BY <1>6 DEF PushFull, PopEmpty, PopCall, PopLock, PopCopy, PopStore, vars
<1> QED BY <1>1, <1>2, <1>3, <1>4, <1>5, <1>6 DEF Next

LEMMA PopperMoves ==
  ASSUME RingInv, [Next]_vars
  PROVE  /\ popper.pc = "idle" \/ popper.pc = "lock" \/ popper.pc = "copy" \/ popper.pc = "store"
         /\ popper.pc = "lock" => (popper.pc = "lock")' \/ (popper.pc = "copy")'
         /\ popper.pc = "copy" => (popper.pc = "copy")' \/ (popper.pc = "store")'
         /\ popper.pc = "store" =>
              (popper.pc = "store")' \/ ((popper.pc = "idle")' /\ (mutex = "none")')
         /\ PopLock => (popper.pc = "copy")'
         /\ popper.pc = "copy" /\ (PopCopy \/ PopStore) => (popper.pc = "store")'
         /\ popper.pc = "store" /\ (PopCopy \/ PopStore) =>
              (popper.pc = "idle")' /\ (mutex = "none")'
<1>1. popper.pc \in {"idle", "lock", "copy", "store"} /\ popper = [popper EXCEPT !.pc = @]
  BY DEF RingInv, TypeOK
<1>2. ASSUME PopLock PROVE popper.pc = "lock" /\ popper'.pc = "copy"
  BY <1>2 DEF PopLock, RingInv, TypeOK
<1>3. ASSUME PopCopy PROVE popper.pc = "copy" /\ popper'.pc = "store"
  BY <1>3 DEF PopCopy, RingInv, TypeOK
<1>4. ASSUME PopStore PROVE popper.pc = "store" /\ popper'.pc = "idle" /\ mutex' = "none"
  BY <1>4 DEF PopStore, IdlePopper
<1>5. ASSUME \E length \in PopLengths : PopCall(length) PROVE popper.pc = "idle"
  BY <1>5 DEF PopCall
<1>6. ASSUME \/ PopEmpty \/ PushFull \/ PushLock \/ PushCopy \/ PushStore \/ UNCHANGED vars
             \/ \E packet \in Packets : PushCall(packet)
      PROVE  popper' = popper
  BY <1>6 DEF PopEmpty, PushFull, PushCall, PushLock, PushCopy, PushStore, vars
<1> QED BY <1>1, <1>2, <1>3, <1>4, <1>5, <1>6 DEF Next

\* A step of a critical section can be taken when its place is reached, and a
\* mutex that nobody holds can be locked: no guard of the code stands in the way.
OnlyMutexBlocks ==
  /\ pusher.pc = "lock" /\ mutex = "none" => ENABLED <<PushLock>>_vars
  /\ pusher.pc \in {"copy", "store"} => ENABLED <<PushCopy \/ PushStore>>_vars
  /\ popper.pc = "lock" /\ mutex = "none" => ENABLED <<PopLock>>_vars
  /\ popper.pc \in {"copy", "store"} => ENABLED <<PopCopy \/ PopStore>>_vars

\* Neither audio callback blocks for ever in the buffer: whoever holds the mutex
\* gives it back, so that the other finds it free again and again.
THEOREM CallsDoReturn == FairSpec /\ []OnlyMutexBlocks => CallsReturn
<1>1. RingInv =>
        /\ mutex = "none" \/ pusher.pc \in {"copy", "store"} \/ popper.pc \in {"copy", "store"}
        /\ pusher.pc \in {"copy", "store"} <=> pusher.pc = "copy" \/ pusher.pc = "store"
        /\ popper.pc \in {"copy", "store"} <=> popper.pc = "copy" \/ popper.pc = "store"
        /\ pusher.pc = "lock" => pusher.pc # "copy" /\ pusher.pc # "store" /\ pusher.pc # "idle"
        /\ popper.pc = "lock" => popper.pc # "copy" /\ popper.pc # "store" /\ popper.pc # "idle"
  BY DEF RingInv, TypeOK, MutexInv
<1>2. FairSpec => []RingInv /\ [][Next]_vars
  BY RingHolds, PTL DEF FairSpec, Spec
<1>3. RingInv /\ [Next]_vars =>
        /\ pusher.pc = "idle" \/ pusher.pc = "lock" \/ pusher.pc = "copy" \/ pusher.pc = "store"
        /\ pusher.pc = "lock" => (pusher.pc = "lock")' \/ (pusher.pc = "copy")'
        /\ pusher.pc = "copy" => (pusher.pc = "copy")' \/ (pusher.pc = "store")'
        /\ pusher.pc = "store" =>
             (pusher.pc = "store")' \/ ((pusher.pc = "idle")' /\ (mutex = "none")')
        /\ PushLock => (pusher.pc = "copy")'
        /\ pusher.pc = "copy" /\ (PushCopy \/ PushStore) => (pusher.pc = "store")'
        /\ pusher.pc = "store" /\ (PushCopy \/ PushStore) =>
             (pusher.pc = "idle")' /\ (mutex = "none")'
  BY PusherMoves
<1>4. RingInv /\ [Next]_vars =>
        /\ popper.pc = "idle" \/ popper.pc = "lock" \/ popper.pc = "copy" \/ popper.pc = "store"
        /\ popper.pc = "lock" => (popper.pc = "lock")' \/ (popper.pc = "copy")'
        /\ popper.pc = "copy" => (popper.pc = "copy")' \/ (popper.pc = "store")'
        /\ popper.pc = "store" =>
             (popper.pc = "store")' \/ ((popper.pc = "idle")' /\ (mutex = "none")')
        /\ PopLock => (popper.pc = "copy")'
        /\ popper.pc = "copy" /\ (PopCopy \/ PopStore) => (popper.pc = "store")'
        /\ popper.pc = "store" /\ (PopCopy \/ PopStore) =>
             (popper.pc = "idle")' /\ (mutex = "none")'
  BY PopperMoves
<1>5. FairSpec /\ []OnlyMutexBlocks =>
        (pusher.pc \in {"copy", "store"} ~> pusher.pc = "idle" /\ mutex = "none")
  BY <1>1, <1>2, <1>3, PTL DEF FairSpec, Fairness, OnlyMutexBlocks
<1>6. FairSpec /\ []OnlyMutexBlocks =>
        (popper.pc \in {"copy", "store"} ~> popper.pc = "idle" /\ mutex = "none")
  BY <1>1, <1>2, <1>4, PTL DEF FairSpec, Fairness, OnlyMutexBlocks
<1>7. FairSpec /\ []OnlyMutexBlocks => (pusher.pc = "lock" ~> pusher.pc = "copy")
  BY <1>1, <1>2, <1>3, <1>6, PTL DEF FairSpec, Fairness, OnlyMutexBlocks
<1>8. FairSpec /\ []OnlyMutexBlocks => (popper.pc = "lock" ~> popper.pc = "copy")
  BY <1>1, <1>2, <1>4, <1>5, PTL DEF FairSpec, Fairness, OnlyMutexBlocks
<1> QED BY <1>1, <1>2, <1>3, <1>4, <1>5, <1>6, <1>7, <1>8, PTL DEF CallsReturn
=============================================================================
