--------------------------- MODULE SPSCQueueProofs ---------------------------
(***************************************************************************)
(* Proofs about SPSCQueue, for rings of every size, every set of elements  *)
(* and any number of pushes.                                               *)
(***************************************************************************)
EXTENDS SPSCQueue, SequenceTheorems, TLAPS

-----------------------------------------------------------------------------
(* Arithmetic of the ring: elements have positions 0, 1, ..., and position *)
(* k is in slot k % max_size.                                              *)

(* Dividing by max_size: the quotient and the remainder, and that they are *)
(* the only ones.                                                          *)
LEMMA Division ==
  ASSUME NEW k \in Int
  PROVE  /\ k % max_size \in Slot /\ k \div max_size \in Int
         /\ k = max_size * (k \div max_size) + (k % max_size)
  BY SizeAssumption DEF Slot

(* A quotient and a remainder that fit are the ones.                       *)
LEMMA DivisionUnique ==
  ASSUME NEW q \in Int, NEW r \in Slot
  PROVE  (max_size * q + r) % max_size = r
  BY SizeAssumption DEF Slot

(* A slot is its own remainder.                                            *)
LEMMA SlotRemainder ==
  ASSUME NEW r \in Slot
  PROVE  r % max_size = r
<1>1. (max_size * 0 + r) % max_size = r
  BY DivisionUnique
<1>2. max_size * 0 + r = r
  BY SizeAssumption DEF Slot
<1> QED
  BY <1>1, <1>2

(* Ring positions one turn apart share a slot; those less than a turn      *)
(* apart do not.                                                           *)
LEMMA TurnSameSlot ==
  ASSUME NEW k \in Int
  PROVE  (k + max_size) % max_size = k % max_size
<1> DEFINE q == k \div max_size
           r == k % max_size
<1>1. /\ q \in Int /\ r \in Slot /\ q + 1 \in Int
      /\ k = max_size * q + r
  BY Division
<1>2. max_size * (q + 1) = max_size * q + max_size
  BY <1>1, SizeAssumption
<1>3. k + max_size = max_size * (q + 1) + r
  BY <1>1, <1>2, SizeAssumption DEF Slot
<1>4. (max_size * (q + 1) + r) % max_size = r
  BY <1>1, DivisionUnique
<1> QED
  BY <1>3, <1>4

(* next_index takes the slot of a position to the slot of the next.        *)
LEMMA NextPosition ==
  ASSUME NEW k \in Int
  PROVE  next_index(k % max_size) = (k + 1) % max_size
<1> DEFINE q == k \div max_size
           r == k % max_size
<1>1. /\ q \in Int /\ r \in Slot /\ q + 1 \in Int
      /\ k = max_size * q + r
  BY Division
<1>2. CASE r + 1 < max_size
  <2>1. r + 1 \in Slot /\ k + 1 = max_size * q + (r + 1)
    BY <1>1, <1>2, SizeAssumption DEF Slot
  <2>2. (k + 1) % max_size = r + 1
    <3> HIDE DEF q, r
    <3> QED BY <1>1, <2>1, DivisionUnique
  <2>3. (r + 1) % max_size = r + 1
    <3> HIDE DEF q, r
    <3> QED BY <2>1, <1>2, SizeAssumption DEF Slot
  <2> QED
    BY <2>2, <2>3 DEF next_index
<1>3. CASE r + 1 = max_size
  <2>1. max_size * (q + 1) = max_size * q + max_size
    BY <1>1, SizeAssumption
  <2>2. 0 \in Slot /\ k + 1 = max_size * (q + 1) + 0
    <3> HIDE DEF q, r
    <3> QED BY <1>1, <1>3, <2>1, SizeAssumption DEF Slot
  <2>3. (k + 1) % max_size = 0
    <3> HIDE DEF q, r
    <3> QED BY <1>1, <2>2, DivisionUnique
  <2>4. max_size % max_size = 0
    BY SizeAssumption
  <2> QED
    BY <1>3, <2>3, <2>4 DEF next_index
<1> QED
  BY <1>1, <1>2, <1>3, SizeAssumption DEF Slot

(* The remainders of two positions less than a turn apart.                 *)
LEMMA GapRemainders ==
  ASSUME NEW j \in Int, NEW d \in Slot
  PROVE  \/ (j + d) % max_size = (j % max_size) + d /\ (j % max_size) + d < max_size
         \/ (j + d) % max_size = (j % max_size) + d - max_size /\ (j % max_size) + d >= max_size
<1> DEFINE q == j \div max_size
           r == j % max_size
<1>1. /\ q \in Int /\ r \in Slot /\ q + 1 \in Int
      /\ j = max_size * q + r
  BY Division
<1> HIDE DEF q, r
<1>2. CASE r + d < max_size
  <2>1. r + d \in Slot /\ j + d = max_size * q + (r + d)
    BY <1>1, <1>2, SizeAssumption DEF Slot
  <2>2. (j + d) % max_size = r + d
    BY <1>1, <2>1, DivisionUnique
  <2> QED
    BY <2>2, <1>2 DEF r
<1>3. CASE r + d >= max_size
  <2>1. max_size * (q + 1) = max_size * q + max_size
    BY <1>1, SizeAssumption
  <2>2. r + d - max_size \in Slot /\ j + d = max_size * (q + 1) + (r + d - max_size)
    BY <1>1, <1>3, <2>1, SizeAssumption DEF Slot
  <2>3. (j + d) % max_size = r + d - max_size
    BY <1>1, <2>2, DivisionUnique
  <2> QED
    BY <2>3, <1>3 DEF r
<1> QED
  BY <1>1, <1>2, <1>3, SizeAssumption DEF Slot

(* Positions less than a turn apart have different slots.                  *)
LEMMA SlotsDiffer ==
  ASSUME NEW j \in Int, NEW k \in Int, j < k, k - j < max_size
  PROVE  j % max_size # k % max_size
<1> DEFINE d == k - j
<1>1. d \in Slot /\ d > 0 /\ j + d = k
  BY SizeAssumption DEF Slot
<1>2. j % max_size \in Slot
  BY Division
<1>3. \/ (j + d) % max_size = (j % max_size) + d /\ (j % max_size) + d < max_size
      \/ (j + d) % max_size = (j % max_size) + d - max_size /\ (j % max_size) + d >= max_size
  BY <1>1, GapRemainders
<1> HIDE DEF d
<1> QED
  BY <1>1, <1>2, <1>3, SizeAssumption DEF Slot

(* A window of max_size positions reaches every slot.                      *)
LEMMA WindowCovers ==
  ASSUME NEW i \in Slot, NEW n \in Nat
  PROVE  \E k \in n .. n + max_size - 1 : k % max_size = i
<1> DEFINE r == n % max_size
           d == IF i >= r THEN i - r ELSE i - r + max_size
<1>1. r \in Slot
  BY Division
<1>2. d \in Slot /\ n + d \in n .. n + max_size - 1
  BY <1>1, SizeAssumption DEF Slot
<1>3. (n + d) % max_size = i
  <2>1. \/ (n + d) % max_size = r + d /\ r + d < max_size
        \/ (n + d) % max_size = r + d - max_size /\ r + d >= max_size
    BY <1>2, GapRemainders
  <2> QED
    BY <1>1, <2>1, SizeAssumption DEF Slot
<1> QED
  BY <1>2, <1>3

(* The availabilities are exact about the positions they are computed of.  *)
LEMMA AvailabilitiesExact ==
  ASSUME NEW w \in Int, NEW r \in Int, w - r \in Slot
  PROVE  /\ read_available(w % max_size, r % max_size) = w - r
         /\ write_available(w % max_size, r % max_size) = max_size - 1 - (w - r)
<1> DEFINE d == w - r
           a == w % max_size
           b == r % max_size
<1>1. a \in Slot /\ b \in Slot /\ d \in Slot
  BY Division
<1>2. \/ a = b + d /\ b + d < max_size
      \/ a = b + d - max_size /\ b + d >= max_size
  <2>1. r + d = w
    OBVIOUS
  <2> QED
    BY <1>1, <2>1, GapRemainders
<1>3. \A x \in Int : /\ 0 <= x /\ x < SizeMod => x % SizeMod = x
                     /\ -SizeMod <= x /\ x < 0 => x % SizeMod = x + SizeMod
                     /\ SizeMod <= x /\ x < 2 * SizeMod => x % SizeMod = x - SizeMod
  BY SizeAssumption
<1> HIDE DEF a, b
<1>4. read_available(a, b) = d
  BY <1>1, <1>2, SizeAssumption DEF read_available, Slot
<1>5. write_available(a, b) = max_size - 1 - d
  <2>1. CASE b - a - 1 >= 0
    <3>1. (b - a - 1) % SizeMod = b - a - 1
      BY <1>1, <1>3, <2>1, SizeAssumption DEF Slot
    <3>2. write_available(a, b) = b - a - 1
      BY <1>1, <3>1, SizeAssumption DEF write_available, Slot
    <3> QED
      BY <1>1, <1>2, <2>1, <3>2, SizeAssumption DEF Slot
  <2>2. CASE b - a - 1 < 0
    <3>1. (b - a - 1) % SizeMod = b - a - 1 + SizeMod
      BY <1>1, <1>3, <2>2, SizeAssumption DEF Slot
    <3>2. b - a - 1 + SizeMod >= b
      BY <1>1, SizeAssumption DEF Slot
    <3>3. (b - a - 1 + SizeMod + max_size) % SizeMod = b - a - 1 + max_size
      BY <1>1, <1>3, <2>2, SizeAssumption DEF Slot
    <3>4. write_available(a, b) = b - a - 1 + max_size
      BY <3>1, <3>2, <3>3 DEF write_available
    <3> QED
      BY <1>1, <1>2, <2>2, <3>4, SizeAssumption DEF Slot
  <2> QED
    BY <1>1, <2>1, <2>2 DEF Slot
<1> QED
  BY <1>4, <1>5 DEF a, b

-----------------------------------------------------------------------------
(* The sequence of stores to an index is never empty, and a store adds one *)
(* element and keeps the others.                                           *)
LEMMA StoreAppended ==
  ASSUME NEW s \in Seq(Store), NEW e \in Store
  PROVE  /\ Append(s, e) \in Seq(Store)
         /\ Len(Append(s, e)) = Len(s) + 1
         /\ \A k \in 1 .. Len(s) : Append(s, e)[k] = s[k]
         /\ Append(s, e)[Len(s) + 1] = e
  OBVIOUS

(* A load of the k-th store yields a slot, and a count to learn.           *)
LEMMA StoreAt ==
  ASSUME NEW s \in Seq(Store), NEW k \in 1 .. Len(s)
  PROVE  /\ Len(s) \in Nat /\ k \in Nat
         /\ s[k] \in Store /\ s[k].val \in Slot /\ s[k].rel \in Nat
<1>1. Len(s) \in Nat /\ s[k] \in Store
  OBVIOUS
<1> QED
  BY <1>1 DEF Store

(* Every index is a slot and so is the one after it.                       *)
LEMMA NextIsSlot ==
  ASSUME NEW i \in Slot PROVE next_index(i) \in Slot
  BY SizeAssumption DEF next_index, Slot

(* What the two availabilities return is a size.                           *)
LEMMA AvailabilityTypes ==
  ASSUME NEW w \in Slot, NEW r \in Slot
  PROVE  /\ read_available(w, r) \in Nat
         /\ write_available(w, r) \in Nat
<1>1. read_available(w, r) \in Nat
  BY SizeAssumption DEF read_available, Slot
<1>2. write_available(w, r) \in Nat
  <2>1. \A x \in Int : x % SizeMod \in Nat
    BY SizeAssumption
  <2> DEFINE diff == (r - w - 1) % SizeMod
  <2>2. diff \in Nat /\ (diff + max_size) % SizeMod \in Nat
    BY <2>1, SizeAssumption DEF Slot
  <2> QED
    BY <2>2 DEF write_available
<1> QED BY <1>1, <1>2

(* A new queue has the types.                                              *)
LEMMA InitiallyTyped == Init => TypeOK
  BY SizeAssumption, ValueAssumption
  DEF Init, TypeOK, Slot, Content, Store, Release

(* The type invariant holds: every index a store publishes is a slot, and  *)
(* no thread reads a store that has not been made.                         *)
THEOREM TypeCorrect == Spec => []TypeOK
<1>1. Init => TypeOK
  BY InitiallyTyped
<1>2. TypeOK /\ [Next]_vars => TypeOK'
  <2> SUFFICES ASSUME TypeOK, [Next]_vars PROVE TypeOK'
    OBVIOUS
  <2>0. /\ write_index \in Slot /\ read_index \in Slot
        /\ Puts \in Nat /\ Gone \in Nat
    <3>1. /\ Len(m_write_index) \in 1 .. Len(m_write_index)
          /\ Len(m_read_index) \in 1 .. Len(m_read_index)
      BY DEF TypeOK
    <3> QED
      BY <3>1, StoreAt DEF TypeOK, write_index, read_index, Puts, Gone
  <2>1. ASSUME NEW m \in VisibleReads PROVE
        /\ m \in 1 .. Len(m_read_index)
        /\ m_read_index[m] \in Store
        /\ Acquire(pknows, m_read_index[m]) \in Nat
    <3>1. m \in 1 .. Len(m_read_index)
      BY DEF TypeOK, VisibleReads
    <3> QED
      BY <3>1, StoreAt DEF TypeOK, Acquire
  <2>2. ASSUME NEW m \in VisibleWrites PROVE
        /\ m \in 1 .. Len(m_write_index)
        /\ m_write_index[m] \in Store
        /\ Acquire(cknows, m_write_index[m]) \in Nat
    <3>1. m \in 1 .. Len(m_write_index)
      BY DEF TypeOK, VisibleWrites
    <3> QED
      BY <3>1, StoreAt DEF TypeOK, Acquire
  <2>3. /\ Release(next_index(write_index), Puts + 1) \in Store
        /\ Release(next_index(read_index), Gone + 1) \in Store
    BY <2>0, NextIsSlot DEF Release, Store
  <2>4. CASE Producer
    <3>1. ASSUME NEW m \in VisibleReads, EmplaceFull(m) PROVE TypeOK'
      BY <2>1, <3>1 DEF EmplaceFull, LoadReadIndex, TypeOK, consumer, slots
    <3>2. ASSUME NEW m \in VisibleReads, NEW v \in Value, EmplaceBegin(v, m)
          PROVE  TypeOK'
      BY <2>1, <3>2 DEF EmplaceBegin, LoadReadIndex, TypeOK, consumer, slots
    <3>3. ASSUME NEW m \in VisibleReads, WriteAvailable(m) PROVE TypeOK'
      BY <2>0, <2>1, <3>3, AvailabilityTypes
      DEF WriteAvailable, LoadReadIndex, TypeOK, consumer, slots, Store
    <3>4. ASSUME NEW m \in VisibleReads, ProducerReadAvailable(m) PROVE TypeOK'
      BY <2>1, <3>4 DEF ProducerReadAvailable, Relaxed, TypeOK, consumer, slots
    <3>5. CASE EmplaceConstruct
      BY <2>0, <3>5 DEF EmplaceConstruct, TypeOK, Content, consumer
    <3>6. CASE EmplaceThrow
      BY <3>6 DEF EmplaceThrow, TypeOK, consumer, slots
    <3>7. CASE EmplacePublish
      BY <2>3, <3>7, StoreAppended DEF EmplacePublish, TypeOK, consumer, slots
    <3> QED
      BY <2>4, <3>1, <3>2, <3>3, <3>4, <3>5, <3>6, <3>7 DEF Producer, ProducerStep
  <2>5. CASE Consumer
    <3>1. ASSUME NEW m \in VisibleWrites, ReadAvailable(m) PROVE TypeOK'
      BY <2>0, <2>2, <3>1, AvailabilityTypes
      DEF ReadAvailable, LoadWriteIndex, TypeOK, producer, slots, Store
    <3>2. ASSUME NEW m \in VisibleWrites, ConsumerWriteAvailable(m) PROVE TypeOK'
      BY <2>2, <3>2 DEF ConsumerWriteAvailable, Relaxed, TypeOK, producer, slots
    <3>3. ASSUME NEW m \in VisibleWrites, Pop(m) \/ Consume(m) PROVE TypeOK'
      BY <2>2, <3>3
      DEF Pop, Consume, BeginPop, LoadWriteIndex, TypeOK, producer, slots
    <3>4. ASSUME NEW m \in VisibleWrites, ClearLoop(m) PROVE TypeOK'
      BY <2>2, <3>4 DEF ClearLoop, LoadWriteIndex, is_empty, TypeOK, producer, slots
    <3>5. CASE Clear
      BY <3>5 DEF Clear, TypeOK, producer, slots
    <3>6. CASE InvokeReturns
      BY <3>6 DEF InvokeReturns, TypeOK, producer, slots
    <3>7. CASE InvokeThrows
      BY <2>0, <3>7 DEF InvokeThrows, TypeOK, Content, producer
    <3>8. CASE Destroy
      BY <2>0, <3>8 DEF Destroy, TypeOK, Content, producer
    <3>9. CASE Advance
      BY <2>3, <3>9, StoreAppended DEF Advance, TypeOK, producer, slots
    <3> QED
      BY <2>5, <3>1, <3>2, <3>3, <3>4, <3>5, <3>6, <3>7, <3>8, <3>9
      DEF Consumer, ConsumerStep
  <2>6. CASE BeginDestroy
    BY <2>0, <2>6 DEF BeginDestroy, TypeOK, producer, slots
  <2>7. CASE DrainOne
    BY <2>0, <2>3, <2>7, StoreAppended
    DEF DrainOne, TypeOK, Content, producer, consumer
  <2>8. CASE Deallocate
    BY <2>8 DEF Deallocate, TypeOK, producer, consumer, slots
  <2>9. CASE UNCHANGED vars
    BY <2>9 DEF vars, TypeOK, producer, consumer, slots
  <2> QED
    BY <2>4, <2>5, <2>6, <2>7, <2>8, <2>9 DEF Next, Terminated
<1> QED
  BY <1>1, <1>2, PTL DEF Spec

-----------------------------------------------------------------------------
(* What the inductive invariant says of the indexes: where both threads    *)
(* are, and that the elements between them fit the ring.                   *)
LEMMA Positions ==
  ASSUME TypeOK, IInv
  PROVE  /\ Puts \in Nat /\ Len(m_write_index) = Puts + 1
         /\ Gone \in Nat /\ Len(m_read_index) = Gone + 1
         /\ Gone <= Puts /\ Puts - Gone \in Slot
         /\ write_index = Puts % max_size /\ write_index \in Slot
         /\ read_index = Gone % max_size /\ read_index \in Slot
         /\ Release(next_index(write_index), Puts + 1)
              = Release((Puts + 1) % max_size, Puts + 1)
         /\ Release(next_index(read_index), Gone + 1)
              = Release((Gone + 1) % max_size, Gone + 1)
         /\ Razed \in Nat /\ Gone <= Razed /\ Razed <= Puts
         /\ Built \in Nat /\ Puts <= Built /\ Built <= Razed + max_size - 1
<1>1. /\ Puts \in Nat /\ Len(m_write_index) = Puts + 1
      /\ Gone \in Nat /\ Len(m_read_index) = Gone + 1
  BY DEF TypeOK, Puts, Gone
<1>2. Gone <= Puts /\ Puts - Gone \in Slot
  BY <1>1, SizeAssumption DEF IInv, ProducerBehind, ConsumerBehind, TypeOK, Slot
<1>3. /\ m_write_index[Puts + 1] = Release(Puts % max_size, Puts)
      /\ m_read_index[Gone + 1] = Release(Gone % max_size, Gone)
  BY <1>1 DEF IInv, StoresInOrder
<1>4. /\ write_index = Puts % max_size /\ write_index \in Slot
      /\ read_index = Gone % max_size /\ read_index \in Slot
  BY <1>1, <1>3, Division DEF write_index, read_index, Release
<1>5. /\ next_index(write_index) = (Puts + 1) % max_size
      /\ next_index(read_index) = (Gone + 1) % max_size
  BY <1>1, <1>4, NextPosition
<1>6. Razed \in Nat /\ Gone <= Razed /\ Razed <= Puts
  BY <1>1, <1>2 DEF IInv, ConsumerBehind, TypeOK, Razed
<1>7. Built \in Nat /\ Puts <= Built /\ Built <= Razed + max_size - 1
  BY <1>1, <1>2, <1>6, SizeAssumption DEF IInv, ProducerBehind, TypeOK, Built, Slot
<1> QED
  BY <1>1, <1>2, <1>4, <1>5, <1>6, <1>7

(* A pop in progress is of an element that was published, and an emplace   *)
(* in progress has a slot to spare.                                        *)
LEMMA CallsHaveRoom ==
  ASSUME TypeOK, IInv
  PROVE  /\ cpc \in {"invoke", "destroy", "advance"} => Gone < Puts
         /\ ppc # "idle" => Puts + 1 - Gone <= max_size - 1
<1>1. /\ Puts \in Nat /\ Len(m_write_index) = Puts + 1
      /\ Gone \in Nat /\ Len(m_read_index) = Gone + 1
  BY Positions
<1>2. /\ pseen \in Nat /\ pseen <= Gone + 1 /\ pknows \in Nat
      /\ cseen \in Nat /\ cseen <= Puts + 1 /\ cknows \in Nat
  BY <1>1 DEF TypeOK
<1> QED
  BY <1>1, <1>2, SizeAssumption DEF IInv, ProducerBehind, ConsumerBehind

(* What a load of the read index tells the producer, however stale it is:  *)
(* the queue holds at most what it computes, and every destruction that    *)
(* the index counts happened before.                                       *)
LEMMA ProducerLoad ==
  ASSUME TypeOK, IInv, NEW m \in VisibleReads
  PROVE  /\ m \in 1 .. Len(m_read_index) /\ pseen <= m
         /\ m - 1 <= Gone /\ Puts - (m - 1) \in Slot
         /\ Acquire(pknows, m_read_index[m]) = m - 1
         /\ IsFull(m) <=> Puts - (m - 1) = max_size - 1
         /\ read_available(write_index, m_read_index[m].val) = Puts - (m - 1)
         /\ write_available(write_index, m_read_index[m].val)
              = max_size - 1 - (Puts - (m - 1))
<1>0. /\ Puts \in Nat /\ Len(m_write_index) = Puts + 1
      /\ Gone \in Nat /\ Len(m_read_index) = Gone + 1
      /\ Gone <= Puts /\ Puts - Gone \in Slot
  BY Positions
<1>1. m \in 1 .. Len(m_read_index) /\ pseen <= m
  BY DEF TypeOK, VisibleReads
<1>2. m - 1 <= Gone /\ Puts - (m - 1) \in Slot
  BY <1>0, <1>1, SizeAssumption DEF IInv, ProducerBehind, TypeOK, Slot
<1>3. m_read_index[m] = Release((m - 1) % max_size, m - 1)
  BY <1>1 DEF IInv, StoresInOrder
<1>4. Acquire(pknows, m_read_index[m]) = m - 1
  BY <1>1, <1>3 DEF Acquire, Release, IInv, ProducerBehind, TypeOK
<1>5. m_read_index[m].val = (m - 1) % max_size
  BY <1>3 DEF Release
<1>6. IsFull(m) <=> Puts - (m - 1) = max_size - 1
  <2>1. next_index(write_index) = (Puts + 1) % max_size
    BY Positions, NextPosition
  <2>2. CASE Puts - (m - 1) = max_size - 1
    <3>1. Puts + 1 = (m - 1) + max_size
      BY <1>0, <1>1, <2>2, SizeAssumption
    <3> QED
      BY <1>1, <1>5, <2>1, <2>2, <3>1, TurnSameSlot DEF IsFull
  <2>3. CASE Puts - (m - 1) # max_size - 1
    <3>1. /\ m - 1 < Puts + 1 /\ (Puts + 1) - (m - 1) < max_size
          /\ m - 1 \in Int /\ Puts + 1 \in Int
      BY <1>0, <1>1, <1>2, <2>3, SizeAssumption DEF Slot
    <3> QED
      BY <1>5, <2>1, <2>3, <3>1, SlotsDiffer DEF IsFull
  <2> QED
    BY <2>2, <2>3
<1>7. /\ read_available(write_index, m_read_index[m].val) = Puts - (m - 1)
      /\ write_available(write_index, m_read_index[m].val)
           = max_size - 1 - (Puts - (m - 1))
  <2>1. m - 1 \in Int /\ Puts \in Int
    BY <1>0, <1>1
  <2> QED
    BY <1>2, <1>5, <2>1, Positions, AvailabilitiesExact
<1> QED
  BY <1>1, <1>2, <1>4, <1>6, <1>7

(* What a load of the write index tells the consumer: the queue holds at   *)
(* least what it computes, all of it constructed before.                   *)
LEMMA ConsumerLoad ==
  ASSUME TypeOK, IInv, NEW m \in VisibleWrites
  PROVE  /\ m \in 1 .. Len(m_write_index) /\ cseen <= m
         /\ Gone <= m - 1 /\ m - 1 <= Puts /\ (m - 1) - Gone \in Slot
         /\ Acquire(cknows, m_write_index[m]) = m - 1
         /\ is_empty(m_write_index[m].val, read_index) <=> m - 1 = Gone
         /\ read_available(m_write_index[m].val, read_index) = (m - 1) - Gone
         /\ write_available(m_write_index[m].val, read_index)
              = max_size - 1 - ((m - 1) - Gone)
<1>0. /\ Puts \in Nat /\ Len(m_write_index) = Puts + 1
      /\ Gone \in Nat /\ Len(m_read_index) = Gone + 1
      /\ Gone <= Puts /\ Puts - Gone \in Slot
  BY Positions
<1>1. m \in 1 .. Len(m_write_index) /\ cseen <= m
  BY DEF TypeOK, VisibleWrites
<1>2. Gone <= m - 1 /\ m - 1 <= Puts /\ (m - 1) - Gone \in Slot
  BY <1>0, <1>1, SizeAssumption DEF IInv, ConsumerBehind, TypeOK, Slot
<1>3. m_write_index[m] = Release((m - 1) % max_size, m - 1)
  BY <1>1 DEF IInv, StoresInOrder
<1>4. Acquire(cknows, m_write_index[m]) = m - 1
  BY <1>1, <1>3 DEF Acquire, Release, IInv, ConsumerBehind, TypeOK
<1>5. m_write_index[m].val = (m - 1) % max_size
  BY <1>3 DEF Release
<1>6. is_empty(m_write_index[m].val, read_index) <=> m - 1 = Gone
  <2>1. CASE m - 1 = Gone
    BY <1>5, <2>1, Positions DEF is_empty
  <2>2. CASE m - 1 # Gone
    <3>1. /\ Gone < m - 1 /\ (m - 1) - Gone < max_size
          /\ m - 1 \in Int /\ Gone \in Int
      BY <1>0, <1>1, <1>2, <2>2, SizeAssumption DEF Slot
    <3> QED
      BY <1>5, <2>2, <3>1, Positions, SlotsDiffer DEF is_empty
  <2> QED
    BY <2>1, <2>2
<1>7. /\ read_available(m_write_index[m].val, read_index) = (m - 1) - Gone
      /\ write_available(m_write_index[m].val, read_index)
           = max_size - 1 - ((m - 1) - Gone)
  <2>1. m - 1 \in Int /\ Gone \in Int
    BY <1>0, <1>1
  <2> QED
    BY <1>2, <1>5, <2>1, Positions, AvailabilitiesExact
<1> QED
  BY <1>1, <1>2, <1>4, <1>6, <1>7

-----------------------------------------------------------------------------
(* The inductive invariant.  Most steps leave the stores, or the slots, or *)
(* one thread alone.                                                       *)
LEMMA StoresStay ==
  ASSUME StoresInOrder, UNCHANGED <<m_write_index, m_read_index>>
  PROVE  StoresInOrder' /\ Puts' = Puts /\ Gone' = Gone
  BY DEF StoresInOrder, Puts, Gone

(* A step that leaves the slots and what counts them keeps them in step.   *)
LEMMA SlotsStay ==
  ASSUME SlotsInStep, UNCHANGED slots, Built' = Built, Razed' = Razed
  PROVE  SlotsInStep'
  BY DEF SlotsInStep, slots

(* A step of the consumer does not take the producer back.                 *)
LEMMA ProducerStays ==
  ASSUME ProducerBehind, UNCHANGED <<m_write_index, m_read_index, producer>>
  PROVE  ProducerBehind'
  BY DEF ProducerBehind, producer, Puts

(* A step of the producer does not take the consumer back.                 *)
LEMMA ConsumerStays ==
  ASSUME ConsumerBehind, UNCHANGED <<m_write_index, m_read_index, consumer>>
  PROVE  ConsumerBehind'
  BY DEF ConsumerBehind, consumer, Gone

(* The slot of an element under construction becomes live.                 *)
LEMMA SlotBuilt ==
  ASSUME TypeOK, TypeOK', IInv, EmplaceConstruct
  PROVE  SlotsInStep'
<1> DEFINE n == Puts
<1>1. /\ n \in Nat /\ Built = n /\ Built' = n + 1 /\ Razed' = Razed /\ Razed \in Nat
      /\ Razed <= n /\ write_index = n % max_size /\ write_index \in Slot
  BY Positions DEF EmplaceConstruct, consumer, Built, Razed, Puts, Gone
<1>2. /\ buffer' = [buffer EXCEPT ![n % max_size] = parg]
      /\ stamp' = [stamp EXCEPT ![n % max_size] = n + 1]
      /\ parg # Raw
  BY <1>1, ValueAssumption DEF EmplaceConstruct, TypeOK
<1> HIDE DEF n
<1> SUFFICES ASSUME NEW k \in Razed .. Razed + max_size - 1
             PROVE  IF k < n + 1
                    THEN buffer'[k % max_size] # Raw /\ stamp'[k % max_size] = k + 1
                    ELSE /\ buffer'[k % max_size] = Raw
                         /\ stamp'[k % max_size]
                              = IF k < max_size THEN 0 ELSE k - max_size + 1
  BY <1>1 DEF SlotsInStep
<1>3. k \in Int /\ k % max_size \in Slot /\ n % max_size \in Slot
  BY <1>1, Division, SizeAssumption
<1>4. CASE k = n
  BY <1>1, <1>2, <1>3, <1>4 DEF TypeOK
<1>5. CASE k # n
  <2>1. k % max_size # n % max_size
    <3>1. CASE k < n
      <4>1. n <= Razed + max_size - 1
        BY <1>1, Positions DEF n
      <4>2. n - k < max_size /\ n \in Int
        BY <1>1, <1>3, <4>1, SizeAssumption
      <4> QED
        BY <1>3, <3>1, <4>2, SlotsDiffer
    <3>2. CASE n < k
      <4>1. k - n < max_size /\ n \in Int
        BY <1>1, <1>3, SizeAssumption
      <4> QED
        BY <1>3, <3>2, <4>1, SlotsDiffer
    <3> QED
      BY <1>1, <1>3, <1>5, <3>1, <3>2
  <2>2. /\ buffer'[k % max_size] = buffer[k % max_size]
        /\ stamp'[k % max_size] = stamp[k % max_size]
    BY <1>2, <1>3, <2>1 DEF TypeOK
  <2>3. k < n + 1 <=> k < Built
    BY <1>1, <1>3, <1>5
  <2> QED
    BY <2>2, <2>3 DEF IInv, SlotsInStep
<1> QED
  BY <1>4, <1>5

(* The slot of the oldest element becomes raw, and with that the slot of   *)
(* the position one turn ahead.                                            *)
LEMMA SlotRazed ==
  ASSUME TypeOK, TypeOK', IInv, Razed = Gone, Razed' = Gone + 1, Built' = Built,
         buffer' = [buffer EXCEPT ![read_index] = Raw],
         stamp' = [stamp EXCEPT ![read_index] = Gone + 1]
  PROVE  SlotsInStep'
<1> DEFINE n == Gone
<1>1. /\ n \in Nat /\ Razed = n /\ Razed' = n + 1 /\ Built \in Nat
      /\ Built' = Built /\ Built <= n + max_size - 1
      /\ read_index = n % max_size /\ read_index \in Slot
  BY Positions
<1>2. /\ buffer' = [buffer EXCEPT ![n % max_size] = Raw]
      /\ stamp' = [stamp EXCEPT ![n % max_size] = n + 1]
  BY <1>1
<1> HIDE DEF n
<1> SUFFICES ASSUME NEW k \in Razed' .. Razed' + max_size - 1
             PROVE  IF k < Built
                    THEN buffer'[k % max_size] # Raw /\ stamp'[k % max_size] = k + 1
                    ELSE /\ buffer'[k % max_size] = Raw
                         /\ stamp'[k % max_size]
                              = IF k < max_size THEN 0 ELSE k - max_size + 1
  BY <1>1 DEF SlotsInStep
<1>3. k \in Int /\ k % max_size \in Slot /\ n % max_size \in Slot
  BY <1>1, Division, SizeAssumption
<1>4. CASE k = n + max_size
  <2>1. k % max_size = n % max_size
    BY <1>1, <1>4, TurnSameSlot
  <2>2. ~(k < Built) /\ ~(k < max_size) /\ k - max_size + 1 = n + 1
    BY <1>1, <1>4, SizeAssumption
  <2> QED
    BY <1>2, <1>3, <2>1, <2>2 DEF TypeOK
<1>5. CASE k # n + max_size
  <2>1. k % max_size # n % max_size
    <3>1. n < k /\ k - n < max_size /\ n \in Int
      BY <1>1, <1>3, <1>5, SizeAssumption
    <3> QED
      BY <1>3, <3>1, SlotsDiffer
  <2>2. /\ buffer'[k % max_size] = buffer[k % max_size]
        /\ stamp'[k % max_size] = stamp[k % max_size]
    BY <1>2, <1>3, <2>1 DEF TypeOK
  <2>3. k \in Razed .. Razed + max_size - 1
    BY <1>1, <1>3, <1>5, SizeAssumption
  <2> QED
    BY <2>2, <2>3 DEF IInv, SlotsInStep
<1> QED
  BY <1>4, <1>5

(* A new queue is empty, and both threads know it.                         *)
LEMMA InitiallyInvariant == Init => TypeOK /\ IInv
<1> SUFFICES ASSUME Init PROVE TypeOK /\ IInv
  OBVIOUS
<1>1. TypeOK
  BY InitiallyTyped
<1>2. Puts = 0 /\ Gone = 0 /\ Built = 0 /\ Razed = 0
  BY DEF Init, Puts, Gone, Built, Razed
<1>3. 0 % max_size = 0
  BY SizeAssumption
<1>4. StoresInOrder
  <2>1. /\ Len(m_write_index) = 1 /\ m_write_index[1] = Release(0, 0)
        /\ Len(m_read_index) = 1 /\ m_read_index[1] = Release(0, 0)
    BY DEF Init
  <2>2. \A k \in 1 .. 1 : k = 1 /\ k - 1 = 0
    OBVIOUS
  <2> QED
    BY <1>3, <2>1, <2>2 DEF StoresInOrder
<1>5. ProducerBehind /\ ConsumerBehind /\ Phases
  BY <1>2, SizeAssumption DEF Init, ProducerBehind, ConsumerBehind, Phases
<1>6. SlotsInStep
  <2> SUFFICES ASSUME NEW k \in 0 .. 0 + max_size - 1
               PROVE  /\ buffer[k % max_size] = Raw
                      /\ stamp[k % max_size] = 0
                      /\ ~(k < 0) /\ k < max_size
    BY <1>2 DEF SlotsInStep
  <2>1. k \in Int /\ k % max_size \in Slot
    BY Division
  <2> QED
    BY <2>1, SizeAssumption DEF Init
<1> QED
  BY <1>1, <1>4, <1>5, <1>6 DEF IInv

(* Every step of the producer keeps the invariant.                         *)
LEMMA ProducerKeeps == TypeOK /\ TypeOK' /\ IInv /\ Producer => IInv'
<1> SUFFICES ASSUME TypeOK, TypeOK', IInv, Producer PROVE IInv'
  OBVIOUS
<1> USE DEF IInv
<1>1. ASSUME NEW m \in VisibleReads,
             EmplaceFull(m) \/ WriteAvailable(m) \/ ProducerReadAvailable(m)
      PROVE  IInv'
  <2>1. /\ UNCHANGED <<m_write_index, m_read_index, slots, ppc, consumer, phase>>
        /\ pseen' = m /\ pknows' \in {m - 1, pknows}
        /\ room' \in {room, max_size - 1 - (Puts - (m - 1))}
    BY <1>1, ProducerLoad
    DEF EmplaceFull, WriteAvailable, ProducerReadAvailable, LoadReadIndex, Relaxed
  <2>2. StoresInOrder' /\ Puts' = Puts /\ Gone' = Gone
    BY <2>1, StoresStay
  <2>3. ProducerBehind'
    <3>1. /\ m \in Nat /\ pseen <= m /\ Puts - (m - 1) \in Slot /\ Puts \in Nat
      BY ProducerLoad, Positions
    <3>2. ppc = "idle"
      BY <1>1 DEF EmplaceFull, WriteAvailable, ProducerReadAvailable, ProducerIdle
    <3> QED
      BY <2>1, <2>2, <3>1, <3>2, SizeAssumption DEF ProducerBehind, TypeOK, Slot
  <2>4. ConsumerBehind' /\ Phases'
    BY <1>1, <2>1, <2>2, ConsumerStays
    DEF Phases, consumer, EmplaceFull, WriteAvailable, ProducerReadAvailable, ProducerIdle
  <2>5. SlotsInStep'
    BY <2>1, <2>2, SlotsStay DEF Built, Razed, consumer
  <2> QED
    BY <2>2, <2>3, <2>4, <2>5
<1>2. ASSUME NEW m \in VisibleReads, NEW v \in Value, EmplaceBegin(v, m)
      PROVE  IInv'
  <2>1. /\ UNCHANGED <<m_write_index, m_read_index, slots, room, consumer, phase>>
        /\ pseen' = m /\ pknows' = m - 1 /\ ppc = "idle" /\ ppc' = "construct"
        /\ Puts - (m - 1) # max_size - 1 /\ phase = "run"
    BY <1>2, ProducerLoad DEF EmplaceBegin, LoadReadIndex, ProducerIdle
  <2>2. StoresInOrder' /\ Puts' = Puts /\ Gone' = Gone
    BY <2>1, StoresStay
  <2>3. ProducerBehind'
    <3>1. /\ m \in Nat /\ pseen <= m /\ Puts - (m - 1) \in Slot /\ Puts \in Nat
      BY ProducerLoad, Positions
    <3> QED
      BY <2>1, <2>2, <3>1, SizeAssumption DEF ProducerBehind, TypeOK, Slot
  <2>4. ConsumerBehind' /\ Phases'
    BY <2>1, ConsumerStays DEF Phases
  <2>5. SlotsInStep'
    BY <2>1, <2>2, SlotsStay DEF Built, Razed, consumer
  <2> QED
    BY <2>2, <2>3, <2>4, <2>5
<1>3. CASE EmplaceConstruct
  <2>1. /\ UNCHANGED <<m_write_index, m_read_index, pseen, pknows, room, consumer, phase>>
        /\ ppc = "construct" /\ ppc' = "publish"
    BY <1>3 DEF EmplaceConstruct
  <2>2. StoresInOrder' /\ Puts' = Puts /\ Gone' = Gone
    BY <2>1, StoresStay
  <2>3. ProducerBehind' /\ ConsumerBehind' /\ Phases'
    BY <2>1, <2>2, ConsumerStays DEF ProducerBehind, Phases
  <2> QED
    BY <1>3, <2>2, <2>3, SlotBuilt
<1>4. CASE EmplaceThrow
  <2>1. /\ UNCHANGED <<m_write_index, m_read_index, slots, pseen, pknows, room,
                       consumer, phase>>
        /\ ppc = "construct" /\ ppc' = "idle"
    BY <1>4 DEF EmplaceThrow
  <2>2. StoresInOrder' /\ Puts' = Puts /\ Gone' = Gone
    BY <2>1, StoresStay
  <2>3. ProducerBehind' /\ ConsumerBehind' /\ Phases'
    BY <2>1, <2>2, ConsumerStays DEF ProducerBehind, Phases
  <2>4. SlotsInStep'
    BY <2>1, <2>2, SlotsStay DEF Built, Razed, consumer
  <2> QED
    BY <2>2, <2>3, <2>4
<1>5. CASE EmplacePublish
  <2>1. /\ UNCHANGED <<m_read_index, slots, pseen, pknows, consumer, phase>>
        /\ ppc = "publish" /\ ppc' = "idle"
        /\ m_write_index' = Append(m_write_index, Release((Puts + 1) % max_size, Puts + 1))
        /\ room' = IF room > 0 THEN room - 1 ELSE 0
    BY <1>5, Positions DEF EmplacePublish
  <2>2. /\ Puts \in Nat /\ Len(m_write_index) = Puts + 1 /\ Gone \in Nat
        /\ Len(m_read_index) = Gone + 1
    BY Positions
  <2>3. Release((Puts + 1) % max_size, Puts + 1) \in Store
    BY <2>2, Division DEF Release, Store
  <2>4. /\ Len(m_write_index') = Len(m_write_index) + 1
        /\ \A k \in 1 .. Len(m_write_index) : m_write_index'[k] = m_write_index[k]
        /\ m_write_index'[Len(m_write_index) + 1]
             = Release((Puts + 1) % max_size, Puts + 1)
    BY <2>1, <2>3, StoreAppended DEF TypeOK
  <2>5. Puts' = Puts + 1 /\ Gone' = Gone
    BY <2>1, <2>2, <2>4 DEF Puts, Gone
  <2>6. StoresInOrder'
    BY <2>1, <2>2, <2>4 DEF StoresInOrder
  <2>7. ProducerBehind'
    BY <2>1, <2>2, <2>5, SizeAssumption DEF ProducerBehind, TypeOK
  <2>8. ConsumerBehind' /\ Phases'
    BY <2>1, <2>2, <2>5 DEF ConsumerBehind, Phases, consumer
  <2>9. SlotsInStep'
    BY <2>1, <2>5, SlotsStay DEF Built, Razed, consumer
  <2> QED
    BY <2>6, <2>7, <2>8, <2>9
<1> QED
  BY <1>1, <1>2, <1>3, <1>4, <1>5 DEF Producer, ProducerStep

(* The read index is published: one element more is gone.                  *)
LEMMA ReadIndexStored ==
  ASSUME TypeOK, IInv, UNCHANGED m_write_index,
         m_read_index' = Append(m_read_index, Release(next_index(read_index), Gone + 1))
  PROVE  /\ StoresInOrder' /\ Puts' = Puts /\ Gone' = Gone + 1
         /\ Len(m_read_index') = Len(m_read_index) + 1
<1>1. /\ Puts \in Nat /\ Gone \in Nat /\ Len(m_read_index) = Gone + 1
      /\ m_read_index' = Append(m_read_index, Release((Gone + 1) % max_size, Gone + 1))
  BY Positions
<1>2. Release((Gone + 1) % max_size, Gone + 1) \in Store
  BY <1>1, Division DEF Release, Store
<1>3. /\ Len(m_read_index') = Len(m_read_index) + 1
      /\ \A k \in 1 .. Len(m_read_index) : m_read_index'[k] = m_read_index[k]
      /\ m_read_index'[Len(m_read_index) + 1] = Release((Gone + 1) % max_size, Gone + 1)
  BY <1>1, <1>2, StoreAppended DEF TypeOK
<1>4. Puts' = Puts /\ Gone' = Gone + 1
  BY <1>1, <1>3 DEF Puts, Gone
<1>5. StoresInOrder'
  BY <1>1, <1>3 DEF StoresInOrder, IInv
<1> QED
  BY <1>3, <1>4, <1>5

(* Every step of the consumer keeps the invariant.                         *)
LEMMA ConsumerKeeps == TypeOK /\ TypeOK' /\ IInv /\ Consumer => IInv'
<1> SUFFICES ASSUME TypeOK, TypeOK', IInv, Consumer PROVE IInv'
  OBVIOUS
<1> USE DEF IInv
<1>0. Puts \in Nat /\ Gone \in Nat
  BY Positions
<1>1. ASSUME NEW m \in VisibleWrites, ReadAvailable(m) \/ ConsumerWriteAvailable(m)
      PROVE  IInv'
  <2>1. /\ UNCHANGED <<m_write_index, m_read_index, slots, cpc, producer, phase>>
        /\ cseen' = m /\ phase = "run" /\ cpc = "idle"
        /\ \/ cknows' = m - 1 /\ avail' = (m - 1) - Gone
           \/ cknows' = cknows /\ avail' = avail
    BY <1>1, ConsumerLoad
    DEF ReadAvailable, ConsumerWriteAvailable, LoadWriteIndex, Relaxed, ConsumerIdle
  <2>2. StoresInOrder' /\ Puts' = Puts /\ Gone' = Gone
    BY <2>1, StoresStay
  <2>3. ConsumerBehind'
    <3>1. m \in Nat /\ cseen <= m /\ Gone <= m - 1
      BY ConsumerLoad
    <3>2. cseen \in Nat /\ cknows \in Nat /\ avail \in Nat
      BY DEF TypeOK
    <3> QED
      BY <1>0, <2>1, <2>2, <3>1, <3>2 DEF ConsumerBehind
  <2>4. ProducerBehind' /\ Phases'
    BY <2>1, ProducerStays DEF Phases
  <2>5. SlotsInStep'
    BY <2>1, <2>2, SlotsStay DEF Built, Razed, producer
  <2> QED
    BY <2>2, <2>3, <2>4, <2>5
<1>2. ASSUME NEW m \in VisibleWrites, Pop(m) \/ Consume(m) PROVE IInv'
  <2>1. /\ UNCHANGED <<m_write_index, m_read_index, slots, avail, producer, phase>>
        /\ phase = "run" /\ cpc = "idle" /\ cpc' \in {"destroy", "invoke"} /\ avail > 0
        /\ \/ cseen' = m /\ cknows' = m - 1
           \/ cseen' = cseen /\ cknows' = cknows
    BY <1>2, ConsumerLoad DEF Pop, Consume, BeginPop, LoadWriteIndex, ConsumerIdle
  <2>2. StoresInOrder' /\ Puts' = Puts /\ Gone' = Gone
    BY <2>1, StoresStay
  <2>3. ConsumerBehind'
    <3>1. m \in Nat /\ cseen <= m /\ Gone <= m - 1
      BY ConsumerLoad
    <3>2. cseen \in Nat /\ cknows \in Nat /\ avail \in Nat
      BY DEF TypeOK
    <3> QED
      BY <1>0, <2>1, <2>2, <3>1, <3>2 DEF ConsumerBehind
  <2>4. ProducerBehind' /\ Phases'
    BY <2>1, ProducerStays DEF Phases
  <2>5. SlotsInStep'
    BY <2>1, <2>2, SlotsStay DEF Built, Razed, producer
  <2> QED
    BY <2>2, <2>3, <2>4, <2>5
<1>3. ASSUME NEW m \in VisibleWrites, ClearLoop(m) PROVE IInv'
  <2>1. /\ UNCHANGED <<m_write_index, m_read_index, slots, avail, producer, phase>>
        /\ cpc = "clear" /\ cseen' = m /\ cknows' = m - 1
        /\ cpc' = IF m - 1 = Gone THEN "idle" ELSE "destroy"
    BY <1>3, ConsumerLoad DEF ClearLoop, LoadWriteIndex
  <2>2. StoresInOrder' /\ Puts' = Puts /\ Gone' = Gone
    BY <2>1, StoresStay
  <2>3. ConsumerBehind'
    <3>1. m \in Nat /\ cseen <= m /\ Gone <= m - 1
      BY ConsumerLoad
    <3>2. cseen \in Nat /\ cknows \in Nat /\ avail \in Nat
      BY DEF TypeOK
    <3> QED
      BY <1>0, <2>1, <2>2, <3>1, <3>2 DEF ConsumerBehind
  <2>4. ProducerBehind' /\ Phases'
    BY <2>1, ProducerStays DEF Phases
  <2>5. SlotsInStep'
    BY <2>1, <2>2, SlotsStay DEF Built, Razed, producer
  <2> QED
    BY <2>2, <2>3, <2>4, <2>5
<1>4. CASE Clear \/ InvokeReturns
  <2>1. /\ UNCHANGED <<m_write_index, m_read_index, slots, cseen, cknows, producer, phase>>
        /\ avail' \in {0, avail}
        /\ \/ cpc = "idle" /\ phase = "run" /\ cpc' = "clear"
           \/ cpc = "invoke" /\ cpc' = "destroy"
    BY <1>4 DEF Clear, InvokeReturns, ConsumerIdle
  <2>2. StoresInOrder' /\ Puts' = Puts /\ Gone' = Gone
    BY <2>1, StoresStay
  <2>3. ConsumerBehind'
    BY <1>0, <2>1, <2>2 DEF ConsumerBehind, TypeOK
  <2>4. ProducerBehind' /\ Phases'
    BY <2>1, ProducerStays DEF Phases
  <2>5. SlotsInStep'
    BY <2>1, <2>2, SlotsStay DEF Built, Razed, producer
  <2> QED
    BY <2>2, <2>3, <2>4, <2>5
<1>5. CASE InvokeThrows
  <2>1. /\ UNCHANGED <<m_write_index, m_read_index, stamp, cseen, cknows, avail,
                       producer, phase>>
        /\ cpc = "invoke" /\ cpc' = "idle"
    BY <1>5 DEF InvokeThrows
  <2>2. StoresInOrder' /\ Puts' = Puts /\ Gone' = Gone
    BY <2>1, StoresStay
  <2>3. ConsumerBehind' /\ ProducerBehind' /\ Phases'
    BY <2>1, <2>2, ProducerStays DEF ConsumerBehind, Phases
  <2>4. SlotsInStep'
    <3>1. /\ Razed = Gone /\ Built \in Nat /\ Gone < Built
          /\ Razed' = Razed /\ Built' = Built /\ read_index = Gone % max_size
          /\ read_index \in Slot
      <4>1. Gone < Puts
        BY <2>1, CallsHaveRoom
      <4> QED
        BY <1>0, <2>1, <2>2, <4>1, Positions DEF Razed, Built, producer
    <3>2. buffer[Gone % max_size] # Raw
      BY <1>0, <3>1, SizeAssumption DEF SlotsInStep
    <3>3. PICK left : left # Raw /\ buffer' = [buffer EXCEPT ![read_index] = left]
      BY <1>5, <3>1, <3>2, ValueAssumption DEF InvokeThrows
    <3>4. \A i \in Slot : buffer'[i] = Raw <=> buffer[i] = Raw
      BY <3>1, <3>2, <3>3 DEF TypeOK
    <3>5. \A k \in Razed .. Razed + max_size - 1 : k % max_size \in Slot
      BY <1>0, <3>1, Division, SizeAssumption
    <3> QED
      BY <2>1, <3>1, <3>4, <3>5 DEF SlotsInStep
  <2> QED
    BY <2>2, <2>3, <2>4
<1>6. CASE Destroy
  <2>1. /\ UNCHANGED <<m_write_index, m_read_index, cseen, cknows, avail, producer, phase>>
        /\ cpc = "destroy" /\ cpc' = "advance"
        /\ buffer' = [buffer EXCEPT ![read_index] = Raw]
        /\ stamp' = [stamp EXCEPT ![read_index] = Gone + 1]
    BY <1>6 DEF Destroy
  <2>2. StoresInOrder' /\ Puts' = Puts /\ Gone' = Gone
    BY <2>1, StoresStay
  <2>3. ConsumerBehind' /\ ProducerBehind' /\ Phases'
    BY <2>1, <2>2, ProducerStays DEF ConsumerBehind, Phases
  <2>4. Razed = Gone /\ Razed' = Gone + 1 /\ Built' = Built
    BY <2>1, <2>2 DEF Razed, Built, producer
  <2> QED
    BY <2>1, <2>2, <2>3, <2>4, SlotRazed
<1>7. CASE Advance
  <2>1. /\ UNCHANGED <<m_write_index, slots, cseen, cknows, producer, phase>>
        /\ m_read_index' = Append(m_read_index, Release(next_index(read_index), Gone + 1))
        /\ cpc = "advance" /\ cpc' \in {"clear", "idle"}
        /\ avail' = IF avail > 0 THEN avail - 1 ELSE 0
    BY <1>7 DEF Advance
  <2>2. /\ StoresInOrder' /\ Puts' = Puts /\ Gone' = Gone + 1
        /\ Len(m_read_index') = Len(m_read_index) + 1
    BY <2>1, ReadIndexStored
  <2>3. ConsumerBehind'
    BY <1>0, <2>1, <2>2 DEF ConsumerBehind, TypeOK
  <2>4. ProducerBehind' /\ Phases'
    BY <2>1, <2>2 DEF ProducerBehind, Phases, producer
  <2>5. SlotsInStep'
    BY <2>1, <2>2, SlotsStay DEF Built, Razed, producer
  <2> QED
    BY <2>2, <2>3, <2>4, <2>5
<1> QED
  BY <1>1, <1>2, <1>3, <1>4, <1>5, <1>6, <1>7 DEF Consumer, ConsumerStep

(* When the destructor sees both indexes equal, nothing is left.           *)
LEMMA EmptyIsEmpty ==
  ASSUME TypeOK, IInv PROVE is_empty(write_index, read_index) <=> Puts = Gone
<1>1. /\ Puts \in Int /\ Gone \in Int /\ Gone <= Puts /\ Puts - Gone < max_size
      /\ write_index = Puts % max_size /\ read_index = Gone % max_size
  BY Positions, SizeAssumption DEF Slot
<1>2. Gone < Puts => Puts % max_size # Gone % max_size
  BY <1>1, SlotsDiffer
<1> QED
  BY <1>1, <1>2 DEF is_empty

(* Every step of the destructor keeps the invariant.                       *)
LEMMA DestructorKeeps ==
  TypeOK /\ TypeOK' /\ IInv /\ (BeginDestroy \/ DrainOne \/ Deallocate) => IInv'
<1> SUFFICES ASSUME TypeOK, TypeOK', IInv, BeginDestroy \/ DrainOne \/ Deallocate
             PROVE  IInv'
  OBVIOUS
<1> USE DEF IInv
<1>0. /\ Puts \in Nat /\ Gone \in Nat /\ Gone <= Puts /\ Len(m_write_index) = Puts + 1
  BY Positions
<1>1. CASE BeginDestroy
  <2>1. /\ UNCHANGED <<m_write_index, m_read_index, slots, cpc, producer>>
        /\ ppc = "idle" /\ cpc = "idle" /\ phase' = "drain"
        /\ cseen' = Len(m_write_index) /\ cknows' = Puts /\ avail' = 0
    BY <1>1 DEF BeginDestroy, ProducerIdle, ConsumerIdle
  <2>2. StoresInOrder' /\ Puts' = Puts /\ Gone' = Gone
    BY <2>1, StoresStay
  <2>3. ConsumerBehind' /\ Phases'
    BY <1>0, <2>1, <2>2 DEF ConsumerBehind, Phases, producer
  <2>4. SlotsInStep'
    BY <2>1, <2>2, SlotsStay DEF Built, Razed, producer
  <2> QED
    BY <2>1, <2>2, <2>3, <2>4, ProducerStays
<1>2. CASE DrainOne
  <2>1. /\ UNCHANGED <<m_write_index, producer, consumer, phase>>
        /\ phase = "drain" /\ Puts # Gone
        /\ m_read_index' = Append(m_read_index, Release(next_index(read_index), Gone + 1))
        /\ buffer' = [buffer EXCEPT ![read_index] = Raw]
        /\ stamp' = [stamp EXCEPT ![read_index] = Gone + 1]
    BY <1>2, EmptyIsEmpty DEF DrainOne
  <2>2. ppc = "idle" /\ cpc = "idle" /\ cknows = Puts /\ avail = 0
    BY <2>1 DEF Phases
  <2>3. /\ StoresInOrder' /\ Puts' = Puts /\ Gone' = Gone + 1
        /\ Len(m_read_index') = Len(m_read_index) + 1
    BY <2>1, ReadIndexStored
  <2>4. Razed = Gone /\ Razed' = Gone + 1 /\ Built' = Built
    BY <2>1, <2>2, <2>3 DEF Razed, Built, producer, consumer
  <2>5. SlotsInStep'
    BY <2>1, <2>4, SlotRazed
  <2>6. ConsumerBehind' /\ Phases'
    BY <1>0, <2>1, <2>2, <2>3 DEF ConsumerBehind, Phases, producer, consumer, TypeOK
  <2>7. ProducerBehind'
    BY <2>1, <2>3 DEF ProducerBehind, producer
  <2> QED
    BY <2>3, <2>5, <2>6, <2>7
<1>3. CASE Deallocate
  <2>1. /\ UNCHANGED <<m_write_index, m_read_index, slots, producer, consumer>>
        /\ phase = "drain" /\ phase' = "dead" /\ Puts = Gone
    BY <1>3, EmptyIsEmpty DEF Deallocate
  <2>2. StoresInOrder' /\ Puts' = Puts /\ Gone' = Gone
    BY <2>1, StoresStay
  <2>3. Phases'
    BY <2>1, <2>2 DEF Phases, producer, consumer
  <2>4. SlotsInStep'
    BY <2>1, <2>2, SlotsStay DEF Built, Razed, producer, consumer
  <2> QED
    BY <2>1, <2>2, <2>3, <2>4, ProducerStays, ConsumerStays
<1> QED
  BY <1>1, <1>2, <1>3

(* The invariant holds in every reachable state.                           *)
THEOREM InvariantCorrect == Spec => []IInv
<1>1. TypeOK /\ TypeOK' /\ IInv /\ [Next]_vars => IInv'
  <2> SUFFICES ASSUME TypeOK, TypeOK', IInv, [Next]_vars PROVE IInv'
    OBVIOUS
  <2>1. CASE UNCHANGED vars
    <3>1. UNCHANGED <<m_write_index, m_read_index, slots, producer, consumer, phase>>
      BY <2>1 DEF vars
    <3>2. StoresInOrder' /\ Puts' = Puts /\ Gone' = Gone
      BY <3>1, StoresStay DEF IInv
    <3>3. Phases'
      BY <3>1, <3>2 DEF IInv, Phases, producer, consumer
    <3>4. SlotsInStep'
      BY <3>1, <3>2, SlotsStay DEF IInv, Built, Razed, producer, consumer
    <3> QED
      BY <3>1, <3>2, <3>3, <3>4, ProducerStays, ConsumerStays DEF IInv
  <2> QED
    BY <2>1, ProducerKeeps, ConsumerKeeps, DestructorKeeps DEF Next, Terminated
<1> QED
  BY <1>1, InitiallyInvariant, TypeCorrect, PTL DEF Spec

-----------------------------------------------------------------------------
(* What the invariant is for.                                              *)

(* What a thread knows covers the last access to the slot it is at.        *)
LEMMA InvariantRaceFree == TypeOK /\ IInv => RaceFree
<1> SUFFICES ASSUME TypeOK, IInv PROVE RaceFree
  OBVIOUS
<1>0. /\ Puts \in Nat /\ Gone \in Nat /\ Razed \in Nat /\ Gone <= Puts /\ Razed <= Puts
      /\ write_index = Puts % max_size /\ read_index = Gone % max_size
      /\ Built \in Nat /\ Puts <= Built /\ Built <= Razed + max_size - 1
      /\ pknows \in Nat /\ cknows \in Nat
  BY Positions DEF TypeOK
<1>1. ASSUME ppc = "construct" PROVE stamp[write_index] <= pknows
  <2>1. Built = Puts /\ Puts \in Razed .. Razed + max_size - 1
    BY <1>0, <1>1, SizeAssumption DEF Built
  <2>2. stamp[write_index] = IF Puts < max_size THEN 0 ELSE Puts - max_size + 1
    BY <1>0, <2>1 DEF IInv, SlotsInStep
  <2>3. Puts + 1 - pknows <= max_size - 1
    BY <1>1 DEF IInv, ProducerBehind
  <2> QED
    BY <1>0, <2>2, <2>3, SizeAssumption
<1>2. ASSUME cpc \in {"invoke", "destroy"} PROVE stamp[read_index] <= cknows
  <2>1. Gone + 1 <= cknows /\ cknows <= Puts
    BY <1>2 DEF IInv, ConsumerBehind, TypeOK, Puts
  <2>2. Razed = Gone /\ Gone \in Razed .. Razed + max_size - 1 /\ Gone < Built
    BY <1>0, <1>2, <2>1, SizeAssumption DEF Razed
  <2>3. stamp[read_index] = Gone + 1
    BY <1>0, <2>2 DEF IInv, SlotsInStep
  <2> QED
    BY <2>1, <2>3
<1> QED
  BY <1>1, <1>2 DEF RaceFree

(* No slot access of one thread races with one of the other.               *)
THEOREM RaceFreeCorrect == Spec => []RaceFree
  BY InvariantRaceFree, TypeCorrect, InvariantCorrect, PTL

(* The slot to construct in is raw, the one to destroy is not.             *)
LEMMA InvariantLifetimes == TypeOK /\ IInv => Lifetimes
<1> SUFFICES ASSUME TypeOK, IInv PROVE Lifetimes
  OBVIOUS
<1>0. /\ Puts \in Nat /\ Gone \in Nat /\ Razed \in Nat /\ Razed <= Puts
      /\ write_index = Puts % max_size /\ read_index = Gone % max_size
      /\ Built \in Nat /\ Puts <= Built /\ Built <= Razed + max_size - 1
  BY Positions
<1>1. ASSUME ppc = "construct" PROVE buffer[write_index] = Raw
  <2>1. Built = Puts /\ Puts \in Razed .. Razed + max_size - 1
    BY <1>0, <1>1, SizeAssumption DEF Built
  <2> QED
    BY <1>0, <2>1 DEF IInv, SlotsInStep
<1>2. ASSUME cpc \in {"invoke", "destroy"} PROVE buffer[read_index] # Raw
  <2>1. Gone < Puts
    BY <1>2, CallsHaveRoom
  <2>2. Razed = Gone /\ Gone \in Razed .. Razed + max_size - 1 /\ Gone < Built
    BY <1>0, <1>2, <2>1, SizeAssumption DEF Razed
  <2> QED
    BY <1>0, <2>2 DEF IInv, SlotsInStep
<1>3. ASSUME phase = "dead", NEW i \in Slot PROVE buffer[i] = Raw
  <2>1. Built = Razed
    BY <1>3 DEF IInv, Phases, Built, Razed
  <2>2. PICK k \in Razed .. Razed + max_size - 1 : k % max_size = i
    BY <1>0, WindowCovers
  <2>3. ~(k < Built)
    BY <1>0, <2>1, SizeAssumption
  <2> QED
    BY <2>2, <2>3 DEF IInv, SlotsInStep
<1> QED
  BY <1>1, <1>2, <1>3 DEF Lifetimes

(* Objects are constructed in raw slots, used while they live, and none is *)
(* left when the queue is destroyed.                                       *)
THEOREM LifetimesCorrect == Spec => []Lifetimes
  BY InvariantLifetimes, TypeCorrect, InvariantCorrect, PTL

(* No load that is still visible takes a promise back.                     *)
LEMMA InvariantPromises == TypeOK /\ IInv => PromisesKept
<1> SUFFICES ASSUME TypeOK, IInv PROVE PromisesKept
  OBVIOUS
<1>0. /\ Puts \in Nat /\ Gone \in Nat /\ room \in Nat /\ avail \in Nat /\ cknows \in Nat
      /\ cseen \in Nat /\ pseen \in Nat
  BY Positions DEF TypeOK
<1>1. ASSUME avail > 0, NEW m \in VisibleWrites
      PROVE  ~is_empty(m_write_index[m].val, read_index)
  <2>1. avail <= cknows - Gone /\ cknows <= cseen - 1
    BY DEF IInv, ConsumerBehind
  <2>2. m \in Nat /\ cseen <= m
    BY ConsumerLoad
  <2>3. m - 1 # Gone
    BY <1>0, <1>1, <2>1, <2>2
  <2> QED
    BY <2>3, ConsumerLoad
<1>2. ASSUME room > 0, NEW m \in VisibleReads PROVE ~IsFull(m)
  <2>1. room <= max_size - 1 - (Puts - (pseen - 1))
    BY DEF IInv, ProducerBehind
  <2>2. m \in Nat /\ pseen <= m
    BY ProducerLoad
  <2>3. Puts - (m - 1) # max_size - 1
    BY <1>0, <1>2, <2>1, <2>2, SizeAssumption
  <2> QED
    BY <2>3, ProducerLoad
<1> QED
  BY <1>1, <1>2 DEF PromisesKept

(* A caller that spends what an availability promised sees neither the     *)
(* assertion nor emplace fail, whatever the loads in between return.       *)
THEOREM PromisesCorrect == Spec => []PromisesKept
  BY InvariantPromises, TypeCorrect, InvariantCorrect, PTL

(* Every load that is still visible bounds what the queue holds.           *)
LEMMA InvariantEstimates == TypeOK /\ IInv => EstimatesErrOneWay
<1> SUFFICES ASSUME TypeOK, IInv PROVE EstimatesErrOneWay
  OBVIOUS
<1>0. Puts \in Nat /\ Gone \in Nat
  BY Positions
<1>1. ASSUME NEW m \in VisibleReads
      PROVE  read_available(write_index, m_read_index[m].val)
               \in (Puts - Gone) .. (max_size - 1)
  <2>1. /\ m \in Nat /\ m - 1 <= Gone /\ Puts - (m - 1) \in Slot
        /\ read_available(write_index, m_read_index[m].val) = Puts - (m - 1)
    BY ProducerLoad
  <2> QED
    BY <1>0, <2>1, SizeAssumption DEF Slot
<1>2. ASSUME NEW m \in VisibleWrites
      PROVE  write_available(m_write_index[m].val, read_index)
               \in (max_size - 1 - (Puts - Gone)) .. (max_size - 1)
  <2>1. /\ m \in Nat /\ Gone <= m - 1 /\ m - 1 <= Puts
        /\ write_available(m_write_index[m].val, read_index)
             = max_size - 1 - ((m - 1) - Gone)
    BY ConsumerLoad
  <2> QED
    BY <1>0, <2>1, SizeAssumption
<1> QED
  BY <1>1, <1>2 DEF EstimatesErrOneWay

(* What a thread asks of the other's side errs to one side only.           *)
THEOREM EstimatesCorrect == Spec => []EstimatesErrOneWay
  BY InvariantEstimates, TypeCorrect, InvariantCorrect, PTL

(* Both availabilities are exact about the positions of the indexes.       *)
LEMMA InvariantCounts == TypeOK /\ IInv => CountsExact
<1> SUFFICES ASSUME TypeOK, IInv PROVE CountsExact
  OBVIOUS
<1>1. /\ Puts \in Int /\ Gone \in Int /\ Puts - Gone \in Slot
      /\ write_index = Puts % max_size /\ read_index = Gone % max_size
  BY Positions
<1> QED
  BY <1>1, AvailabilitiesExact DEF CountsExact, Slot

(* The availabilities are exact, for every ring and width of size_t.       *)
THEOREM CountsCorrect == Spec => []CountsExact
  BY InvariantCounts, TypeCorrect, InvariantCorrect, PTL

-----------------------------------------------------------------------------
(* The queue implements the bounded FIFO.  An element under construction   *)
(* is in its slot before it is published.                                  *)
Pending == ppc = "publish" => buffer[write_index] = parg

(* The slot that is about to be published holds the element of the call.   *)
LEMMA PendingCorrect == Spec => []Pending
<1>1. Init => Pending
  BY DEF Init, Pending
<1>2. TypeOK /\ IInv /\ Pending /\ [Next]_vars => Pending'
  <2> SUFFICES ASSUME TypeOK, IInv, Pending, [Next]_vars PROVE Pending'
    OBVIOUS
  <2>0. write_index \in Slot /\ read_index \in Slot
    BY Positions
  <2>1. CASE EmplaceConstruct
    BY <2>0, <2>1 DEF EmplaceConstruct, Pending, TypeOK, write_index
  <2>2. CASE InvokeThrows \/ Destroy \/ DrainOne
    <3>1. /\ UNCHANGED <<m_write_index, ppc, parg>>
          /\ \E left : buffer' = [buffer EXCEPT ![read_index] = left]
      BY <2>2 DEF InvokeThrows, Destroy, DrainOne, producer
    <3>2. ppc = "publish" => read_index # write_index
      <4> SUFFICES ASSUME ppc = "publish" PROVE read_index # write_index
        OBVIOUS
      <4>1. Gone < Puts
        <5>1. CASE DrainOne
          BY <5>1 DEF DrainOne, IInv, Phases
        <5>2. CASE InvokeThrows \/ Destroy
          BY <5>2, CallsHaveRoom DEF InvokeThrows, Destroy
        <5> QED
          BY <2>2, <5>1, <5>2
      <4>2. /\ Gone \in Int /\ Puts \in Int /\ Puts - Gone < max_size
            /\ write_index = Puts % max_size /\ read_index = Gone % max_size
        BY Positions, SizeAssumption DEF Slot
      <4> QED
        BY <4>1, <4>2, SlotsDiffer
    <3> QED
      BY <2>0, <3>1, <3>2 DEF Pending, TypeOK, write_index
  <2>3. CASE EmplacePublish \/ EmplaceThrow \/ \E v \in Value, m \in VisibleReads : EmplaceBegin(v, m)
    BY <2>3 DEF EmplacePublish, EmplaceThrow, EmplaceBegin, Pending
  <2>4. CASE UNCHANGED <<m_write_index, buffer, ppc, parg>>
    BY <2>4 DEF Pending, write_index
  <2> QED
    BY <2>1, <2>2, <2>3, <2>4
    DEF Next, Producer, ProducerStep, Consumer, ConsumerStep, Terminated, vars, slots,
        producer, consumer, EmplaceFull, WriteAvailable, ProducerReadAvailable,
        ReadAvailable, ConsumerWriteAvailable, Pop, Consume, BeginPop, ClearLoop, Clear,
        InvokeReturns, Advance, BeginDestroy, Deallocate
<1> QED
  BY <1>1, <1>2, TypeCorrect, InvariantCorrect, PTL DEF Spec

(* The elements that wait are those from Razed to Puts.                    *)
Element == Value \cup {Hollow}

ContentsShape ==
  /\ Puts - Razed \in Nat
  /\ Contents = [i \in 1 .. Puts - Razed |-> buffer[(Razed + i - 1) % max_size]]
  /\ Contents \in Seq(Element)
  /\ Len(Contents) = Puts - Razed
  /\ \A i \in 1 .. Puts - Razed :
       /\ Contents[i] = buffer[(Razed + i - 1) % max_size]
       /\ (Razed + i - 1) % max_size \in Slot

(* The elements waiting are those of the positions from Razed to Puts.     *)
LEMMA ContentsAt == TypeOK /\ IInv => ContentsShape
<1> SUFFICES ASSUME TypeOK, IInv PROVE ContentsShape
  OBVIOUS
<1>1. /\ Puts \in Nat /\ Gone \in Nat /\ Razed \in Nat /\ Gone <= Razed /\ Razed <= Puts
      /\ write_index = Puts % max_size /\ read_index = Gone % max_size
      /\ Puts - Gone < max_size /\ Built <= Razed + max_size - 1 /\ Puts <= Built
      /\ Built \in Nat
  BY Positions, SizeAssumption DEF Slot
<1>2. First = Razed % max_size
  BY <1>1, NextPosition DEF First, Razed
<1>3. read_available(write_index, First) = Puts - Razed
  <2>1. Puts - Razed \in Slot /\ Puts \in Int /\ Razed \in Int
    BY <1>1, SizeAssumption DEF Slot
  <2> QED
    BY <1>1, <1>2, <2>1, AvailabilitiesExact
<1>4. ASSUME NEW i \in 1 .. Puts - Razed
      PROVE  /\ (First + i - 1) % max_size = (Razed + i - 1) % max_size
             /\ (Razed + i - 1) % max_size \in Slot
             /\ buffer[(Razed + i - 1) % max_size] \in Element
  <2> DEFINE d == i - 1
             r == Razed % max_size
  <2>1. d \in Slot /\ r \in Slot /\ Razed + d \in Int /\ Razed + i - 1 = Razed + d
        /\ r + i - 1 = r + d
    BY <1>1, Division, SizeAssumption DEF Slot
  <2>2. (r + d) % max_size = (Razed + d) % max_size
    <3>1. \/ (Razed + d) % max_size = r + d /\ r + d < max_size
          \/ (Razed + d) % max_size = r + d - max_size /\ r + d >= max_size
      BY <1>1, <2>1, GapRemainders
    <3>2. \/ (r + d) % max_size = r + d /\ r + d < max_size
          \/ (r + d) % max_size = r + d - max_size /\ r + d >= max_size
      <4>1. r \in Int /\ r % max_size = r
        BY <2>1, SlotRemainder, SizeAssumption DEF Slot
      <4> QED
        BY <2>1, <4>1, GapRemainders
    <3>3. r + d \in Int
      BY <2>1, SizeAssumption DEF Slot
    <3> HIDE DEF d, r
    <3> QED
      BY <3>1, <3>2, <3>3, SizeAssumption
  <2>3. (Razed + i - 1) % max_size \in Slot
    BY <2>1, Division
  <2>4. Razed + d \in Razed .. Razed + max_size - 1 /\ Razed + d < Built
    BY <1>1, <2>1, SizeAssumption DEF Slot
  <2>5. buffer[(Razed + d) % max_size] # Raw
    BY <2>4 DEF IInv, SlotsInStep
  <2> QED
    BY <1>2, <2>1, <2>2, <2>3, <2>5 DEF TypeOK, Content, Element
<1>5. Puts - Razed \in Nat
  BY <1>1
<1>6. Contents = [i \in 1 .. Puts - Razed |-> buffer[(Razed + i - 1) % max_size]]
  BY <1>3, <1>4 DEF Contents
<1>7. Contents \in Seq(Element) /\ Len(Contents) = Puts - Razed
  BY <1>4, <1>5, <1>6
<1> QED
  BY <1>4, <1>5, <1>6, <1>7 DEF ContentsShape

(* The same of the state after a step.                                     *)
LEMMA ContentsAtNext == TypeOK' /\ IInv' => ContentsShape'
  BY ContentsAt, PTL

(* Every step is a step of the FIFO or leaves it as it is.                 *)
LEMMA StepImplements ==
  TypeOK /\ IInv /\ Pending /\ TypeOK' /\ IInv' /\ [Next]_vars
    => [Fifo!Next]_<<Contents, removed>>
<1> SUFFICES ASSUME TypeOK, IInv, Pending, TypeOK', IInv', [Next]_vars
             PROVE  [Fifo!Next]_<<Contents, removed>>
  OBVIOUS
<1> DEFINE n == Puts - Razed
<1>0. ContentsShape /\ ContentsShape'
  BY ContentsAt, ContentsAtNext
<1>1. /\ Puts \in Nat /\ Gone \in Nat /\ Razed \in Nat /\ Gone <= Razed /\ Razed <= Puts
      /\ write_index = Puts % max_size /\ write_index \in Slot
      /\ read_index = Gone % max_size /\ read_index \in Slot
      /\ Built \in Nat /\ Built <= Razed + max_size - 1 /\ Puts <= Built
  BY Positions
<1>2. ASSUME UNCHANGED <<buffer, removed>>, Puts' = Puts, Razed' = Razed
      PROVE  UNCHANGED <<Contents, removed>>
  BY <1>0, <1>2 DEF ContentsShape
<1>3. CASE EmplacePublish
  <2>1. /\ UNCHANGED <<m_read_index, buffer, cpc, removed>>
        /\ ppc = "publish" /\ Puts' = Puts + 1 /\ parg \in Value
        /\ buffer[Puts % max_size] = parg
    <3>1. Puts' = Puts + 1
      BY <1>1, <1>3, Positions, Division, StoreAppended
      DEF EmplacePublish, Puts, TypeOK, Release, Store
    <3> QED
      BY <1>1, <1>3, <3>1 DEF EmplacePublish, Pending, TypeOK, slots, consumer
  <2>2. Razed' = Razed
    BY <2>1 DEF Razed, Gone
  <2>3. Len(Contents) < max_size - 1
    <3>1. Puts + 1 - Gone <= max_size - 1
      BY <2>1, CallsHaveRoom
    <3> QED
      BY <1>0, <1>1, <3>1, SizeAssumption DEF ContentsShape
  <2>4. Contents' = Append(Contents, parg)
    <3>1. /\ Append(Contents, parg) \in Seq(Element)
          /\ Len(Append(Contents, parg)) = n + 1
          /\ \A i \in 1 .. n : Append(Contents, parg)[i] = Contents[i]
          /\ Append(Contents, parg)[n + 1] = parg
      BY <1>0, <2>1, AppendProperties DEF ContentsShape, Element
    <3>2. Contents' \in Seq(Element) /\ Len(Contents') = n + 1
      BY <1>0, <1>1, <2>1, <2>2 DEF ContentsShape
    <3>3. ASSUME NEW i \in 1 .. n + 1 PROVE Contents'[i] = Append(Contents, parg)[i]
      <4>1. Contents'[i] = buffer[(Razed + i - 1) % max_size]
        BY <1>0, <1>1, <2>1, <2>2 DEF ContentsShape
      <4>2. CASE i = n + 1
        <5>1. Razed + i - 1 = Puts
          BY <1>1, <4>2
        <5> QED
          BY <2>1, <3>1, <4>1, <4>2, <5>1
      <4>3. CASE i # n + 1
        <5>1. i \in 1 .. n
          BY <1>1, <4>3
        <5> QED
          BY <1>0, <3>1, <4>1, <5>1 DEF ContentsShape
      <4> QED
        BY <4>2, <4>3
    <3> HIDE DEF n
    <3> QED
      BY <3>1, <3>2, <3>3, SeqEqual
  <2> QED
    BY <2>1, <2>3, <2>4 DEF Fifo!Next, Fifo!Push
<1>4. ASSUME Razed = Gone, Gone < Puts, Razed' = Gone + 1, Puts' = Puts,
             buffer' = [buffer EXCEPT ![read_index] = Raw],
             removed' = Append(removed, buffer[read_index])
      PROVE  Fifo!Take
  <2>1. /\ n \in Nat /\ n > 0 /\ Contents # << >>
        /\ Contents[1] = buffer[Gone % max_size]
    <3>1. n \in Nat /\ n > 0 /\ 1 \in 1 .. n /\ Razed + 1 - 1 = Gone
      BY <1>1, <1>4
    <3>2. Len(Contents) > 0
      BY <1>0, <3>1 DEF ContentsShape
    <3>3. Contents # << >>
      BY <3>2
    <3> QED
      BY <1>0, <3>1, <3>3 DEF ContentsShape
  <2>2. /\ Tail(Contents) \in Seq(Element)
        /\ Len(Tail(Contents)) = n - 1
        /\ \A i \in 1 .. n - 1 : Tail(Contents)[i] = Contents[i + 1]
    BY <1>0, <2>1, HeadTailProperties DEF ContentsShape
  <2>3. Contents' \in Seq(Element) /\ Len(Contents') = n - 1
    BY <1>0, <1>1, <1>4 DEF ContentsShape
  <2>4. ASSUME NEW i \in 1 .. n - 1 PROVE Contents'[i] = Tail(Contents)[i]
    <3> DEFINE s == (Gone + i) % max_size
    <3>1. Contents'[i] = buffer'[s] /\ s \in Slot
      <4>1. i \in 1 .. (Puts - Razed)' /\ Razed' + i - 1 = Gone + i
        BY <1>1, <1>4
      <4> QED
        BY <1>0, <4>1 DEF ContentsShape
    <3>2. Contents[i + 1] = buffer[s]
      <4>1. i + 1 \in 1 .. Puts - Razed /\ Razed + (i + 1) - 1 = Gone + i
        BY <1>1, <1>4
      <4> QED
        BY <1>0, <4>1 DEF ContentsShape
    <3>3. s # read_index
      <4>1. Gone < Gone + i /\ (Gone + i) - Gone < max_size /\ Gone \in Int /\ Gone + i \in Int
        BY <1>1, <1>4, SizeAssumption
      <4> QED
        BY <1>1, <4>1, SlotsDiffer
    <3> HIDE DEF s
    <3>4. buffer'[s] = buffer[s]
      BY <1>1, <1>4, <3>1, <3>3 DEF TypeOK
    <3> QED
      BY <2>2, <3>1, <3>2, <3>4
  <2>5. Contents' = Tail(Contents)
    <3> HIDE DEF n
    <3> QED
      BY <2>2, <2>3, <2>4, SeqEqual
  <2>6. Head(Contents) = Contents[1]
    BY <2>1
  <2> QED
    BY <1>1, <1>4, <2>1, <2>5, <2>6 DEF Fifo!Take
<1>5. CASE Destroy
  <2>1. /\ UNCHANGED <<m_write_index, m_read_index>>
        /\ cpc = "destroy" /\ cpc' = "advance"
        /\ buffer' = [buffer EXCEPT ![read_index] = Raw]
        /\ removed' = Append(removed, buffer[read_index])
    BY <1>5 DEF Destroy
  <2>2. Razed = Gone /\ Razed' = Gone + 1 /\ Puts' = Puts
    BY <2>1 DEF Razed, Gone, Puts
  <2>3. Gone < Puts
    BY <2>1, CallsHaveRoom
  <2> QED
    BY <1>4, <2>1, <2>2, <2>3 DEF Fifo!Next
<1>6. CASE DrainOne
  <2>1. /\ UNCHANGED <<m_write_index, cpc>> /\ cpc = "idle" /\ Puts # Gone
        /\ buffer' = [buffer EXCEPT ![read_index] = Raw]
        /\ removed' = Append(removed, buffer[read_index])
        /\ m_read_index' = Append(m_read_index, Release(next_index(read_index), Gone + 1))
    BY <1>6, EmptyIsEmpty DEF DrainOne, IInv, Phases, consumer
  <2>2. Puts' = Puts /\ Gone' = Gone + 1
    BY <2>1, ReadIndexStored
  <2>3. Razed = Gone /\ Razed' = Gone + 1 /\ Gone < Puts
    BY <1>1, <2>1, <2>2 DEF Razed
  <2> QED
    BY <1>4, <2>1, <2>2, <2>3 DEF Fifo!Next
<1>7. CASE Advance
  <2>1. /\ UNCHANGED <<m_write_index, buffer, removed>>
        /\ cpc = "advance" /\ cpc' # "advance"
        /\ m_read_index' = Append(m_read_index, Release(next_index(read_index), Gone + 1))
    BY <1>7 DEF Advance, slots
  <2>2. Puts' = Puts /\ Gone' = Gone + 1
    BY <2>1, ReadIndexStored
  <2>3. Razed' = Razed
    BY <2>1, <2>2 DEF Razed
  <2> QED
    BY <1>2, <2>1, <2>2, <2>3
<1>8. CASE EmplaceConstruct
  <2>1. /\ UNCHANGED <<m_write_index, m_read_index, cpc, removed>>
        /\ buffer' = [buffer EXCEPT ![write_index] = parg]
    BY <1>8 DEF EmplaceConstruct, consumer
  <2>2. Puts' = Puts /\ Razed' = Razed
    BY <2>1 DEF Puts, Razed, Gone
  <2>3. ASSUME NEW i \in 1 .. n
        PROVE  buffer'[(Razed + i - 1) % max_size] = buffer[(Razed + i - 1) % max_size]
    <3>1. /\ Razed + i - 1 < Puts /\ Puts - (Razed + i - 1) < max_size
          /\ Razed + i - 1 \in Int /\ Puts \in Int
      BY <1>1, SizeAssumption
    <3>2. (Razed + i - 1) % max_size # write_index
      BY <1>1, <3>1, SlotsDiffer
    <3>3. (Razed + i - 1) % max_size \in Slot
      BY <1>0 DEF ContentsShape
    <3> QED
      BY <1>1, <2>1, <3>2, <3>3 DEF TypeOK
  <2>4. UNCHANGED Contents
    BY <1>0, <2>2, <2>3 DEF ContentsShape
  <2> QED
    BY <2>1, <2>4
<1>9. CASE InvokeThrows
  <2>1. /\ UNCHANGED <<m_write_index, m_read_index, removed>>
        /\ cpc = "invoke" /\ cpc' = "idle"
    BY <1>9 DEF InvokeThrows
  <2>2. PICK left \in {buffer[read_index], Hollow} :
          buffer' = [buffer EXCEPT ![read_index] = left]
    BY <1>9 DEF InvokeThrows
  <2>3. Puts' = Puts /\ Razed' = Razed /\ Razed = Gone
    BY <2>1 DEF Puts, Razed, Gone
  <2>4. CASE left = buffer[read_index]
    <3>1. buffer' = buffer
      BY <1>1, <2>2, <2>4 DEF TypeOK
    <3> QED
      BY <1>2, <2>1, <2>3, <3>1
  <2>5. CASE left = Hollow
    <3>1. Gone < Puts
      BY <2>1, CallsHaveRoom
    <3>2. n \in Nat /\ n > 0 /\ 1 \in 1 .. n
      BY <1>1, <2>3, <3>1
    <3>3. Len(Contents) > 0
      BY <1>0, <3>2 DEF ContentsShape
    <3>4. Contents # << >>
      BY <3>3
    <3>5. ASSUME NEW i \in 1 .. n
          PROVE  buffer'[(Razed + i - 1) % max_size]
                   = IF i = 1 THEN Hollow ELSE buffer[(Razed + i - 1) % max_size]
      <4>1. (Razed + i - 1) % max_size \in Slot
        BY <1>0 DEF ContentsShape
      <4>2. CASE i = 1
        <5>1. Razed + i - 1 = Gone
          BY <1>1, <2>3, <4>2
        <5> QED
          BY <1>1, <2>2, <2>5, <4>2, <5>1 DEF TypeOK
      <4>3. CASE i # 1
        <5>1. /\ Gone < Razed + i - 1 /\ (Razed + i - 1) - Gone < max_size
              /\ Gone \in Int /\ Razed + i - 1 \in Int
          BY <1>1, <2>3, <4>3, SizeAssumption
        <5>2. (Razed + i - 1) % max_size # read_index
          BY <1>1, <5>1, SlotsDiffer
        <5> QED
          BY <1>1, <2>2, <4>1, <4>3, <5>2 DEF TypeOK
      <4> QED
        BY <4>2, <4>3
    <3>6. Contents' = [Contents EXCEPT ![1] = Hollow]
      <4>1. /\ Contents = [i \in 1 .. n |-> buffer[(Razed + i - 1) % max_size]]
            /\ Contents' = [i \in 1 .. n |-> buffer'[(Razed + i - 1) % max_size]]
        BY <1>0, <2>3 DEF ContentsShape
      <4> HIDE DEF n
      <4> QED
        BY <3>2, <3>5, <4>1
    <3> QED
      BY <2>1, <3>4, <3>6 DEF Fifo!Next, Fifo!Spoil
  <2> QED
    BY <2>2, <2>4, <2>5
<1>10. CASE UNCHANGED <<m_write_index, m_read_index, buffer, removed>>
            /\ (cpc = "advance" <=> cpc' = "advance")
  <2>1. Puts' = Puts /\ Razed' = Razed
    BY <1>10 DEF Puts, Razed, Gone
  <2> QED
    BY <1>2, <1>10, <2>1
<1> QED
  BY <1>3, <1>5, <1>6, <1>7, <1>8, <1>9, <1>10
  DEF Next, Producer, ProducerStep, Consumer, ConsumerStep, Terminated, vars, slots,
      producer, consumer, EmplaceFull, EmplaceBegin, EmplaceThrow, WriteAvailable,
      ProducerReadAvailable, ReadAvailable, ConsumerWriteAvailable, Pop, Consume,
      BeginPop, ClearLoop, Clear, InvokeReturns, BeginDestroy, Deallocate, ConsumerIdle

(* A new queue is an empty FIFO.                                           *)
LEMMA InitImplements == Init => Fifo!Init
<1> SUFFICES ASSUME Init PROVE Fifo!Init
  OBVIOUS
<1>1. TypeOK /\ IInv /\ ContentsShape
  BY InitiallyInvariant, ContentsAt
<1>2. Puts = 0 /\ Razed = 0 /\ removed = << >>
  BY DEF Init, Puts, Gone, Razed
<1>3. Contents \in Seq(Element) /\ Len(Contents) = 0
  BY <1>1, <1>2 DEF ContentsShape
<1>4. Contents = << >>
  BY <1>3, EmptySeq
<1> QED
  BY <1>2, <1>4 DEF Fifo!Init

(* The ring with its stale loads implements the bounded FIFO of            *)
(* max_size - 1 elements: nothing is lost, duplicated or reordered.        *)
THEOREM FifoCorrect == Spec => ImplementsFifo
<1>1. Spec => []TypeOK /\ []IInv /\ []Pending
  BY TypeCorrect, InvariantCorrect, PendingCorrect
<1> QED
  BY <1>1, InitImplements, StepImplements, PTL DEF Spec, ImplementsFifo, Fifo!Spec
=============================================================================
