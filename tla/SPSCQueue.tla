------------------------------ MODULE SPSCQueue ------------------------------
(***************************************************************************)
(* xme::SPSCQueue (private/container/spsc_queue_base.hpp): a ring of       *)
(* max_size slots between one producer and one consumer thread, which      *)
(* share nothing but two atomic indexes.                                   *)
(*                                                                         *)
(* The atomics have the C++ memory model, not an interleaved one.  Each    *)
(* index is the sequence of the stores made to it (its modification        *)
(* order).  A thread reads the newest store of the index it writes itself, *)
(* and of the other index any store that is not older than the last one it *)
(* has read: a load may be stale.  What a load tells about the slots is    *)
(* another matter: a release store carries how many constructions (or      *)
(* destructions) its thread had done, and only a load that acquires learns *)
(* the number.  Slot accesses the reader has not learnt of do not happen   *)
(* before its own, and RaceFree says that no access ever races.            *)
(***************************************************************************)
EXTENDS Integers, Sequences

CONSTANTS max_size,  \* number of slots, a power of two
          SizeMod,   \* 2^w, the range of std::size_t
          Value,     \* the elements
          Raw,       \* what a slot without an object holds
          Hollow,    \* an element whose contents were moved out
          MaxPush    \* bound: how many elements are pushed

ASSUME SizeAssumption == /\ max_size \in Nat \ {0}
                         /\ SizeMod \in Nat
                         /\ SizeMod >= 2 * max_size
ASSUME ValueAssumption == Raw \notin Value /\ Hollow \notin Value /\ Raw # Hollow
ASSUME ParameterAssumption == MaxPush \in Nat

VARIABLES
  m_write_index,  \* the stores made to the write index, the initial 0 first
  m_read_index,   \* the stores made to the read index
  buffer,         \* what each slot holds
  stamp,          \* the construction, or destruction, that last changed each slot
  ppc, parg,      \* the producer: where it is in emplace, and what it emplaces
  pseen,          \* the newest store to m_read_index it has read
  pknows,         \* the destructions that happened before its next step
  room,           \* how many emplaces its last write_available() still promises
  cpc, clearing,  \* the consumer: where it is in pop, consume or clear
  cseen, cknows,  \* the same two of the consumer
  avail,          \* how many pops its last read_available() still promises
  removed,        \* history: the elements destroyed, in order
  phase           \* the queue in use, in its destructor, or gone

producer == <<ppc, parg, pseen, pknows, room>>
consumer == <<cpc, clearing, cseen, cknows, avail>>
slots    == <<buffer, stamp>>
vars == <<m_write_index, m_read_index, slots, producer, consumer, removed, phase>>

Slot    == 0 .. max_size - 1
Content == Value \cup {Raw, Hollow}
Store   == [val : Slot, rel : Nat]

-----------------------------------------------------------------------------
(* Index arithmetic.  The mask of next_index is the remainder for a power  *)
(* of two (MCSPSCQueue); the subtraction of write_available wraps.         *)

NextIndexUnmasked(i) == i + 1   \* mutant
next_index(i) == (i + 1) % max_size

is_empty(w, r) == w = r

ReadAvailableUnwrapped(w, r) == IF w >= r THEN w - r ELSE 0   \* mutant
ReadAvailableFullWhenEmpty(w, r) == IF w > r THEN w - r ELSE w + max_size - r   \* mutant
read_available(w, r) == IF w >= r THEN w - r ELSE w + max_size - r

WriteAvailableAllSlots(w, r) ==   \* mutant: no slot is kept free
  LET diff == (r - w) % SizeMod
  IN  IF diff >= r THEN (diff + max_size) % SizeMod ELSE diff
write_available(w, r) ==
  LET diff == (r - w - 1) % SizeMod
  IN  IF diff >= r THEN (diff + max_size) % SizeMod ELSE diff

(* Memory orders: what a thread that knows of k slot accesses of the other *)
(* knows after a load, and what a store carries.                           *)

Relaxed(k, store) == k
AcquireRelaxed(k, store) == k   \* mutant
Acquire(k, store) == IF store.rel > k THEN store.rel ELSE k
ReleaseRelaxed(i, done) == [val |-> i, rel |-> 0]   \* mutant
Release(i, done)  == [val |-> i, rel |-> done]

(* The indexes as their own thread reads them, and how often each moved.   *)

write_index == m_write_index[Len(m_write_index)].val
read_index  == m_read_index[Len(m_read_index)].val
Puts == Len(m_write_index) - 1
Gone == Len(m_read_index) - 1

-----------------------------------------------------------------------------
Init ==
  /\ m_write_index = <<Release(0, 0)>>
  /\ m_read_index = <<Release(0, 0)>>
  /\ buffer = [i \in Slot |-> Raw]
  /\ stamp = [i \in Slot |-> 0]
  /\ ppc = "idle" /\ parg = Raw /\ pseen = 1 /\ pknows = 0 /\ room = 0
  /\ cpc = "idle" /\ clearing = FALSE /\ cseen = 1 /\ cknows = 0 /\ avail = 0
  /\ removed = << >>
  /\ phase = "run"

-----------------------------------------------------------------------------
(* The producer thread. *)

ProducerIdle == phase = "run" /\ ppc = "idle"

\* The stores a load of the read index may return to the producer, and what
\* the full test of emplace() makes of one.
VisibleReads == pseen .. Len(m_read_index)
IsFull(m) == next_index(write_index) = m_read_index[m].val

\* mutant: emplace() trusts the read index it has cached
LoadReadIndexCached(m) == m = pseen /\ UNCHANGED <<pseen, pknows>>
LoadReadIndex(m) == /\ m \in VisibleReads
                    /\ pseen' = m
                    /\ pknows' = Acquire(pknows, m_read_index[m])

\* emplace() returns false.
EmplaceFull(m) ==
  /\ ProducerIdle
  /\ LoadReadIndex(m)
  /\ IsFull(m)
  /\ UNCHANGED <<m_write_index, m_read_index, slots, ppc, parg, room,
                 consumer, removed, phase>>

\* emplace() finds a free slot.
EmplaceBegin(v, m) ==
  /\ ProducerIdle
  /\ Puts < MaxPush
  /\ LoadReadIndex(m)
  /\ ~IsFull(m)
  /\ ppc' = "construct"
  /\ parg' = v
  /\ UNCHANGED <<m_write_index, m_read_index, slots, room, consumer, removed, phase>>

EmplaceConstructAhead ==   \* mutant: constructs in the slot after
  /\ ppc = "construct"
  /\ buffer' = [buffer EXCEPT ![next_index(write_index)] = parg]
  /\ stamp' = [stamp EXCEPT ![next_index(write_index)] = Puts + 1]
  /\ ppc' = "publish"
  /\ UNCHANGED <<m_write_index, m_read_index, parg, pseen, pknows, room,
                 consumer, removed, phase>>
EmplaceConstruct ==
  /\ ppc = "construct"
  /\ buffer' = [buffer EXCEPT ![write_index] = parg]
  /\ stamp' = [stamp EXCEPT ![write_index] = Puts + 1]
  /\ ppc' = "publish"
  /\ UNCHANGED <<m_write_index, m_read_index, parg, pseen, pknows, room,
                 consumer, removed, phase>>

\* The constructor of T throws and emplace() is left: there is no object.
EmplaceThrow ==
  /\ ppc = "construct"
  /\ ppc' = "idle"
  /\ UNCHANGED <<m_write_index, m_read_index, slots, parg, pseen, pknows, room,
                 consumer, removed, phase>>

EmplacePublishWaits ==   \* mutant: waits for the consumer to leave its call
  /\ ppc = "publish" /\ cpc = "idle"
  /\ m_write_index' = Append(m_write_index, Release(next_index(write_index), Puts + 1))
  /\ ppc' = "idle"
  /\ room' = IF room > 0 THEN room - 1 ELSE 0
  /\ UNCHANGED <<m_read_index, slots, parg, pseen, pknows, consumer, removed, phase>>
EmplacePublish ==
  /\ ppc = "publish"
  /\ m_write_index' = Append(m_write_index, Release(next_index(write_index), Puts + 1))
  /\ ppc' = "idle"
  /\ room' = IF room > 0 THEN room - 1 ELSE 0
  /\ UNCHANGED <<m_read_index, slots, parg, pseen, pknows, consumer, removed, phase>>

WriteAvailable(m) ==
  /\ ProducerIdle
  /\ LoadReadIndex(m)
  /\ room' = write_available(write_index, m_read_index[m].val)
  /\ UNCHANGED <<m_write_index, m_read_index, slots, ppc, parg, consumer, removed, phase>>

\* read_available() asked by the producer: its load of the read index is relaxed.
ProducerReadAvailable(m) ==
  /\ ProducerIdle
  /\ m \in VisibleReads
  /\ pseen' = m
  /\ pknows' = Relaxed(pknows, m_read_index[m])
  /\ UNCHANGED <<m_write_index, m_read_index, slots, ppc, parg, room,
                 consumer, removed, phase>>

ProducerStep == EmplaceConstruct \/ EmplaceThrow \/ EmplacePublish

Producer ==
  \/ \E m \in VisibleReads : \/ EmplaceFull(m)
                             \/ \E v \in Value : EmplaceBegin(v, m)
                             \/ WriteAvailable(m)
                             \/ ProducerReadAvailable(m)
  \/ ProducerStep

-----------------------------------------------------------------------------
(* The consumer thread.  pop() and consume() must not be called on an      *)
(* empty queue: their caller spends what read_available() returned, as the *)
(* worker of tests/container/spsc.cpp does.                                *)

ConsumerIdle == phase = "run" /\ cpc = "idle"

VisibleWrites == cseen .. Len(m_write_index)

LoadWriteIndex(m) == /\ m \in VisibleWrites
                     /\ cseen' = m
                     /\ cknows' = Acquire(cknows, m_write_index[m])

ReadAvailable(m) ==
  /\ ConsumerIdle
  /\ LoadWriteIndex(m)
  /\ avail' = read_available(m_write_index[m].val, read_index)
  /\ UNCHANGED <<m_write_index, m_read_index, slots, producer, cpc, clearing, removed, phase>>

\* write_available() asked by the consumer: its load of the write index is relaxed.
ConsumerWriteAvailable(m) ==
  /\ ConsumerIdle
  /\ m \in VisibleWrites
  /\ cseen' = m
  /\ cknows' = Relaxed(cknows, m_write_index[m])
  /\ UNCHANGED <<m_write_index, m_read_index, slots, producer, cpc, clearing,
                 avail, removed, phase>>

\* The first lines of pop() and consume().  The assertion loads the write index
\* once more; with NDEBUG it does not, so neither may be relied on.
BeginPop(m, step) ==
  /\ ConsumerIdle
  /\ avail > 0
  /\ \/ LoadWriteIndex(m)
     \/ m = cseen /\ UNCHANGED <<cseen, cknows>>
  /\ cpc' = step
  /\ UNCHANGED <<m_write_index, m_read_index, slots, producer, clearing, avail, removed, phase>>

\* pop() goes on to destroy the element, consume() to give it to the callback.
Pop(m)     == BeginPop(m, "destroy")
Consume(m) == BeginPop(m, "invoke")

InvokeReturns ==
  /\ cpc = "invoke"
  /\ cpc' = "destroy"
  /\ UNCHANGED <<m_write_index, m_read_index, slots, producer, clearing, cseen,
                 cknows, avail, removed, phase>>

\* The callback throws, having moved the element's contents out or not.
InvokeThrows ==
  /\ cpc = "invoke"
  /\ \E left \in {buffer[read_index], Hollow} :
       buffer' = [buffer EXCEPT ![read_index] = left]
  /\ cpc' = "idle"
  /\ UNCHANGED <<m_write_index, m_read_index, stamp, producer, clearing, cseen,
                 cknows, avail, removed, phase>>

Destroy ==
  /\ cpc = "destroy"
  /\ removed' = Append(removed, buffer[read_index])
  /\ buffer' = [buffer EXCEPT ![read_index] = Raw]
  /\ stamp' = [stamp EXCEPT ![read_index] = Gone + 1]
  /\ cpc' = "advance"
  /\ UNCHANGED <<m_write_index, m_read_index, producer, clearing, cseen, cknows,
                 avail, phase>>

Advance ==
  /\ cpc = "advance"
  /\ m_read_index' = Append(m_read_index, Release(next_index(read_index), Gone + 1))
  /\ cpc' = IF clearing THEN "clear" ELSE "idle"
  /\ avail' = IF avail > 0 THEN avail - 1 ELSE 0
  /\ UNCHANGED <<m_write_index, slots, producer, clearing, cseen, cknows, removed, phase>>

\* clear() of a T with a destructor: elements go until a load finds none.
Clear ==
  /\ ConsumerIdle
  /\ cpc' = "clear"
  /\ clearing' = TRUE
  /\ avail' = 0
  /\ UNCHANGED <<m_write_index, m_read_index, slots, producer, cseen, cknows, removed, phase>>

ClearLoop(m) ==
  /\ cpc = "clear"
  /\ LoadWriteIndex(m)
  /\ LET done == is_empty(m_write_index[m].val, read_index)
     IN  cpc' = (IF done THEN "idle" ELSE "destroy") /\ clearing' = ~done
  /\ UNCHANGED <<m_write_index, m_read_index, slots, producer, avail, removed, phase>>

ConsumerStep == InvokeReturns \/ InvokeThrows \/ Destroy \/ Advance

Consumer ==
  \/ \E m \in VisibleWrites : \/ ReadAvailable(m)
                              \/ ConsumerWriteAvailable(m)
                              \/ Pop(m)
                              \/ Consume(m)
                              \/ ClearLoop(m)
  \/ Clear
  \/ ConsumerStep

-----------------------------------------------------------------------------
(* The destructor, run by one thread after both have been joined.          *)

BeginDestroy ==
  /\ ProducerIdle /\ ConsumerIdle
  /\ phase' = "drain"
  /\ cseen' = Len(m_write_index)
  /\ cknows' = Puts
  /\ avail' = 0
  /\ UNCHANGED <<m_write_index, m_read_index, slots, producer, cpc, clearing, removed>>

DrainOne ==
  /\ phase = "drain"
  /\ ~is_empty(write_index, read_index)
  /\ removed' = Append(removed, buffer[read_index])
  /\ buffer' = [buffer EXCEPT ![read_index] = Raw]
  /\ stamp' = [stamp EXCEPT ![read_index] = Gone + 1]
  /\ m_read_index' = Append(m_read_index, Release(next_index(read_index), Gone + 1))
  /\ UNCHANGED <<m_write_index, producer, consumer, phase>>

DeallocateUndrained ==   \* mutant: the destructor leaves the elements
  /\ phase = "drain"
  /\ phase' = "dead"
  /\ UNCHANGED <<m_write_index, m_read_index, slots, producer, consumer, removed>>
Deallocate ==
  /\ phase = "drain"
  /\ is_empty(write_index, read_index)
  /\ phase' = "dead"
  /\ UNCHANGED <<m_write_index, m_read_index, slots, producer, consumer, removed>>

Terminated == phase = "dead" /\ UNCHANGED vars

Next == Producer \/ Consumer \/ BeginDestroy \/ DrainOne \/ Deallocate \/ Terminated

Spec == Init /\ [][Next]_vars

-----------------------------------------------------------------------------
(* Fairness: both threads are scheduled and call the queue again and again, *)
(* stores become visible in finite time (a load is not stale for ever),     *)
(* and neither constructors nor callbacks throw every time.                 *)

FreshRead  == \/ ReadAvailable(Len(m_write_index))
              \/ ClearLoop(Len(m_write_index))
FreshEmplace == \E v \in Value : EmplaceBegin(v, Len(m_read_index))
PopOrConsume == \E m \in VisibleWrites : Pop(m) \/ Consume(m)

ProducerFairness == /\ WF_vars(FreshEmplace)
                    /\ SF_vars(EmplaceConstruct)
                    /\ WF_vars(EmplacePublish)

ConsumerFairness == /\ SF_vars(FreshRead)
                    /\ WF_vars(PopOrConsume)
                    /\ SF_vars(InvokeReturns)
                    /\ WF_vars(Destroy)
                    /\ WF_vars(Advance)
                    /\ WF_vars(DrainOne)

Fairness == ProducerFairness /\ ConsumerFairness

-----------------------------------------------------------------------------
(* Type invariant: the indexes stay slots of the ring, by the remainder that *)
(* next_index is here; of the mask of the code see MCSPSCQueue.              *)
TypeOK ==
  /\ m_write_index \in Seq(Store) /\ cseen \in 1 .. Len(m_write_index)
  /\ m_read_index \in Seq(Store) /\ pseen \in 1 .. Len(m_read_index)
  /\ buffer \in [Slot -> Content] /\ stamp \in [Slot -> Nat]
  /\ ppc \in {"idle", "construct", "publish"}
  /\ parg \in Value \cup {Raw}
  /\ ppc # "idle" => parg \in Value
  /\ cpc \in {"idle", "invoke", "destroy", "advance", "clear"}
  /\ clearing \in BOOLEAN
  /\ pknows \in Nat /\ room \in Nat
  /\ cknows \in Nat /\ avail \in Nat
  /\ removed \in Seq(Content)
  /\ phase \in {"run", "drain", "dead"}

(* No access to a slot races: when the producer is about to construct in a  *)
(* slot, the destruction that last emptied it happened before; when the     *)
(* consumer is about to use an element, its construction happened before.   *)
(* The acquire and release orders of emplace, pop and read_available.       *)
RaceFree ==
  /\ ppc = "construct" => stamp[write_index] <= pknows
  /\ cpc \in {"invoke", "destroy"} => stamp[read_index] <= cknows

(* Objects live exactly once: emplace constructs only where there is no     *)
(* object, pop, consume and clear touch only live ones, and the destructor  *)
(* leaves none behind.                                                      *)
Lifetimes ==
  /\ ppc = "construct" => buffer[write_index] = Raw
  /\ cpc \in {"invoke", "destroy"} => buffer[read_index] # Raw
  /\ phase = "dead" => \A i \in Slot : buffer[i] = Raw

(* A caller that spends what read_available() returned never sees the       *)
(* assertion of pop() and consume() fail, and one that spends what          *)
(* write_available() returned never sees emplace() fail, however stale the  *)
(* loads of the calls that follow are.                                      *)
PromisesKept ==
  /\ ConsumerIdle /\ avail > 0 =>
       \A m \in VisibleWrites : ~is_empty(m_write_index[m].val, read_index)
  /\ ProducerIdle /\ room > 0 => \A m \in VisibleReads : ~IsFull(m)

(* What either thread asks of the other's side errs to one side only: the   *)
(* producer's read_available() never misses an element, the consumer's      *)
(* write_available() never misses a free slot, and no staleness makes the   *)
(* subtraction wrap to more than the queue holds.                           *)
EstimatesErrOneWay ==
  /\ ProducerIdle => \A m \in VisibleReads :
       read_available(write_index, m_read_index[m].val) \in (Puts - Gone) .. (max_size - 1)
  /\ ConsumerIdle => \A m \in VisibleWrites :
       write_available(m_write_index[m].val, read_index)
         \in (max_size - 1 - (Puts - Gone)) .. (max_size - 1)

(* Of the indexes as they are, both availabilities are exact through every  *)
(* wrap of the ring, empty and full included: one slot stays free.          *)
CountsExact ==
  /\ Puts - Gone \in 0 .. max_size - 1
  /\ read_available(write_index, read_index) = Puts - Gone
  /\ write_available(write_index, read_index) = max_size - 1 - (Puts - Gone)

(* The inductive invariant.  Element k (from 0) lives in slot k % max_size; *)
(* Razed elements have been destroyed and Built constructed, each at most   *)
(* one more than published.                                                 *)
Built == IF ppc = "publish" THEN Puts + 1 ELSE Puts
Razed == IF cpc = "advance" THEN Gone + 1 ELSE Gone

StoresInOrder ==
  /\ \A k \in 1 .. Len(m_write_index) : m_write_index[k] = Release((k - 1) % max_size, k - 1)
  /\ \A k \in 1 .. Len(m_read_index) : m_read_index[k] = Release((k - 1) % max_size, k - 1)

ProducerBehind ==
  /\ pknows <= pseen - 1
  /\ Puts - (pseen - 1) <= max_size - 1
  /\ ppc # "idle" => Puts + 1 - pknows <= max_size - 1
  /\ room <= max_size - 1 - (Puts - (pseen - 1))

ConsumerBehind ==
  /\ cknows <= cseen - 1
  /\ Gone <= cknows
  /\ cpc \in {"invoke", "destroy", "advance"} => Gone + 1 <= cknows
  /\ avail <= cknows - Gone

SlotsInStep ==
  \A k \in Razed .. Razed + max_size - 1 :
    IF k < Built
    THEN buffer[k % max_size] # Raw /\ stamp[k % max_size] = k + 1
    ELSE /\ buffer[k % max_size] = Raw
         /\ stamp[k % max_size] = IF k < max_size THEN 0 ELSE k - max_size + 1

Phases ==
  /\ phase # "run" => ppc = "idle" /\ cpc = "idle" /\ cknows = Puts /\ avail = 0
  /\ phase = "dead" => Puts = Gone

IInv == /\ StoresInOrder /\ ProducerBehind /\ ConsumerBehind
        /\ SlotsInStep /\ Phases

-----------------------------------------------------------------------------
(* The queue implements the bounded FIFO of max_size - 1 elements: what     *)
(* waits is what the slots between the published indexes hold, less an      *)
(* element destroyed whose index is not yet published.                      *)
First == IF cpc = "advance" THEN next_index(read_index) ELSE read_index
Contents == [i \in 1 .. read_available(write_index, First)
               |-> buffer[(First + i - 1) % max_size]]

Fifo == INSTANCE BoundedFifo WITH queue <- Contents, Room <- max_size - 1

ImplementsFifo == Fifo!Spec

(* Pushing and popping is wait-free (spsc_queue.hpp:10): a thread that is   *)
(* given steps finishes the call it is in, whether or not the other thread  *)
(* ever takes another step.                                                 *)
WaitFree ==
  /\ WF_vars(ProducerStep) => (ppc # "idle" ~> ppc = "idle")
  /\ WF_vars(ConsumerStep) =>
       (~clearing /\ cpc \in {"invoke", "destroy", "advance"} ~> cpc = "idle")

(* Every element pushed is removed in the end, by the consumer or by the    *)
(* destructor.                                                              *)
EveryPushIsRemoved ==
  Fairness => \A n \in 1 .. MaxPush : Puts >= n ~> Len(removed) >= n

(* Neither thread starves: as long as the queue is used, a producer that    *)
(* retries gets all its elements in, though the ring is full again and      *)
(* again.                                                                   *)
ProducerGetsThrough == Fairness => <>(phase # "run" \/ Puts = MaxPush)
=============================================================================
