---------------------------- MODULE DelegateProofs ----------------------------
(***************************************************************************)
(* Theorems about Delegate, for any number of delegates, functors, targets *)
(* and types of them.                                                      *)
(***************************************************************************)
EXTENDS Delegate, TLAPS

(* No delegate has been constructed, and there is no functor.              *)
LEMMA InitOwned == Init => IInv
<1> SUFFICES ASSUME Init PROVE IInv
  OBVIOUS
<1>1. TypeOK
  BY DEF Init, TypeOK, Empty, Members
<1>2. Owners = {}
  BY DEF Init, Owners, is_empty, Empty
<1>3. \A f \in Functor : functors[f] = null
  BY DEF Init
<1> QED
  BY <1>1, <1>2, <1>3 DEF IInv, FunctorsOwned

(* Construction and destruction: a functor is made for the delegate that is *)
(* constructed, or changes its owner, or is destroyed with its owner.       *)
LEMMA ConstructionKeeps ==
  ASSUME IInv, NEW d \in Delegates, NEW f \in Functor, Construction(d, f) \/ Destroy(d)
  PROVE  IInv'
<1> USE ConstantsAssumption DEF IInv, TypeOK, FunctorsOwned, Owners, Held, is_empty, Empty, Members
<1>1. CASE Default(d)
  BY <1>1 DEF Default, Constructed
<1>2. ASSUME NEW t \in Target, FromFunctor(d, f, t) PROVE IInv'
  BY <1>2, SMTT(30) DEF FromFunctor, Constructed, Holding, Created
<1>3. ASSUME NEW o \in Delegates, Copy(d, o, f) PROVE IInv'
  BY <1>3, SMTT(30) DEF Copy, CopyOf, Constructed, Created
<1>4. ASSUME NEW o \in Delegates, Move(d, o) PROVE IInv'
  BY <1>4, SMTT(30) DEF Move, MovedTo, MovedFrom, Constructed
<1>5. CASE Destroy(d)
  BY <1>5, SMTT(30) DEF Destroy, Destroyed
<1> QED
  BY <1>1, <1>2, <1>3, <1>4, <1>5 DEF Construction

(* Assignment: the functor of the temporary is now owned by the delegate,   *)
(* and the one it had is destroyed.                                         *)
LEMMA AssignmentKeeps ==
  ASSUME IInv, NEW d \in Delegates, NEW f \in Functor, Assignment(d, f)
  PROVE  IInv'
<1> USE ConstantsAssumption DEF IInv, TypeOK, FunctorsOwned, Owners, Held, is_empty, Empty, Members
<1>1. ASSUME NEW t \in Target, AssignFunctor(d, f, t) PROVE IInv'
  BY <1>1, SMTT(30) DEF AssignFunctor, Assigned, Holding, Created, Destroyed
<1>2. ASSUME NEW o \in Delegates, AssignCopy(d, o, f) PROVE IInv'
  BY <1>2, SMTT(30) DEF AssignCopy, Assigned, CopyOf, Created, Destroyed
<1>3. ASSUME NEW o \in Delegates, AssignMove(d, o) PROVE IInv'
  <2> DEFINE to == MovedTo(delegate[o])
             from == MovedFrom(delegate[o])
             ds == [delegate EXCEPT ![o] = from]
  <2>1. /\ to \in Members /\ from \in Members /\ is_empty(from)
        /\ is_empty(delegate[o]) => is_empty(to)
        /\ ~is_empty(delegate[o]) => to = delegate[o]
    BY DEF MovedTo, MovedFrom
  <2>2. /\ delegate' = [ds EXCEPT ![d] = to]
        /\ functors' = Destroyed(functors, ds[d])
        /\ d \in alive /\ o \in alive /\ UNCHANGED <<alive, called, terminated>>
    BY <1>3 DEF AssignMove, Assigned
  <2> HIDE DEF to, from
  <2>3. CASE d = o
    <3>1. ds[d] = from
      BY <2>3
    <3>2. delegate' = [delegate EXCEPT ![d] = to] /\ functors' = functors
      BY <2>1, <2>2, <2>3, <3>1 DEF Destroyed
    <3> QED
      BY <2>1, <2>2, <2>3, <3>2
  <2>4. CASE d # o
    <3>1. /\ delegate' = [delegate EXCEPT ![o] = from, ![d] = to]
          /\ functors' = Destroyed(functors, delegate[d])
      BY <2>2, <2>4
    <3>2. CASE is_empty(delegate[o])
      BY <2>1, <2>2, <2>4, <3>1, <3>2, SMTT(30) DEF Destroyed
    <3>3. CASE ~is_empty(delegate[o]) /\ is_empty(delegate[d])
      BY <2>1, <2>2, <2>4, <3>1, <3>3, SMTT(30) DEF Destroyed
    <3>4. CASE ~is_empty(delegate[o]) /\ ~is_empty(delegate[d])
      BY <2>1, <2>2, <2>4, <3>1, <3>4, SMTT(30) DEF Destroyed
    <3> QED
      BY <3>2, <3>3, <3>4
  <2> QED
    BY <2>3, <2>4
<1>4. ASSUME NEW o \in Delegates, swap(d, o) PROVE IInv'
  BY <1>4, SMTT(30) DEF swap
<1>5. CASE AssignEmpty(d)
  BY <1>5, SMTT(30) DEF AssignEmpty, Assigned, Destroyed
<1>6. CASE Reset(d)
  <2> DEFINE e == [Empty EXCEPT !.storage = delegate[d].storage]
  <2>1. e \in Members /\ is_empty(e)
    OBVIOUS
  <2>2. delegate' = [delegate EXCEPT ![d] = e]
    BY <1>6 DEF Reset
  <2> HIDE DEF e
  <2>3. functors' = [functors EXCEPT ![delegate[d].storage] = null]
    BY <1>6 DEF Reset, Destroyed
  <2>4. TypeOK'
    BY <1>6, <2>1, <2>2, <2>3 DEF Reset
  <2>5. /\ Owners' = Owners \ {d} /\ d \in Owners /\ alive' = alive
        /\ \A x \in Owners \ {d} : delegate'[x] = delegate[x] /\ Held(x)' = Held(x)
    BY <1>6, <2>1, <2>2 DEF Reset
  <2>6. \A g \in Functor : functors'[g] = IF g = Held(d) THEN null ELSE functors[g]
    BY <2>3
  <2>7. \A x \in Owners : Held(x) \in Functor
    OBVIOUS
  <2> HIDE DEF Owners, Held, is_empty, TypeOK
  <2> QED
    BY <2>4, <2>5, <2>6, <2>7
<1>7. CASE AssignThrows(d)
  BY <1>7 DEF AssignThrows
<1> QED
  BY <1>1, <1>2, <1>3, <1>4, <1>5, <1>6, <1>7 DEF Assignment

(* A call does what the functor in storage does: it is an object, and of    *)
(* the type callable is for.                                                *)
LEMMA CallsHeld ==
  ASSUME IInv, NEW d \in Delegates, Call(d)
  PROVE  called' = Does(d)
BY DEF Call, Invoked, Does, IInv, TypeOK, FunctorsOwned, Owners, Held, is_empty, Members

LEMMA CallKeeps ==
  ASSUME IInv, NEW d \in Delegates, Call(d)
  PROVE  IInv'
BY CallsHeld DEF Call, Does, IInv, TypeOK, FunctorsOwned, Owners, Held, is_empty, Members

(* The invariant, whatever is copied, moved, swapped and assigned.          *)
THEOREM InvariantCorrect == Spec => []IInv
<1>1. IInv /\ [Next]_vars => IInv'
  <2> SUFFICES ASSUME IInv, [Next]_vars PROVE IInv'
    OBVIOUS
  <2>1. CASE UNCHANGED vars
    BY <2>1 DEF vars, IInv, TypeOK, FunctorsOwned, Owners, Held
  <2>2. ASSUME NEW d \in Delegates, NEW f \in Functor, Construction(d, f) \/ Destroy(d)
        PROVE  IInv'
    BY <2>2, ConstructionKeeps
  <2>3. ASSUME NEW d \in Delegates, NEW f \in Functor, Assignment(d, f)
        PROVE  IInv'
    BY <2>3, AssignmentKeeps
  <2>4. ASSUME NEW d \in Delegates, Call(d)
        PROVE  IInv'
    BY <2>4, CallKeeps
  <2> QED
    BY <2>1, <2>2, <2>3, <2>4 DEF Next
<1> QED
  BY InitOwned, <1>1, PTL DEF Spec

(* Ownership and types, in every state of every execution.                  *)
THEOREM TypeCorrect == Spec => []TypeOK
<1>1. IInv => TypeOK
  BY DEF IInv
<1> QED
  BY InvariantCorrect, <1>1, PTL

THEOREM OwnedCorrect == Spec => []FunctorsOwned
<1>1. IInv => FunctorsOwned
  BY DEF IInv
<1> QED
  BY InvariantCorrect, <1>1, PTL

(* Promised: what the delegates do after a step.  Nothing a delegate does   *)
(* changes but by its own functor, which FunctorsOwned says is no other's.  *)
LEMMA OperationKeepsPromise ==
  ASSUME IInv, NEW d \in Delegates, NEW o \in Delegates, NEW f \in Functor
  PROVE  OperationPromised(d, o, f)
<1> USE ConstantsAssumption DEF IInv, TypeOK, FunctorsOwned, Owners, Held, is_empty, Empty, Members,
        Does, After
<1>1. ASSUME NEW t \in Target, FromFunctor(d, f, t) PROVE After(d, t, d, t)
  BY <1>1, SMTT(30) DEF FromFunctor, Constructed, Holding, Created
<1>2. ASSUME NEW t \in Target, AssignFunctor(d, f, t) PROVE After(d, t, d, t)
  BY <1>2, SMTT(30) DEF AssignFunctor, Assigned, Holding, Created, Destroyed
<1>3. ASSUME Copy(d, o, f) PROVE After(d, Does(o), d, Does(o))
  BY <1>3, SMTT(30) DEF Copy, CopyOf, Constructed, Created
<1>4. ASSUME AssignCopy(d, o, f) PROVE After(d, Does(o), d, Does(o))
  BY <1>4, SMTT(30) DEF AssignCopy, Assigned, CopyOf, Created, Destroyed
<1>5. ASSUME Move(d, o) PROVE After(d, Does(o), o, null)
  BY <1>5, SMTT(30) DEF Move, MovedTo, MovedFrom, Constructed
<1>6. ASSUME AssignMove(d, o) PROVE After(d, Does(o), o, null)
  BY <1>6, SMTT(30) DEF AssignMove, Assigned, MovedTo, MovedFrom, Destroyed
<1>7. ASSUME swap(d, o) PROVE After(d, Does(o), o, Does(d))
  BY <1>7, SMTT(30) DEF swap
<1>8. ASSUME Default(d) PROVE After(d, null, d, null)
  BY <1>8, SMTT(30) DEF Default, Constructed
<1>9. ASSUME AssignEmpty(d) PROVE After(d, null, d, null)
  BY <1>9, SMTT(30) DEF AssignEmpty, Assigned, Destroyed
<1>10. ASSUME Reset(d) PROVE After(d, null, d, null)
  BY <1>10, SMTT(30) DEF Reset, Destroyed
<1>11. ASSUME Destroy(d) PROVE After(d, null, d, null)
  BY <1>11, SMTT(30) DEF Destroy, Destroyed
<1>12. ASSUME Call(d) PROVE called' = Does(d) /\ After(d, Does(d), d, Does(d))
  BY <1>12, CallsHeld DEF Call
<1> HIDE DEF After, Does
<1> QED
  BY <1>1, <1>2, <1>3, <1>4, <1>5, <1>6, <1>7, <1>8, <1>9, <1>10, <1>11, <1>12
  DEF OperationPromised

THEOREM PromisedCorrect == Spec => Promised
<1>1. Spec => []IInv
  BY InvariantCorrect
<1>2. IInv => [\A d, o \in Delegates, f \in Functor : OperationPromised(d, o, f)]_vars
  BY OperationKeepsPromise
<1> QED
  BY <1>1, <1>2, PTL DEF Promised
=============================================================================
