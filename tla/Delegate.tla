------------------------------ MODULE Delegate ------------------------------
(***************************************************************************)
(* Delegate<R(Args...)> of core/functional/delegate.hpp: an object that    *)
(* owns a callable of any type.  Its storage has the functor in it, or the *)
(* pointer to a functor that was too large; callable calls a functor of    *)
(* its type, and manager copies and destroys one.  A delegate without a    *)
(* manager is empty: its storage and its callable may be old ones.         *)
(*                                                                         *)
(* Storage is moved and swapped as bytes, so a functor keeps its identity  *)
(* wherever it lies: for who owns it, inside of a delegate and on the heap *)
(* are the same.  A delegate is used by one thread, so an operation is one *)
(* step; what an assignment does with its temporary is part of it.         *)
(***************************************************************************)

CONSTANTS Delegates,    \* the variables that may hold a delegate
          Functor,      \* functor objects: bounds how many live at a time
          Target,       \* what a functor does when it is called
          FunctorType,
          Type,         \* the type of the functors that do it
          null,         \* nullptr; no object, no result
          undefined     \* what calling an object as if of another type does

ASSUME ConstantsAssumption ==
  /\ Type \in [Target -> FunctorType]
  /\ null \notin Functor \cup Target \cup FunctorType
  /\ undefined \notin Target \cup {null}

VARIABLES alive,       \* the delegates there are
          delegate,    \* their members
          functors,    \* what every functor object does, null: no object
          called,      \* what the last call did, null: bad_function_call
          terminated   \* an exception reached a noexcept function
vars == <<alive, delegate, functors, called, terminated>>

Empty == [storage |-> null, callable |-> null, manager |-> null]

Init == /\ alive = {}
        /\ delegate = [d \in Delegates |-> Empty]
        /\ functors = [f \in Functor |-> null]
        /\ called = null
        /\ terminated = FALSE

-----------------------------------------------------------------------------
is_empty(o) == o.manager = null

\* What the constructors make: of a functor f that does t, of a copy f of the
\* functor of o, and of o when it is moved from.
Holding(f, t) == [storage |-> f, callable |-> Type[t], manager |-> Type[t]]
CopyOf(o, f) == [o EXCEPT !.storage = f]
MovedTo(o) == IF is_empty(o) THEN [Empty EXCEPT !.callable = o.callable] ELSE o
MovedFromKeeps(o) == o   \* mutant: the source keeps its manager
MovedFrom(o) == [o EXCEPT !.manager = null]

\* The functors after f began to do t, and after o was destroyed.
Created(f, t) == [functors EXCEPT ![f] = t]
Destroyed(fs, o) == IF is_empty(o) THEN fs ELSE [fs EXCEPT ![o.storage] = null]

-----------------------------------------------------------------------------
(* Construction and destruction.  When a functor throws while it is        *)
(* constructed there is no delegate, and nothing has changed.              *)

Constructed(d, ds, fs) ==
  /\ d \notin alive
  /\ alive' = alive \cup {d}
  /\ delegate' = ds
  /\ functors' = fs
  /\ UNCHANGED <<called, terminated>>

\* Also from an empty function pointer or an empty delegate.
Default(d) == Constructed(d, [delegate EXCEPT ![d] = Empty], functors)

FromFunctor(d, f, t) ==
  /\ functors[f] = null
  /\ Constructed(d, [delegate EXCEPT ![d] = Holding(f, t)], Created(f, t))

Copy(d, o, f) ==
  /\ o \in alive /\ ~is_empty(delegate[o]) /\ functors[f] = null
  /\ Constructed(d, [delegate EXCEPT ![d] = CopyOf(delegate[o], f)],
                 Created(f, functors[delegate[o].storage]))

Move(d, o) ==
  /\ o \in alive
  /\ Constructed(d, [delegate EXCEPT ![d] = MovedTo(delegate[o]), ![o] = MovedFrom(@)], functors)

Destroy(d) ==
  /\ d \in alive
  /\ alive' = alive \ {d}
  /\ functors' = Destroyed(functors, delegate[d])
  /\ delegate' = [delegate EXCEPT ![d] = Empty]
  /\ UNCHANGED <<called, terminated>>

-----------------------------------------------------------------------------
(* Assignment makes a temporary, swaps with it and destroys what was held. *)

\* From the temporary o, with the delegates ds and functors fs there are then.
Assigned(d, o, ds, fs) ==
  /\ d \in alive
  /\ delegate' = [ds EXCEPT ![d] = o]
  /\ functors' = Destroyed(fs, ds[d])
  /\ UNCHANGED <<alive, called, terminated>>

AssignFunctor(d, f, t) ==
  /\ functors[f] = null
  /\ Assigned(d, Holding(f, t), delegate, Created(f, t))

AssignCopy(d, o, f) ==
  /\ o \in alive /\ ~is_empty(delegate[o]) /\ functors[f] = null
  /\ Assigned(d, CopyOf(delegate[o], f), delegate,
              Created(f, functors[delegate[o].storage]))

\* An empty function pointer or an empty delegate is assigned.
AssignEmpty(d) == Assigned(d, Empty, delegate, functors)

\* mutant: destroys what it holds before it takes the other's
AssignMoveInPlace(d, o) ==
  /\ {d, o} \subseteq alive
  /\ delegate' = [delegate EXCEPT ![o] = MovedFrom(@), ![d] = MovedTo(delegate[o])]
  /\ functors' = Destroyed(functors, delegate[d])
  /\ UNCHANGED <<alive, called, terminated>>
AssignMove(d, o) ==
  /\ o \in alive
  /\ Assigned(d, MovedTo(delegate[o]), [delegate EXCEPT ![o] = MovedFrom(@)], functors)

\* operator=(nullptr): storage keeps its bytes.
Reset(d) ==
  /\ d \in alive /\ ~is_empty(delegate[d])
  /\ functors' = Destroyed(functors, delegate[d])
  /\ delegate' = [delegate EXCEPT ![d] = [Empty EXCEPT !.storage = delegate[d].storage]]
  /\ UNCHANGED <<alive, called, terminated>>

swap(d, o) ==
  /\ {d, o} \subseteq alive
  /\ delegate' = [delegate EXCEPT ![d] = delegate[o], ![o] = delegate[d]]
  /\ UNCHANGED <<alive, functors, called, terminated>>

\* A functor throws in the temporary, and assignments are noexcept.
AssignThrows(d) ==
  /\ d \in alive
  /\ terminated' = TRUE
  /\ UNCHANGED <<alive, delegate, functors, called>>

-----------------------------------------------------------------------------
\* Calling the functor in storage as one of the type callable is for.
Invoked(o) == LET t == IF o.storage = null THEN null ELSE functors[o.storage]
              IN  IF t # null /\ Type[t] = o.callable THEN t ELSE undefined

CallUnchecked(d) ==   \* mutant: looks at callable to see whether there is one
  /\ d \in alive
  /\ called' = IF delegate[d].callable = null THEN null ELSE Invoked(delegate[d])
  /\ UNCHANGED <<alive, delegate, functors, terminated>>
Call(d) ==
  /\ d \in alive
  /\ called' = IF is_empty(delegate[d]) THEN null ELSE Invoked(delegate[d])
  /\ UNCHANGED <<alive, delegate, functors, terminated>>

-----------------------------------------------------------------------------
Construction(d, f) ==
  \/ Default(d)
  \/ \E t \in Target : FromFunctor(d, f, t)
  \/ \E o \in Delegates : Copy(d, o, f) \/ Move(d, o)

Assignment(d, f) ==
  \/ \E t \in Target : AssignFunctor(d, f, t)
  \/ \E o \in Delegates : AssignCopy(d, o, f) \/ AssignMove(d, o) \/ swap(d, o)
  \/ AssignEmpty(d)
  \/ Reset(d)
  \/ AssignThrows(d)

Next ==
  \/ /\ ~terminated
     /\ \E d \in Delegates, f \in Functor :
          Construction(d, f) \/ Assignment(d, f) \/ Destroy(d) \/ Call(d)
  \/ terminated /\ UNCHANGED vars

Spec == Init /\ [][Next]_vars

-----------------------------------------------------------------------------
(* Type invariant; a call is never undefined. *)
Members == [storage : Functor \cup {null}, callable : FunctorType \cup {null},
            manager : FunctorType \cup {null}]
TypeOK ==
  /\ alive \subseteq Delegates
  /\ delegate \in [Delegates -> Members]
  /\ functors \in [Functor -> Target \cup {null}]
  /\ called \in Target \cup {null}
  /\ terminated \in BOOLEAN

(* Every functor there is belongs to exactly one delegate that has not been *)
(* destroyed, through whatever copies, moves and swaps it came there: none  *)
(* leaks, none is destroyed twice (line 146), and callable and manager are  *)
(* those of its type, so that it is neither called, copied nor destroyed as *)
(* another type.                                                            *)
Held(d) == delegate[d].storage
Owners == {d \in Delegates : ~is_empty(delegate[d])}
FunctorsOwned ==
  /\ Owners \subseteq alive
  /\ \A d \in Owners : /\ Held(d) # null
                       /\ functors[Held(d)] # null
                       /\ delegate[d].manager = Type[functors[Held(d)]]
                       /\ delegate[d].callable = delegate[d].manager
  /\ \A d, o \in Owners : Held(d) = Held(o) => d = o
  /\ \A f \in Functor : functors[f] # null => \E d \in Owners : Held(d) = f

IInv == TypeOK /\ FunctorsOwned

(* What a delegate does after an operation: a copy what its source does, by *)
(* a functor of its own, and the source goes on; a delegate that is moved   *)
(* to what its source did, which is empty then, also when it is assigned to *)
(* itself; a call does what the delegate holds, and throws if it is empty.  *)
Does(d) == IF is_empty(delegate[d]) THEN null ELSE functors[Held(d)]
After(d, t, o, u) ==
  \A x \in Delegates : Does(x)' = IF x = d THEN t ELSE IF x = o THEN u ELSE Does(x)

OperationPromised(d, o, f) ==
  /\ \A t \in Target : FromFunctor(d, f, t) \/ AssignFunctor(d, f, t) => After(d, t, d, t)
  /\ Copy(d, o, f) \/ AssignCopy(d, o, f) => After(d, Does(o), d, Does(o))
  /\ Move(d, o) \/ AssignMove(d, o) => After(d, Does(o), o, null)
  /\ swap(d, o) => After(d, Does(o), o, Does(d))
  /\ Default(d) \/ AssignEmpty(d) \/ Reset(d) \/ Destroy(d) => After(d, null, d, null)
  /\ Call(d) => called' = Does(d) /\ After(d, Does(d), d, Does(d))

Promised == [][\A d, o \in Delegates, f \in Functor : OperationPromised(d, o, f)]_vars
=============================================================================
