---------------------------- MODULE SharedLibrary ----------------------------
(***************************************************************************)
(* xme::hal::SharedLibrary, a handle of the dynamic loader that is moved   *)
(* and never copied.  An object lives at a place; a world w is what the    *)
(* places hold and, of every library, the opens less the closes that the   *)
(* loader was asked for (dlopen of one that is open returns the same       *)
(* handle; fewer than none: it was asked to close what is not open).       *)
(***************************************************************************)
EXTENDS Integers

CONSTANTS Library, null   \* nullptr

is_open(w, p) == w.held[p] # null

\* handle is what dlopen returns: null when there is no such library.
open(w, p, handle) ==
  LET holding == [w EXCEPT !.held[p] = handle]
  IN  IF handle = null THEN holding ELSE [holding EXCEPT !.loads[handle] = @ + 1]

\* The handle is kept.
close(w, p) == [w EXCEPT !.loads[w.held[p]] = @ - 1]

LibraryMovedKeeps(w, to, from) ==   \* mutant: the source keeps its handle
  [w EXCEPT !.held[to] = w.held[from]]
LibraryMoved(w, to, from) == [w EXCEPT !.held[to] = w.held[from], !.held[from] = null]

\* Move assignment swaps.
LibraryAssigned(w, to, from) ==
  [w EXCEPT !.held[to] = w.held[from], !.held[from] = w.held[to]]

LibraryDestroyed(w, p) ==
  [(IF is_open(w, p) THEN close(w, p) ELSE w) EXCEPT !.held[p] = null]
=============================================================================
