------------------------------ MODULE MCTuples ------------------------------
(* Objects of up to three elements.                                         *)
EXTENDS Tuples, TLC

Of(template, types) == [template |-> template, of |-> types]

MCClasses == {Of("Pair", <<"library", "text">>), Of("Tuple", <<"library", "text">>),
              Of("Pair", <<"text", "text">>), Of("Tuple", <<"text">>),
              Of("Tuple", <<"text", "text">>), Of("Tuple", <<"text", "text", "text">>),
              Of("BindFront", <<"library">>), Of("BindBack", <<"text">>)}

Symmetry == Permutations(Object) \cup Permutations(Library) \cup Permutations(Text)
=============================================================================
