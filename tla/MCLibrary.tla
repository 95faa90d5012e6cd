------------------------------ MODULE MCLibrary ------------------------------
(***************************************************************************)
(* The small models of the natives, the decoders and method selection; a   *)
(* behaviour is one of one of them, named by subject.                      *)
(***************************************************************************)
EXTENDS AtomicAccess, IoResources, Decoding, Dispatch

VARIABLE subject

vars == <<subject, avars, iovars, instruction, dvars>>

MCDatum == {<<"I", 1>>, <<"I", -1>>, <<"J", 1>>, <<"J", -1>>,
            <<"A", "null">>, <<"A", "o">>, <<"F", 0>>, <<"F", 1>>}

\* Two classes below a root, as brothers or one below the other, and two
\* interfaces, one of which may extend the other.
Lists == {<<>>, <<"I">>, <<"J", "I">>}
Held == {"Bytecode", Nobody}
MCShapes ==
  {[super |-> [A |-> Nobody, B |-> "A", C |-> c],
    interfaces |-> [A |-> ia, B |-> ib, C |-> <<>>, I |-> <<>>, J |-> ij],
    declares |-> [A |-> a, B |-> b, C |-> Nobody, I |-> i, J |-> j],
    shadowed |-> shadowed, builtin |-> {"B"}, target |-> "C"] :
     c \in {"A", "B"}, ia \in Lists, ib \in Lists, ij \in {<<>>, <<"I">>},
     a \in {"Native", Nobody}, b \in Held, i \in Held, j \in Held, shadowed \in {{}, {"C"}}}

Fixed(s) ==
  /\ s # "atomics" => place = "field" /\ slot = Zero("I") /\ checks = FALSE
  /\ s # "decoding" => instruction = [op |-> 1, inner |-> 0, at |-> 0, n |-> 0]
  /\ s # "dispatch" => shape = CHOOSE x \in Shapes : TRUE

Init ==
  /\ subject \in {"atomics", "files", "decoding", "dispatch"}
  /\ Fixed(subject)
  /\ AccessInit /\ IoInit /\ DecodingInit /\ DispatchInit

Next ==
  /\ UNCHANGED <<subject, instruction>>
  /\ \/ subject = "atomics" /\ AccessNext /\ UNCHANGED <<iovars, dvars>>
     \/ subject = "files" /\ IoNext /\ UNCHANGED <<avars, dvars>>
     \/ subject = "dispatch" /\ DispatchNext /\ UNCHANGED <<avars, iovars>>

\* Threads are alike, and so are streams (Accessor and IoThread are the same set).
Symmetry == Permutations(Accessor) \cup Permutations(Stream)

Spec == Init /\ [][Next]_vars
=============================================================================
