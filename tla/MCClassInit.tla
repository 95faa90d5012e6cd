------------------------------ MODULE MCClassInit ------------------------------
(* Instances of ClassInit for TLC: two initializers that refer to each      *)
(* other and a built-in class, over two ways a class can be found; a main   *)
(* class and an array, which bypass the cache; and classes of the class     *)
(* path on their own.                                                       *)
EXTENDS ClassInit, TLC
CONSTANTS t1, t2, a, b, d

LoadOrigin == a :> "user" @@ b :> "boot" @@ d :> "builtin"
LoadUses   == a :> {a, b} @@ b :> {a, d} @@ d :> {}

SharedOrigin == a :> "main" @@ d :> "array"
SharedUses   == a :> {a, d} @@ d :> {}

PairOrigin == a :> "user" @@ b :> "user"
PairUses   == a :> {} @@ b :> {}
UserOrigin == a :> "user"
UserUses   == a :> {}
=============================================================================
