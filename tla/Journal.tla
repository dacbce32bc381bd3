------------------------------ MODULE Journal ------------------------------
(***************************************************************************)
(* What a unit promises to its clients ("the abstraction of continuous     *)
(* memory access"): a sequence of frames that grows at its end, of which a *)
(* reader, once it has a place in it, takes every frame, in order, once.   *)
(***************************************************************************)
EXTENDS Integers

CONSTANT Readers

VARIABLES
  size,   \* the number of frames written
  at      \* how many frames lie before each reader's place, -1 if it has none

vars == <<size, at>>

Init == size = 0 /\ at = [r \in Readers |-> -1]

Append == size' = size + 1 /\ UNCHANGED at

(* The reader gets a place anywhere in the unit, or loses it. *)
Open(r) == /\ at[r] = -1
           /\ \E n \in 0 .. size : at' = [at EXCEPT ![r] = n]
           /\ UNCHANGED size
Close(r) == at' = [at EXCEPT ![r] = -1] /\ UNCHANGED size

Take(r) == /\ at[r] \in 0 .. size - 1
           /\ at' = [at EXCEPT ![r] = @ + 1]
           /\ UNCHANGED size

Next == Append \/ \E r \in Readers : Open(r) \/ Close(r) \/ Take(r)

Spec == Init /\ [][Next]_vars
=============================================================================
