--------------------------- MODULE MCPageService ---------------------------
(* Instances of PageService for TLC. *)
EXTENDS PageServiceInv, TLC

CONSTANTS w1, w2, w3, r1, uA, uB

OneUnit == [c \in Clients |-> {uA}]
ReaderOfBoth == [c \in Clients |-> IF c = w1 THEN {uA}
                                   ELSE IF c = w2 THEN {uB} ELSE {uA, uB}]
WriterElsewhere == [c \in Clients |-> IF c = w1 THEN {uA} ELSE {uB}]

WriterSymmetry == Permutations(Writers)

(* Everywhere but in the busy wait of GetPage. *)
NotInGetPage == Locations \ {"off", "dead", "spin"}
Anywhere == Locations \ {"off", "dead"}
(* With a page, or just having got one. *)
WithAPage == {"ready", "loaded"}
OnlyInGetPage == {"spin"}
=============================================================================
