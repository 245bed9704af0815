---------------------------- MODULE MCTetherSync ----------------------------
(* Instances of TetherSync for TLC: one or two clients, a and b, with the     *)
(* bounds of each in the order a, b.                                         *)
EXTENDS TetherSync

CONSTANTS a, b

For(x, y) == [c \in Clients |-> IF c = a THEN x ELSE y]

Ranks12 == For({1}, {2})
Ranks13x2 == For({1, 3}, {2})

B11 == For(1, 1)
B12 == For(1, 2)
B20 == For(2, 0)
B22 == For(2, 2)
B21 == For(2, 1)
B30 == For(3, 0)
B02 == For(0, 2)
=============================================================================
