----------------------------- MODULE BigNumbers -----------------------------
(* The integers of the SDK, BN: a division truncates toward zero, a root is  *)
(* rounded down (math/utils.ts).                                             *)
EXTENDS Integers

Lesser(a, b) == [x, y \in Int |-> IF x =< y THEN x ELSE y][a, b]
Greater(a, b) == [x, y \in Int |-> IF x >= y THEN x ELSE y][a, b]
Abs(a) == [x \in Int |-> IF x >= 0 THEN x ELSE -x][a]

(* BN.div and divCeil.                                                      *)
Quotient == [a, b \in Int |->
    (IF (a >= 0) = (b >= 0) THEN 1 ELSE -1) * (Abs(a) \div Abs(b))]
Div(a, b) == Quotient[a, b]
DivCeil(a, b) == Div(a, b) + (IF a % b > 0 /\ a > 0 THEN 1 ELSE 0)

(* From the root of a quarter.                                              *)
squareRootBN(n) ==
    LET Root[m \in 0 .. n] ==
            IF m < 2 THEN m
            ELSE LET small == 2 * Root[m \div 4]
                 IN IF (small + 1) * (small + 1) > m THEN small ELSE small + 1
    IN Root[n]
=============================================================================
