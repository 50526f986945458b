----------------------------- MODULE Arithmetic -----------------------------
(***************************************************************************)
(* The arithmetic the services do with Decimal values, on integers that    *)
(* count the units of the last decimal place.                              *)
(***************************************************************************)
EXTENDS Integers, Functions

\* quantize of the quotient a / b, with the default ROUND_HALF_EVEN.
RoundHalfEven(a, b) ==
    LET q == a \div b
        r == a % b
    IN  IF 2 * r > b \/ (2 * r = b /\ q % 2 = 1) THEN q + 1 ELSE q

\* A loop that multiplies the values f has on a set, starting from one.
Product(f, S) == FoldFunctionOnSet(LAMBDA a, b : a * b, 1, f, S)
=============================================================================
