------------------------------ MODULE MCSales ------------------------------
EXTENDS Sales
CONSTANTS o1, o2, u1, u2, other, vendor, QUALIFICATION

Cents(amount, tax, discount) ==
    [f \in Fields |-> CASE f = "amount" -> amount [] f = "tax" -> tax [] f = "discount" -> discount [] OTHER -> 0]

Figures == {Cents(3, 0, 0), Cents(4, 50, 2)}

\* An update sends the amount, or the discount, or neither.
Changes == {[f \in {"amount"} |-> 2], [f \in {"discount"} |-> 2], [f \in {} |-> 0]}
Amounts == {-1, 1, 2}
=============================================================================
