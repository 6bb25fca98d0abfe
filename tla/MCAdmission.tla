----------------------------- MODULE MCAdmission -----------------------------
EXTENDS Admission, TLC

OneMaterial == {"milk"}
TwoDrinks == [p \in {"latte", "special"} |-> [m \in OneMaterial |-> 1]]
Stocked(n) == [m \in OneMaterial |-> n]
One == Stocked(1)
LatteRepriced == [p \in {"latte", "special"} |-> IF p = "latte" THEN 2 ELSE 1]
ClientSymmetry == Permutations(Clients)
KeySymmetry == Permutations(Keys)
BothSymmetry == ClientSymmetry \cup KeySymmetry
=============================================================================
