--------------------------- MODULE MCRecipeCosts ---------------------------
(* Small instances of RecipeCosts for TLC. *)
EXTENDS RecipeCosts, TLC

CONSTANTS x1, x2

MCLegacy == [c \in {"sauce"} |-> 2]

Empty == [there |-> {},
          price |-> [i \in Ingredients |-> Unknown],
          parts |-> [y \in Priced |-> {}],
          cost |-> [y \in Priced |-> 0]]

\* A pizza of sauce, sauce of base, base of tomato.
Pizza == [there |-> Things,
          price |-> [i \in Ingredients |-> 1],
          parts |-> ("pizza" :> {"sauce"} @@ "sauce" :> {"base"} @@ "base" :> {"tomato"}),
          cost |-> [y \in Priced |-> 1]]

MCCatalogues == {Empty, Pizza}
Symmetry == Permutations({x1, x2})
=============================================================================
