--------------------------- MODULE MCCatalogSchema ---------------------------
(***************************************************************************)
(* Catalogs for TLC: no tool, one with any two parameters and up to two    *)
(* triggers, or two, of up to one parameter each, the second with none or  *)
(* one.                                                                    *)
(***************************************************************************)
EXTENDS CatalogSchema

Tools(triggers, n) ==
    [triggers : triggers, params : BoundedSeq([list : BOOLEAN, required : BOOLEAN], n)]

MCCatalogs ==
    {<<>>} \cup {<<t>> : t \in Tools(0..2, 2)}
    \cup {<<t, u>> : t \in Tools({2}, 1), u \in Tools({0, 1}, 1)}
===============================================================================
