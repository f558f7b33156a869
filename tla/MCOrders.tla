------------------------------ MODULE MCOrders ------------------------------
(* Small instances of Orders for TLC. *)
EXTENDS Orders

CONSTANTS s1, c1

Item(variant, quantity, unit_price, discount_value, tax_value) ==
  [variant |-> variant, quantity |-> quantity, unit_price |-> unit_price,
   discount_value |-> discount_value, tax_value |-> tax_value]

(* The last cart does not fit the columns of its totals. *)
MCContents == {{}, {Item("v1", 2, 6, 2, 4)},
               {Item("v1", 1, 6, 0, 2), Item("v2", 3, 4, 6, 0)},
               {Item("v1", 4, 6, 2, 0)}}

Adjustment(name, kind, value) == [name |-> name, kind |-> kind, value |-> value]

(* Three half cents are withheld, or five are added as well. *)
MCRulings == {{}, {Adjustment("withheld", "deduction", 3)},
              {Adjustment("withheld", "deduction", 3), Adjustment("delivery", "surcharge", 5)}}

MCCartOf == [u \in {s1} |-> c1]
=============================================================================
