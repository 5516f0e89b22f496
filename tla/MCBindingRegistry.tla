------------------------- MODULE MCBindingRegistry -------------------------
(* Small instances of BindingRegistry for TLC: names are model values.       *)
EXTENDS BindingRegistry
=============================================================================
