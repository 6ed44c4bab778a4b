--------------------------------- MODULE MCKdb ---------------------------------
(***************************************************************************)
(* Two KDB builds of one design, forced or not, with one source edit.      *)
(***************************************************************************)
EXTENDS KdbBuilder

MCKdbInit == KdbInit([KdbCall -> BOOLEAN])
MCKdbSpec == MCKdbInit /\ [][KdbNext]_kdbVars
================================================================================
