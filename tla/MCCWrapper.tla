----------------------------- MODULE MCCWrapper -----------------------------
(***************************************************************************)
(* Small instances of CWrapper for TLC.                                    *)
(***************************************************************************)
EXTENDS CWrapper

CONSTANTS tree, range

TreeObjects  == {tree}
RangeObjects == {range}
=============================================================================
