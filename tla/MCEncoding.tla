----------------------------- MODULE MCEncoding -----------------------------
(***************************************************************************)
(* Small instances of Encoding for TLC: two bits to a digit.               *)
(***************************************************************************)
EXTENDS Encoding

(* All numbers of five bits, as of 64 in digits of seven: the last digit   *)
(* to be written is only partly used.                                      *)
AllNumbers == 0 .. 31

(* Bytes of an ID that are digits with and without the high bit.           *)
SomePrefixes == {<<>>, <<7>>, <<5, 2>>}
=============================================================================
