---------------------------- MODULE MCIncexcRecv ----------------------------
(* Three data frames of up to two characters each.  The buffer passed in  *)
(* is NULL, or what an earlier exchange left: a line that does not parse, *)
(* or a good line cut off before its '\n'.                                *)
EXTENDS IncexcRecv

MCLeftovers == {Null, <<"y">>, <<"x">>}
====
