------------------------------- MODULE MCWire -------------------------------
EXTENDS Wire

(* The payloads contain a beginning of a frame and a half of one; the      *)
(* noise has half a beginning.                                             *)
SomePayloads == {<<>>, <<102, 136, 8>>, <<102>>}
SomeNoises == {<<>>, <<102>>, <<136, 0, 102>>}
=============================================================================
