----------------------------- MODULE MCReceiver -----------------------------
EXTENDS Receiver

(* Texts of every length, told apart by their bytes.                       *)
SomeTexts == {<<>>, <<1>>, <<2, 2>>, <<3, 1, 2>>}
=============================================================================
