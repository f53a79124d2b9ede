----------------------------- MODULE MCByteArray -----------------------------
(* ByteArray for TLC.                                                         *)
EXTENDS ByteArray

MCStrings == {<<>>, <<1>>, <<3, 1, 2>>}
MCInts == {0, 2, -2, 9}
=============================================================================
