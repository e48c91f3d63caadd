-------------------------- MODULE MCRegisterCodec --------------------------
(* A small instance of RegisterCodec for TLC.                               *)
EXTENDS RegisterCodec

\* With one character there is just room for a number, with three for one more.
MCStrings == {<<>>, <<65>>, <<67, 67>>, <<66, 67, 66>>}

\* Bytes that are all different.
MCNumbers == {16909060}
=============================================================================
