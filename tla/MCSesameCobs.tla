---------------------------- MODULE MCSesameCobs ----------------------------
(* Frames of two bytes, and messages that fill one, just exceed one, hold    *)
(* delimiters, and bytes that look like overhead.                          *)
EXTENDS SesameCobs

MCContents == {<<1>>, <<0>>, <<1, 2>>, <<3, 0>>, <<1, 0, 3>>, <<2, 1, 0>>, <<1, 1, 1>>}
=============================================================================
