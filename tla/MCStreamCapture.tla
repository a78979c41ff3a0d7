-------------------------- MODULE MCStreamCapture --------------------------
(* Streams of two messages and a third that is cut, of three and a fourth   *)
(* that is cut, of one message and a length that is too short, and of one   *)
(* message that nearly fills the stream.                                    *)
EXTENDS StreamCapture

Sizes == {<<2, 1, 3>>, <<1, 1, 1, 2>>, <<1, 0, 3>>, <<5, 3>>}
Sendings == {<<0, 3>>, <<0, 4>>, <<2, 1>>, <<2, 3>>, <<3, 4>>, <<6, 3>>, <<7, 3>>}
============================================================================
