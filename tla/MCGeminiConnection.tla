------------------------- MODULE MCGeminiConnection -------------------------
(* GeminiConnection with a limit of three bytes, so a buffer of five. The  *)
(* streams: requests of no, one and three bytes, one byte too many, no     *)
(* terminator, halves of terminators before and in place of the real one,  *)
(* and bytes behind it.                                                    *)
EXTENDS GeminiConnection

MCStreams ==
    { <<"CR", "LF">>,
      <<"x", "CR", "LF">>,
      <<"x", "x", "x", "CR", "LF">>,
      <<"x", "x", "x", "x", "CR", "LF">>,
      <<"x", "x", "x", "x", "x">>,
      <<"CR", "x", "LF">>,
      <<"x", "CR", "CR", "LF">>,
      <<"x", "LF", "CR", "LF">>,
      <<"x", "CR", "LF", "x">> }

MCBody == <<"b1", "b2", "b3">>
=============================================================================
