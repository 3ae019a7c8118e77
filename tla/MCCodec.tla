------------------------------ MODULE MCCodec ------------------------------
(***************************************************************************)
(* The codecs of util.cpp over strings of up to two characters: ASCII      *)
(* chars that are kept (A, a, ~) and escaped (space, %, +), and one        *)
(* character whose UTF-8 form takes two bytes.                             *)
(***************************************************************************)
EXTENDS Codec

\* ' ', '%', '+', 'A', 'a', '~', and U+00E9
MCChars == {32, 37, 43, 65, 97, 126, 233}

MCEncs == {"UTF8", "UTF16", "UTF32BE"}

\* '0', 'a', 'A' and 'g': a digit, a lower-case digit, an upper-case digit
\* decodeHex refuses, and a char that is no digit.
MCHexInputs == {48, 97, 65, 103}

\* The bytes whose hex digits are among '0' and 'a'.
MCByteVals == {0, 10, 160, 170}

\* Every RFC 3986 encoding of a string, and every string of up to two of
\* '%', '+', '4', 'A' and U+00E9: a '%' at the end, a '%' with one digit
\* after it, and a character the decoder sees as two bytes.
MCDecodeInputs ==
  {x.t : x \in Encodings}
    \cup BoundedSeq({37, 43, 52, 65, 233}, 2)

====
