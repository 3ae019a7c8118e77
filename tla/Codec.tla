------------------------------- MODULE Codec -------------------------------
(***************************************************************************)
(* The byte codecs of util.cpp: hexEncode/hexDecode, and percentEncode/    *)
(* percentDecode with the character loops they run over a C buffer.        *)
(*                                                                         *)
(* Bytes are naturals 0..255 and a string is the sequence of its code      *)
(* points.  The hex functions are operators.  The percent loops are        *)
(* stepped one iteration per action, with the length counter of the C      *)
(* code kept as an unsigned Size of SizeBits bits, so that its wrap-around *)
(* below zero is part of the model.                                        *)
(***************************************************************************)
EXTENDS Integers, Sequences, SequencesExt

CONSTANTS
  Chars,       \* the code points strings are made of
  MaxLen,      \* the longest string passed to a codec
  Encs,        \* the String::Encoding values passed to the percent codecs
  BigEndian,   \* endian() == BIG on the host
  SizeBits,    \* the width of Size
  ByteVals,    \* the bytes hex-encoded
  HexInputs,   \* the code points of the strings hex-decoded
  DecodeInputs \* the strings percent-decoded

ASSUME /\ Chars \subseteq 1..65535 /\ MaxLen \in Nat
       /\ Encs \subseteq {"UTF8", "UTF16", "UTF16BE", "UTF16LE",
                          "UTF32", "UTF32BE", "UTF32LE"}
       /\ BigEndian \in BOOLEAN /\ SizeBits \in 8..30
       /\ ByteVals \subseteq 0..255 /\ HexInputs \subseteq 0..127

\* Buffer::null() and String::null(): a sequence no codec produces.
Null == <<-1>>

SizeMax == 2^SizeBits - 1
Dec(x) == IF x = 0 THEN SizeMax ELSE x - 1     \* x-- on a Size
Sub2(x) == (x - 2) % (SizeMax + 1)             \* x -= 2 on a Size

(***************************************************************************)
(* Strings and their bytes: Buffer::create(str, enc) and                   *)
(* String::create(data, enc, len) for the code points of Chars (no         *)
(* surrogates).                                                            *)
(***************************************************************************)
BE(cp, n) == [k \in 1..n |-> (cp \div 2^(8 * (n - k))) % 256]
LE(cp, n) == [k \in 1..n |-> (cp \div 2^(8 * (k - 1))) % 256]

UTF8(cp) ==
  IF cp < 128 THEN <<cp>>
  ELSE IF cp < 2048 THEN <<192 + cp \div 64, 128 + (cp % 64)>>
  ELSE <<224 + cp \div 4096, 128 + ((cp \div 64) % 64), 128 + (cp % 64)>>

\* UTF16 and UTF32 are the host's byte order (percentEncode, 326-359).
CharBytes(cp, enc) ==
  CASE enc = "UTF8" -> UTF8(cp)
    [] enc = "UTF16BE" \/ (enc = "UTF16" /\ BigEndian) -> BE(cp, 2)
    [] enc = "UTF16LE" \/ (enc = "UTF16" /\ ~BigEndian) -> LE(cp, 2)
    [] enc = "UTF32BE" \/ (enc = "UTF32" /\ BigEndian) -> BE(cp, 4)
    [] OTHER -> LE(cp, 4)

StrBytes(s, enc) == FlattenSeq([i \in 1..Len(s) |-> CharBytes(s[i], enc)])

\* The string whose bytes are b, or Null when no string of Chars has them.
RECURSIVE BytesStr(_, _)
BytesStr(b, enc) ==
  IF b = <<>> THEN <<>>
  ELSE LET cs == {c \in Chars : IsPrefix(CharBytes(c, enc), b)}
       IN  IF cs = {} THEN Null
           ELSE LET c == CHOOSE x \in cs : TRUE
                    rest == BytesStr(SubSeq(b, Len(CharBytes(c, enc)) + 1, Len(b)), enc)
                IN  IF rest = Null THEN Null ELSE <<c>> \o rest

Strings == BoundedSeq(Chars, MaxLen)
HexStrings == BoundedSeq(HexInputs, 2 * MaxLen)
ByteStrings == BoundedSeq(ByteVals, MaxLen)

(***************************************************************************)
(* hexEncode (52-79) and hexDecode (81-121).                               *)
(***************************************************************************)
HexDigitUpper(v) == IF v < 10 THEN v + 48 ELSE v - 10 + 65
HexDigit(v) == IF v < 10 THEN v + 48 ELSE v - 10 + 97

HexEncode(b) == FlattenSeq([i \in 1..Len(b) |-> <<HexDigit(b[i] \div 16), HexDigit(b[i] % 16)>>])

\* decodeHex: the value of a lower-case hex digit, -1 for any other char.
DecodeHexUpper(c) ==
  IF c >= 48 /\ c <= 57 THEN c - 48
  ELSE IF c >= 97 /\ c <= 102 THEN c - 97 + 10
  ELSE IF c >= 65 /\ c <= 70 THEN c - 65 + 10 ELSE -1
DecodeHex(c) ==
  IF c >= 48 /\ c <= 57 THEN c - 48
  ELSE IF c >= 97 /\ c <= 102 THEN c - 97 + 10 ELSE -1

\* An odd length, or any pair with a char that is not a digit, gives null.
HexDecode(t) ==
  IF Len(t) % 2 = 1 THEN Null
  ELSE IF \E i \in 1..Len(t) : DecodeHex(t[i]) < 0 THEN Null
  ELSE [i \in 1..Len(t) \div 2 |-> DecodeHex(t[2 * i - 1]) * 16 + DecodeHex(t[2 * i])]

(***************************************************************************)
(* percentEncode and percentDecode.  A call converts its argument, runs    *)
(* the static C loop one iteration per step, and makes the result string.  *)
(***************************************************************************)
VARIABLES
  fn,       \* the loop running: "idle", "encode" or "decode"
  arg,      \* [op, s, enc]: the call being made or last made
  src,      \* the bytes of the source C string
  i,        \* the position of source in src (src[Len(src)+1] is its NUL)
  out,      \* the chars written to the output buffer, NUL excluded
  room,     \* encodedLength / decodedLength, a Size
  cap,      \* the chars allocated for the output buffer
  result,   \* the string returned by the last call
  overread  \* the decoder has read past the NUL of its source

vars == <<fn, arg, src, i, out, room, cap, result, overread>>

\* What the decoder finds past the NUL of its source: any byte.
Garbage == {0, 37, 65}

Init ==
  /\ fn = "idle" /\ arg = [op |-> "none", s |-> <<>>, enc |-> "UTF8"]
  /\ src = <<>> /\ i = 1 /\ out = <<>> /\ room = 0 /\ cap = 0
  /\ result = <<>> /\ overread = FALSE

\* The loop's condition on a char of the static percentEncode (269-275).
Unreserved(b) ==
  \/ b >= 65 /\ b <= 90
  \/ b >= 97 /\ b <= 122
  \/ b >= 48 /\ b <= 57
  \/ b \in {45, 46, 95, 126}

\* hexCharFromValue (248-254).
HexCharFromValue(v) == IF v >= 16 THEN 48 ELSE HexDigitUpper(v)

\* valueFromHexChar (236-246): an invalid char counts as 0.
ValueFromHexCharLower(c) ==
  IF c >= 48 /\ c <= 57 THEN c - 48
  ELSE IF c >= 97 /\ c <= 102 THEN c - 97 + 10 ELSE 0
ValueFromHexChar(c) ==
  IF c >= 48 /\ c <= 57 THEN c - 48
  ELSE IF c >= 65 /\ c <= 70 THEN c - 65 + 10
  ELSE IF c >= 97 /\ c <= 102 THEN c - 97 + 10 ELSE 0

\* A call that returns without running a loop: the loop's state is gone.
Returns(r) ==
  /\ result' = r /\ src' = <<>> /\ i' = 1 /\ out' = <<>> /\ room' = 0
  /\ cap' = 0 /\ overread' = FALSE /\ UNCHANGED fn

\* hexEncode(buf) (52-62): null for a null buffer, "" for an empty one.
HexEncodeCall ==
  /\ fn = "idle"
  /\ \E b \in ByteStrings \cup {Null} :
       /\ arg' = [op |-> "hexEncode", s |-> b, enc |-> "UTF8"]
       /\ Returns(IF b = Null THEN Null ELSE HexEncode(b))

\* hexDecode(str) (115-117): null for a null string.
HexDecodeCall ==
  /\ fn = "idle"
  /\ \E t \in HexStrings \cup {Null} :
       /\ arg' = [op |-> "hexDecode", s |-> t, enc |-> "UTF8"]
       /\ Returns(IF t = Null THEN Null ELSE HexDecode(t))

EncodeBufferLenTwice(n) == n * 2 + 1
EncodeBufferLen(n) == n * 3 + 1

\* percentEncode(str, enc) (319-368): an empty string returns at once;
\* otherwise the bytes of str in enc, a buffer of sourceLen * 3 + 1 chars,
\* and the loop's encodedLength-- before its first test (266).
PercentEncodeCall ==
  /\ fn = "idle"
  /\ \E s \in Strings, enc \in Encs :
       /\ arg' = [op |-> "encode", s |-> s, enc |-> enc]
       /\ IF s = <<>>
            THEN Returns(<<>>)
            ELSE LET b == StrBytes(s, enc)
                 IN  /\ fn' = "encode" /\ src' = b /\ i' = 1 /\ out' = <<>>
                     /\ cap' = EncodeBufferLen(Len(b))
                     /\ room' = Dec(EncodeBufferLen(Len(b)))
                     /\ result' = <<>> /\ overread' = FALSE

EncodeLoops == i <= Len(src) /\ room # 0

\* The loop leaves with the chars written; String::create(encoded) takes
\* them up to the NUL.
EncodeDone(o) == fn' = "idle" /\ out' = o /\ result' = o

EncodeUnreserved ==
  /\ fn = "encode" /\ EncodeLoops /\ Unreserved(src[i])
  /\ out' = Append(out, src[i]) /\ i' = i + 1 /\ room' = Dec(room)
  /\ UNCHANGED <<fn, arg, src, cap, result, overread>>

\* '%' and two digits, each digit after a --encodedLength that breaks out
\* of the loop at zero; then encodedLength -= 2 and the loop's -- (278-286).
EncodeEscape ==
  /\ fn = "encode" /\ EncodeLoops /\ ~Unreserved(src[i])
  /\ LET o1 == Append(out, 37)
         o2 == Append(o1, HexCharFromValue(src[i] \div 16))
         o3 == Append(o2, HexCharFromValue(src[i] % 16))
     IN  CASE Dec(room) = 0 -> EncodeDone(o1) /\ UNCHANGED <<i, room>>
           [] Dec(Dec(room)) = 0 -> EncodeDone(o2) /\ UNCHANGED <<i, room>>
           [] OTHER -> /\ out' = o3 /\ i' = i + 1
                       /\ room' = Dec(Sub2(Dec(Dec(room))))
                       /\ UNCHANGED <<fn, result>>
  /\ UNCHANGED <<arg, src, cap, overread>>

EncodeEnd ==
  /\ fn = "encode" /\ ~EncodeLoops
  /\ EncodeDone(out)
  /\ UNCHANGED <<arg, src, i, room, cap, overread>>

\* percentDecode(str, enc) (370-376): an empty string returns at once;
\* otherwise a buffer of str->length() + 1 chars over the UTF-8 bytes of
\* str (toStdString), and the loop's decodedLength-- (299).
PercentDecodeCall ==
  /\ fn = "idle"
  /\ \E s \in DecodeInputs, enc \in Encs :
       /\ arg' = [op |-> "decode", s |-> s, enc |-> enc]
       /\ IF s = <<>>
            THEN Returns(<<>>)
            ELSE /\ fn' = "decode" /\ src' = StrBytes(s, "UTF8") /\ i' = 1
                 /\ out' = <<>> /\ cap' = Len(s) + 1 /\ room' = Dec(Len(s) + 1)
                 /\ result' = <<>> /\ overread' = FALSE

\* *(source + k): the source's bytes, its NUL, then whatever follows.
At(k, g) ==
  IF i + k <= Len(src) THEN src[i + k]
  ELSE IF i + k = Len(src) + 1 THEN 0 ELSE g[k]

\* The bytes past the NUL that the next three reads may meet.
Unknown ==
  IF i + 2 <= Len(src) + 1 THEN {[k \in 0..2 |-> 0]} ELSE [0..2 -> Garbage]

\* String::create(decoded, enc, n) with n = size, size >> 1 or size >> 2
\* units of enc (378-395).
Units(enc) == CASE enc = "UTF8" -> 1
                [] enc \in {"UTF16", "UTF16BE", "UTF16LE"} -> 2
                [] OTHER -> 4
DecodedString(o, enc) ==
  BytesStr(SubSeq(o, 1, (Len(o) \div Units(enc)) * Units(enc)), enc)

DecodeDone(o) ==
  /\ fn' = "idle" /\ out' = o /\ result' = DecodedString(o, arg.enc)

\* The loop's test on decodedLength (300): the other half of its condition,
\* *source, is read in the actions.
DecodeLoopsUnbounded == TRUE
DecodeLoops == room # 0

\* One pass of the loop (300-315): "%XY" is one byte, unless the '%' is
\* followed by the NUL; '+' is a space; any other byte is copied.  After
\* "%X" at the end of the source the third char read is the NUL and the
\* next read is past it.
DecodeStep ==
  /\ fn = "decode" /\ DecodeLoops
  /\ \E g \in Unknown :
       /\ At(0, g) # 0
       /\ LET reads == CASE At(0, g) # 37 -> 0 [] At(1, g) = 0 -> 1 [] OTHER -> 2
          IN  overread' = (overread \/ i + reads > Len(src) + 1)
       /\ IF At(0, g) = 37 /\ At(1, g) = 0
            THEN DecodeDone(out) /\ UNCHANGED <<i, room>>
            ELSE /\ out' = Append(out,
                       CASE At(0, g) = 37 ->
                              (ValueFromHexChar(At(1, g)) * 16
                                 + ValueFromHexChar(At(2, g))) % 256
                         [] At(0, g) = 43 -> 32
                         [] OTHER -> At(0, g))
                 /\ i' = i + (IF At(0, g) = 37 THEN 3 ELSE 1)
                 /\ room' = Dec(room)
                 /\ UNCHANGED <<fn, result>>
  /\ UNCHANGED <<arg, src, cap>>

DecodeEnd ==
  /\ fn = "decode"
  /\ \E g \in Unknown :
       /\ ~DecodeLoops \/ At(0, g) = 0
       /\ overread' = (overread \/ i > Len(src) + 1)
  /\ DecodeDone(out)
  /\ UNCHANGED <<arg, src, i, room, cap>>

Next ==
  \/ HexEncodeCall \/ HexDecodeCall
  \/ PercentEncodeCall \/ EncodeUnreserved \/ EncodeEscape \/ EncodeEnd
  \/ PercentDecodeCall \/ DecodeStep \/ DecodeEnd

Spec == Init /\ [][Next]_vars

(***************************************************************************)
(* Reference definitions: RFC 3986 percent-encoding of the bytes of a      *)
(* string, and the bytes a hex string stands for.                          *)
(***************************************************************************)
RfcUnreserved == (65..90) \cup (97..122) \cup (48..57) \cup {45, 46, 95, 126}
RfcHex(v) == IF v < 10 THEN 48 + v ELSE 55 + v
RfcHexLower(v) == IF v < 10 THEN 48 + v ELSE 87 + v

RefHexEncode(b) ==
  FlattenSeq([k \in 1..Len(b) |->
    <<RfcHexLower(b[k] \div 16), RfcHexLower(b[k] % 16)>>])

RefEncode(s, enc) ==
  LET b == StrBytes(s, enc)
  IN  FlattenSeq([k \in 1..Len(b) |->
        IF b[k] \in RfcUnreserved THEN <<b[k]>>
        ELSE <<37, RfcHex(b[k] \div 16), RfcHex(b[k] % 16)>>])


\* Every string with its encoding in every encoding.
Encodings ==
  {[s |-> s, enc |-> e, t |-> RefEncode(s, e)] : s \in Strings, e \in Encs}

\* hexEncode writes two lower-case digits per byte, and hexDecode inverts
\* it and nothing else: it returns the bytes b exactly for the strings
\* hexEncode(b) produces, and null for every other string, one with an
\* upper-case digit included (hexEncode 64-79, decodeHex 81-93, hexDecode
\* 95-113).
HexCodec ==
  /\ arg.op = "hexEncode" /\ arg.s # Null => result = RefHexEncode(arg.s)
  /\ arg.op = "hexDecode" /\ arg.s # Null =>
       result = IF \E b \in ByteStrings : RefHexEncode(b) = arg.s
                  THEN CHOOSE b \in ByteStrings : RefHexEncode(b) = arg.s
                  ELSE Null

\* The encoder writes its chars and the closing NUL inside the buffer of
\* sourceLen * 3 + 1 chars it allocated (percentEncode 362-363, 276-288),
\* even when encodedLength -= 2 wraps below zero.
EncodeWithinBuffer ==
  (fn = "encode" \/ (arg.op = "encode" /\ arg.s # <<>>)) => Len(out) + 1 <= cap

\* The decoder writes inside its buffer of str->length() + 1 chars
\* (percentDecode 374-376, 299-316) even after "%X" at the end of its
\* source has sent it reading past the NUL (util.cpp:306): only
\* decodedLength stops it then.
DecodeWithinBuffer ==
  (fn = "decode" \/ (arg.op = "decode" /\ arg.s # <<>>)) => Len(out) + 1 <= cap

\* percentDecode gives back the string whose RFC 3986 encoding it is given,
\* in every encoding: the digits of "%XY" are read in either case
\* (valueFromHexChar 236-246) and the bytes are cut to whole units of enc
\* (378-395).
DecodeInvertsEncoding ==
  fn = "idle" /\ arg.op = "decode" =>
    \A x \in Encodings : x.t = arg.s /\ x.enc = arg.enc => result = x.s

\* percentEncode returns the RFC 3986 encoding of the bytes of its string:
\* every byte outside the unreserved set as '%' and two upper-case digits
\* (percentEncode 256-290, whose countdown of encodedLength may stop the
\* loop in the middle of an escape).
EncodeMatchesReference ==
  fn = "idle" /\ arg.op = "encode" => result = RefEncode(arg.s, arg.enc)

====
