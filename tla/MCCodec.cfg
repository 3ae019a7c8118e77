\* hexEncode/hexDecode and the percent codecs of util.cpp.
CONSTANTS
  Chars <- MCChars
  MaxLen = 2
  Encs <- MCEncs
  BigEndian = FALSE
  SizeBits = 16
  ByteVals <- MCByteVals
  HexInputs <- MCHexInputs
  DecodeInputs <- MCDecodeInputs

SPECIFICATION Spec

INVARIANT HexCodec
INVARIANT EncodeWithinBuffer
INVARIANT DecodeWithinBuffer
INVARIANT DecodeInvertsEncoding
