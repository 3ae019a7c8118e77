\* percentEncode against the RFC 3986 encoding of the same bytes.
CONSTANTS
  Chars <- MCChars
  MaxLen = 2
  Encs <- MCEncs
  BigEndian = FALSE
  SizeBits = 16
  ByteVals <- MCByteVals
  HexInputs <- MCHexInputs
  DecodeInputs <- MCDecodeInputs

SPECIFICATION Spec

INVARIANT EncodeMatchesReference
