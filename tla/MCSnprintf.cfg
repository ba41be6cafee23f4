SPECIFICATION SnprintfSpec
CONSTANTS
 Formats <- MCFormats
 BufferSizes = {0,3,6}
 SizeMod = 64
INVARIANT ReturnsLength
CHECK_DEADLOCK FALSE
