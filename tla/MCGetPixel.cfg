SPECIFICATION Spec
CONSTANTS
  width = 27
  height = 6
  stride = 28
  Responses <- MCResponses
  magic = PSF2_MAGIC
  PSF2_MAGIC = PSF2_MAGIC
  UINT32 = 65536
  glyphWidth = 9
  glyphHeight = 2
  numglyph = 2
  bytesperglyph = 4
  glyphs <- MCGlyphs
  Picture <- MCPicture
  scale = 2
  Rows = 2
  Columns = 2
  Characters = {3}
  Opaque <- Colors
  Styles <- MCStyles
  Pixels <- Touched
  Padding <- Pad
  Undrawn = Undrawn
  Memory <- LowMemory
  Unmapped = Unmapped
INVARIANT GetPixelReadsPixel
CHECK_DEADLOCK FALSE
