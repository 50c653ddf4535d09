SPECIFICATION Spec
CONSTANTS
  OVL_MAX_LINES = 3
  OVL_MAX_LINE_LEN = 4
  Texts <- MCTexts
  Widths = {0, 5, 17, 24, 32}
  Scales = {1, 2}
  ImgW = 40
  ImgH = 60
  OffsetX = 1
  OffsetY = 2
INVARIANTS
  LinesFit
