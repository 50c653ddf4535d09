SPECIFICATION JpegPathSpec
CONSTANTS
  Boxes = 1
  Clients = {c1}
  PipeFrames = 2
  NoJpeg = NoJpeg
  MaxJpegs = 3
  MaxPrints = 1
INVARIANTS
  ShownInOrder
  ConsumersAgree
  OverlayIsCurrent
