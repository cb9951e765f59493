CONSTANTS
  LastPixel = 5
  Anchors = {"start"}
  RelPositions = {0, 1}
  Mouse <- MCMouse
  HalfWord = 32
  Far = 6
  Parent <- MCParent
  Decor <- MCDecor
  GripSize = 1
  MinSize = 2
  Start <- MCStart
  Resizable <- MCBoth
  NoGrab = NoGrab
SPECIFICATION Spec
INVARIANT TypeOK
 
INVARIANT TitleHeld
INVARIANT MinRespected
