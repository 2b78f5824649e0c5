SPECIFICATION Spec
PROPERTY ManualIsKept
CHECK_DEADLOCK FALSE
CONSTANTS
  Ids = {"e", "zero", "d1", "d2"}
  Faces = {"d1", "d2"}
  Zero = "zero"
  Names = {"n1", "n2"}
  Bins <- MCBins
  SeedSets <- MCSeedSets
  Devices <- MCDevices
  MaxWrites = 3
  MaxStarts = 2
  PageFaces = {"f1", "f2"}
  MaxMounts = 2
  MaxCalls = 4
  MaxDrops = 2
  Pixels = {0, 1}
  MaxPackets = 2
  MaxCount = 2
  PaletteBytes = 1
  MaxPixels = 2
