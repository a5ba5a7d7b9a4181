SPECIFICATION Spec
CONSTANTS
  CR = CR
  LF = LF
  Semicolon = Semicolon
  Colon = Colon
  Name = Name
  First = First
  Second = Second
  Noise <- MCNoise
  z = z
  Extension = Extension
  x = x
  y = y
  Bytes <- MCBytes
  Uploads <- MCUploads
  MaxRead = 2
  MaxOffset = 5
INVARIANTS TypeOK NoFramingStored CutIsNoticed DamageIsNoticed UndisturbedAccepted RangesServeTheUpload
