CONSTANTS
    ByteLen = 64
    Counts = {128}
    MaxLive = 4
SPECIFICATION BitmapSpec
INVARIANTS ScanAsPromised
