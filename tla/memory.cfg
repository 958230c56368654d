SPECIFICATION Spec
CONSTANTS
  Programs <- AllPrograms
  Requests <- Sizes
  MaxLive = 3
  MaxLeaked = 1
  Slab = 4
  Slabs = 8
  SmallMax = 2
  LargeMax = 4
  HeapPage = 2
  Pool = 2
  OwnEnd = 12
  Pages = 5
  Lengths = {1, 2}
INVARIANT NothingOverlaps
INVARIANT HeapAccounted
INVARIANT RoomIsFound
