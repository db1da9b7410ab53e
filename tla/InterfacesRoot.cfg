SPECIFICATION InterfacesSpec
CONSTANTS
  Numbers <- MCNumbers
  Formats <- MCFormats
  ABIs <- MCABIs
  MaxDepth = 3
  Sizes <- MCSizes
  MaxSplits = 1
INVARIANT HandleOutlivesNotify
