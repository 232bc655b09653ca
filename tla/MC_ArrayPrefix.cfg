CONSTANTS
  Counts <- MCCounts
SPECIFICATION Spec
INVARIANT PrefixCoversHeader
