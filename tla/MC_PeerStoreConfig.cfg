CONSTANTS
  IntBits = 7
  UintBits = 4
  DefaultShardCount = 4
  DecodeError = DecodeError
SPECIFICATION Spec
INVARIANT ShardIndexMatchesSpec
