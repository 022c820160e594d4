SPECIFICATION Spec
CONSTANTS
  MaxLen = 5
  Max = 15
INVARIANTS OnePlaceEach RoundTrip OrderDeterminesSwaps IntnUniform
