SPECIFICATION Spec
CONSTANTS
  Orders <- MCOrders
  SpanSize = 2
  Draws <- MCDraws
  MaxOnions = 3
  Batches <- MCBatches
INVARIANTS Delivered BatchConserved UniformReplies CountsRight PanicOnlyOnRejects
