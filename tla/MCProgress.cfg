SPECIFICATION MCSpec
PROPERTIES WaitersProceed LockReturns PoolsProgress EmbeddingProgress
CHECK_DEADLOCK FALSE
