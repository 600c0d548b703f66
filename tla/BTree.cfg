SPECIFICATION Spec
CONSTANT Workloads <- MCWorkloads
INVARIANTS ChainComplete FindsInserted Balanced
CHECK_DEADLOCK FALSE
