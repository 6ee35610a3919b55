\* Was every latency the planner reads measured?
CONSTANT Samples = 1
SPECIFICATION Spec
INVARIANT RttIsMeasured
