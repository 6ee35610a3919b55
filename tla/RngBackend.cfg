\* Three buffers, some without room and some bad, a quota of two bytes in two
\* ticks, chunks of two bytes through a FIFO of one.
CONSTANTS
  Period = 2
  MaxBytes = 2
  Chunk = 2
  FifoBytes = 1
  FileBytes = 1
  Lengths = {0, 3}
  BadLengths = {3}
  MaxPosts = 3
SPECIFICATION FairSpec
INVARIANTS TypeOK RateIsBounded NothingForgotten NoEmptyEntropy
PROPERTIES RequestsEnd StallsEnd
