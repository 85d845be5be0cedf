CONSTANTS
  max_packet_size = 4
  Client_compression_threshold = 2
  Header = 1
  Sizes = {0, 1, 2, 3, 4, 6}
  CompressedSizes = {1, 3, 4}
  Algorithms = {"none", "stream", "message"}
  MaxMessages = 3
  MaxBatch = 2
  MaxLinks = 2
SPECIFICATION Spec
INVARIANTS HeardAsWritten GotAsAnswered
CHECK_DEADLOCK FALSE
