\* Two queues whose warps take their responses from the same buffers.
CONSTANTS
  r1 = r1
  r2 = r2
  r3 = r3
  Queues = {q1, q2}
  Threads = {t1}
  WarpSize = 1
  Nums = 2
  BufNum = 2
  Requests = {r1, r2}
  Pages = {"index"}
  PageOf <- Pair
  NoRequest = NoRequest
SPECIFICATION Spec
INVARIANT OwnBuffers
\* The requests run out, and exit_cond stops the kernels.
CHECK_DEADLOCK FALSE
