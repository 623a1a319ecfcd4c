\* One queue, two receive threads, two lanes with two items and one response
\* buffer each, three requests.
CONSTANTS
  r1 = r1
  r2 = r2
  r3 = r3
  Queues = {q1}
  Threads = {t1, t2}
  WarpSize = 2
  Nums = 4
  BufNum = 2
  Requests = {r1, r2, r3}
  Pages = {"index", "contacts"}
  PageOf <- TwoPages
  NoRequest = NoRequest
SPECIFICATION FairSpec
INVARIANTS TypeOK AnswersRight LanesDisjoint
PROPERTY ReadyIsAnswered
\* The requests run out, and exit_cond stops the kernels.
CHECK_DEADLOCK FALSE
