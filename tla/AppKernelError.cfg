\* Does the program end when a kernel reports an error.
CONSTANTS
  TcpThreads = {t1}
SPECIFICATION FairSpec
PROPERTY KernelErrorEndsApp
\* The program ends; or it waits for a thread that hangs.
CHECK_DEADLOCK FALSE
