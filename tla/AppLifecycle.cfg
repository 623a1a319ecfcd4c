\* Two TCP threads, with and without the HTTP server.
CONSTANTS
  TcpThreads = {t1, t2}
SPECIFICATION FairSpec
INVARIANTS TypeOK TeardownQuiet FlagFits
PROPERTIES StopsOnlyWhenAsked QuitEndsApp
\* The program ends; or it waits for a thread that hangs.
CHECK_DEADLOCK FALSE
