SPECIFICATION Spec
CONSTANTS
  Threads = {t1, t2}
  Apps = {a1, a2}
  Fds = {1, 2}
  Hosts = {h1, h2}
  NoThread = NoThread
  NoApp = NoApp
  NoRun = NoRun
  NoHost = NoHost
  NR_APP_LIMIT = 2
  BackoffSeconds = 1
  BackoffLimit = 1
  RefreshPeriod = 1
  MaxRuns = 1
  MaxFailed = 1
INVARIANTS NoSocketLeaks SoloIsServed SomeThreadRuns
