\* What README.md:175-177 says of tokens passed through the environment.
CONSTANTS
  Tokens = {t1, t2}
  NoToken = notoken
  Never = never
  NoFile = nofile
  Burst = 2
SPECIFICATION Spec
INVARIANT EnvTokenHonoured
CHECK_DEADLOCK FALSE
