\* One browser, two attempts at once, one change of the password.
CONSTANTS
  Browsers = {b1}
  Attempts = {a1, a2}
  Window = 1
  MaxFailures = 1
  Secrets = {1}
  Codes = {11}
  CodeCount = 1
  MaxPassword = 1
  MaxLost = 0
SPECIFICATION LoginSpec
PROPERTIES ChangedPasswordStays
CHECK_DEADLOCK FALSE
