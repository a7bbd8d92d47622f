SPECIFICATION Spec
CONSTANTS
  Passwords = {right, wrong}
  Salts = {s1, s2}
  Wallets = {a, b}
  Readers = {engine}
  Requests = {q1, q2}
  Nothing = Nothing
  Torn = Torn
INVARIANTS TypeOK SecretsOpen CacheIsOfWallet
