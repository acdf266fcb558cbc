SPECIFICATION AccessSpec
CONSTANTS
  Accounts = {a, u}
  Admins = {a}
  SignIns = {r1, r2}
  AccessTokens = {t1, t2}
  Sockets = {s1}
  Nobody = Nobody
INVARIANT SocketsAreForgotten
PROPERTY OutStaysOut
PROPERTY AccessEnds
