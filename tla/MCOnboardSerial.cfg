CONSTANTS
  x1 = x1
  theirs = theirs
  Sessions = {s1}
  MemSessions = {m1}
  Conns = {c1}
  Scopes = {x1, x2}
  Customers = {theirs}
  Home = ours
  Customer <- MCCustomer
  Account <- MCAccount
  AuthDisabled = FALSE
  Slots = {h1}
  Adversity = {"reject", "crash", "store_error"}
  None = None
SPECIFICATION Spec
VIEW ButMirrors
INVARIANTS
  TypeOK
  ConsentBeforeAccess
  ConnectedWasLinked
  DisconnectRevokes
PROPERTIES
  ConnectedNeverForgotten
  DisconnectIsFinal
