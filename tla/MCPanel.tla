------------------------------ MODULE MCPanel -------------------------------
EXTENDS Panel, TLC
CONSTANTS h1, h2, p1, p2, p3, u1, t1, t2

InstalledPrinters == <<[name |-> p1, feed |-> 1], [name |-> p2, feed |-> 1],
                       [name |-> p3, feed |-> 1]>>

MCInstalled == [url |-> u1, token |-> t1, default |-> p1, feed |-> 0,
                printers |-> InstalledPrinters]

Config(url, token, feed) ==
  [op |-> "config", url |-> url, token |-> token, feed |-> feed]

\* One request of each kind, and the bodies of config that take another way.
MCRequests ==
  {[op |-> "manage", name |-> p2, feed |-> MaxFeed + 1],
   [op |-> "remove", name |-> p1],
   [op |-> "default", name |-> p2],
   Config(u1, Absent, MaxFeed + 1), Config(None, t2, Absent),
   [op |-> "register", url |-> Absent, token |-> t2],
   [op |-> "unregister"]}
=============================================================================
