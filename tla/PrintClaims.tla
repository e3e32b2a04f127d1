---------------------------- MODULE PrintClaims -----------------------------
(***************************************************************************)
(* What the comments say of the ways to print and the code does not keep.  *)
(***************************************************************************)
EXTENDS PrintPath

\* server.go:349-351 and tray_windows.go:149-150: the test of the panel and the one
\* of the tray share PrintTestPage "para que se comporten igual".  The tray hands it
\* the configuration the process loaded, so a kind changed in the panel is not seen
\* by the tray until a restart.
TrayTestsLikePanel ==
  LET pr == print["tray"] IN
  pr.at \in {"profile", "mode"} =>
    \E n \in DOMAIN conf : During(pr, n) /\ pr.own = Fallback(conf[n], pr.printer)
=============================================================================
