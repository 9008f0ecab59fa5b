---------------------------- MODULE MCHTTPServer ----------------------------
\* One client sends requests of every kind, the other one never sends any.
EXTENDS HTTPServer, TLC

CONSTANTS c1, c2

AllAgainstSilent == (c1 :> Kinds) @@ (c2 :> {})
=============================================================================
