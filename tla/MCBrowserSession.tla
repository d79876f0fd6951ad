--------------------------- MODULE MCBrowserSession ---------------------------
(* BrowserSession on a small instance, with tokens and requests interchangeable. *)
EXTENDS BrowserSession, TLC

\* Local accounts last longer than the others.
Lifetimes == [p \in {"local", "oidc", "ldap"} |-> IF p = "local" THEN 2 ELSE 1]

Interchangeable == Permutations(Token) \union Permutations(Request)
===============================================================================
