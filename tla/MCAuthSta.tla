----------------------------- MODULE MCAuthSta -----------------------------
(* Access points for the model checking of AuthSta *)
EXTENDS AuthSta

Ap(open, shared, chal, key) ==
    [ans |-> [a \in Algo |-> IF a = "open" THEN open ELSE shared],
     chal |-> chal, key |-> key]

\* An access point for open system only, and for shared key only: with the
\* station's key, with another key, and without a challenge text.
ApOpen == Ap("ok", "noalg", TRUE, TRUE)
ApShared == Ap("noalg", "ok", TRUE, TRUE)
ApWrongKey == Ap("noalg", "ok", TRUE, FALSE)
ApNoChallenge == Ap("noalg", "ok", FALSE, TRUE)
\* It refuses everything.
ApDeny == Ap("deny", "deny", TRUE, TRUE)

AllAps == {ApOpen, ApShared, ApWrongKey, ApNoChallenge, ApDeny}
OnlyWrongKey == {ApWrongKey}
=============================================================================
