------------------------------- MODULE MCLogin -------------------------------
(* Two threads, two addresses and one user name, so that a request from one  *)
(* address uses up the budget of the name while one from the other verifies  *)
(* its password; every second check of a limiter evicts.                     *)
EXTENDS Login, TLC

CONSTANTS t1, t2, i, j, u, noBucket, noRequest

MCThreads == {t1, t2}
MCAddresses == {i, j}
MCNames == {u}
MCIds == MCAddresses \cup MCNames
MCLimiters == {"login_ip_limiter", "login_username_limiter"}
MCLimiterOf == [k \in MCIds |->
    IF k \in MCNames THEN "login_username_limiter" ELSE "login_ip_limiter"]
Symmetric == Permutations(MCThreads) \cup Permutations(MCAddresses)
=============================================================================
