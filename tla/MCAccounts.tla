----------------------------- MODULE MCAccounts -----------------------------
(* Two requests at a time and three accounts: a and b follow and unfollow c, *)
(* whose account may be deleted and registered again while somebody pages    *)
(* through its followers, one at a time.  Clocks may differ or collide.      *)
EXTENDS Accounts

CONSTANTS r1, r2

User(id, name) == [id |-> id, name |-> name, email |-> name]
Ask(op, by, name) == [op |-> op, by |-> by, name |-> name, email |-> name]

MCRequests == {r1, r2}
MCFounders == {User(1, "a"), User(2, "b"), User(3, "c")}
MCStamps == {1, 2}
MCAsked == {Ask("follow", "a", "c"), Ask("unfollow", "a", "c"), Ask("follow", "b", "c"),
            Ask("follow", "c", "c"), Ask("followers", "c", "c"),
            Ask("follow", "a", "b"), Ask("following", "a", "a"),
            Ask("register", "c", "c")}
Symmetric == Permutations(MCRequests)
=============================================================================
