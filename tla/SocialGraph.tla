----------------------------- MODULE SocialGraph -----------------------------
(***************************************************************************)
(* What the users service promises about accounts and follows: an account  *)
(* joins or leaves as a whole, its name and email are its own, its id is   *)
(* never given again, and nobody follows himself or somebody who is gone.  *)
(***************************************************************************)
EXTENDS Integers

VARIABLES
    members,   \* the accounts: [id, name, email]
    edges,     \* who follows whom: <<id, id>>
    latest     \* the last id given

graphVars == <<members, edges, latest>>

GraphInit ==
    /\ \A a, b \in members : a # b => a.id # b.id /\ a.name # b.name /\ a.email # b.email
    /\ \A a \in members : a.id <= latest
    /\ \A e \in edges : e[1] # e[2] /\ \E a, b \in members : e = <<a.id, b.id>>

Join ==
    \E a \in members' \ members :
        /\ a.id > latest
        /\ latest' = a.id
        /\ \A b \in members : a.name # b.name /\ a.email # b.email
        /\ members' = members \cup {a}
        /\ edges' = edges

GoAway(a) ==
    /\ members' = members \ {a}
    /\ edges' = {e \in edges : a.id \notin {e[1], e[2]}}
    /\ latest' = latest

Connect(a, b) ==
    /\ a # b
    /\ edges' = edges \cup {<<a.id, b.id>>}
    /\ UNCHANGED <<members, latest>>

Disconnect(a, b) ==
    /\ edges' = edges \ {<<a.id, b.id>>}
    /\ UNCHANGED <<members, latest>>

GraphNext ==
    \/ Join
    \/ \E a \in members : GoAway(a)
    \/ \E a, b \in members : Connect(a, b) \/ Disconnect(a, b)

GraphSpec == GraphInit /\ [][GraphNext]_graphVars
=============================================================================
