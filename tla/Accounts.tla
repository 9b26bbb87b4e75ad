------------------------------- MODULE Accounts -------------------------------
(***************************************************************************)
(* Registration, follows and their listings in the users service           *)
(* (services/users/app/routers).  A request is several statements of a     *)
(* READ COMMITTED transaction: it looks its caller up, then its target,    *)
(* and writes last, while other requests and deletions commit in between.  *)
(* An insert has no effect before its commit and waits for the other       *)
(* inserts that could refuse it, so an insert and its commit are one step. *)
(***************************************************************************)
EXTENDS Integers, Sequences, FiniteSets, SequencesExt

CONSTANTS
    Requests,    \* requests being served at the same time
    Asked,       \* what clients ask for: [op, by, name, email]
    Founders,    \* the accounts of the initial state
    PageSize,    \* the limit of a listing
    Stamps,      \* created_at, by the clocks of the pods
    MaxId,       \* bound: ids given
    MaxPassed,   \* bound: changes that a listing may meet where it has passed
    NoUser       \* the absence of an account

Ops == {"register", "follow", "unfollow", "followers", "following"}
Ids == Nat \ {0}
Names == {a.name : a \in Asked \cup Founders}
Emails == {a.email : a \in Asked \cup Founders}
Users == [id : Ids, name : Names, email : Emails]
Follows == [follower : Ids, followed : Ids, at : Stamps]

Working == {"authenticating", "finding", "acting", "refreshing"}
Answers == {"ok", "denied", "unknown", "taken", "error"}

ASSUME AccountsAssumption ==
    /\ MaxId \in Nat
    /\ MaxPassed \in Nat
    /\ PageSize \in Nat \ {0}
    /\ Stamps \subseteq Nat
    /\ Asked \subseteq [op : Ops, by : Names, name : Names, email : Emails]
    /\ Founders \subseteq Users
    /\ Cardinality(Founders) \in Nat
    /\ \A a \in Founders : a.id <= Cardinality(Founders)
    /\ \A a, b \in Founders : a # b => a.id # b.id /\ a.name # b.name /\ a.email # b.email
    /\ NoUser \notin Users

VARIABLES
    users,      \* the table users
    follows,    \* the table follows
    lastId,     \* the last id given
    phase,      \* what each request is at, or its answer
    asked,      \* what it asks for
    caller,     \* current_user
    target,     \* the user it has looked up
    gone,       \* history: whether an account it names was absent meanwhile
    listed,     \* what a client has collected page by page
    steady,     \* history: what was there from its first request on
    skipped, shifted   \* history: how many follows went and came at offsets it had passed

tables == <<users, follows, lastId>>
request == <<phase, asked, caller, target>>
listing == <<listed, steady, skipped, shifted>>
accountsVars == <<tables, request, gone, listing>>

AccountsTypeOK ==
    /\ users \subseteq Users
    /\ follows \subseteq Follows
    /\ lastId \in Nat
    /\ phase \in [Requests -> Working \cup Answers]
    /\ asked \in [Requests -> Asked]
    /\ caller \in [Requests -> Users \cup {NoUser}]
    /\ target \in [Requests -> Users \cup {NoUser}]
    /\ gone \in [Requests -> BOOLEAN]

ListingTypeOK ==
    /\ listed \in [Requests -> Seq(Follows)]
    /\ steady \in [Requests -> SUBSET Follows]
    /\ skipped \in [Requests -> Nat]
    /\ shifted \in [Requests -> Nat]

AccountsInit ==
    /\ users = Founders
    /\ follows = {}
    /\ lastId = Cardinality(Founders)
    /\ phase = [r \in Requests |-> "ok"]
    /\ \E a \in Asked : asked = [r \in Requests |-> a]
    /\ caller = [r \in Requests |-> NoUser]
    /\ target = [r \in Requests |-> NoUser]
    /\ gone = [r \in Requests |-> FALSE]
    /\ listed = [r \in Requests |-> <<>>]
    /\ steady = [r \in Requests |-> {}]
    /\ skipped = [r \in Requests |-> 0]
    /\ shifted = [r \in Requests |-> 0]
-----------------------------------------------------------------------------
(* The tables *)

Edges == {<<f.follower, f.followed>> : f \in follows}

Holds(name) == \E u \in users : u.name = name

Present(u) == u \in users

Moves(r, from, to) == phase[r] = from /\ phase' = [phase EXCEPT ![r] = to]

\* The request is answered, and its session closed; a client that wants the
\* next page of a listing sends the next request.
Ends(r, from, reply) ==
    /\ Moves(r, from, reply)
    /\ caller' = [caller EXCEPT ![r] = NoUser]
    /\ target' = [target EXCEPT ![r] = NoUser]
    /\ gone' = [gone EXCEPT ![r] = @ /\ reply \in Working]
    /\ UNCHANGED asked
-----------------------------------------------------------------------------
(* Listings *)

Owner(op, f) == IF op = "followers" THEN f.followed ELSE f.follower
Other(op, f) == IF op = "followers" THEN f.follower ELSE f.followed

\* ORDER BY created_at and the id of the other user, in one user's listing.
Precedes(op, f, g) ==
    /\ Owner(op, f) = Owner(op, g)
    /\ f.at < g.at \/ (f.at = g.at /\ Other(op, f) < Other(op, g))

Offset(op, f, all) == Cardinality({g \in all : Precedes(op, g, f)})

\* Variant: users with the same created_at come in an order of each query's own.
PageOfTies(r) ==
    LET Before(f, g) == IF Len(listed[r]) % 2 = 0 THEN Precedes(asked[r].op, f, g)
                        ELSE f.at < g.at \/ (f.at = g.at /\ Precedes(asked[r].op, g, f))
        All == {f \in follows : Owner(asked[r].op, f) = target[r].id}
    IN  {f \in All : Cardinality({g \in All : Before(g, f)})
                        \in Len(listed[r])..(Len(listed[r]) + PageSize - 1)}

\* The page at the offset of what the client has so far.
Page(r) ==
    {f \in follows :
        /\ Owner(asked[r].op, f) = target[r].id
        /\ Offset(asked[r].op, f, follows) \in Len(listed[r])..(Len(listed[r]) + PageSize - 1)}

\* The follows of a request's listing that it has paged past, of all there are.
Passed(r, all) ==
    {f \in all :
        /\ asked[r].op \in {"followers", "following"}
        /\ \E u \in users : u.id = Owner(asked[r].op, f) /\ u.name = asked[r].name
        /\ Offset(asked[r].op, f, all) < Len(listed[r])}

\* What a change of the table follows does to the listings under way.
Noticed ==
    LET Open == {r \in Requests : phase[r] \in Working}
        Gone(r) == Cardinality(Passed(r, follows) \ follows')
        New(r) == Cardinality(Passed(r, follows') \ follows)
    IN  /\ steady' = [r \in Requests |-> IF r \in Open THEN steady[r] \cap follows' ELSE steady[r]]
        /\ skipped' = [r \in Requests |-> IF r \in Open THEN skipped[r] + Gone(r) ELSE skipped[r]]
        /\ shifted' = [r \in Requests |-> IF r \in Open THEN shifted[r] + New(r) ELSE shifted[r]]
        /\ \A r \in Requests : skipped'[r] + shifted'[r] <= MaxPassed
-----------------------------------------------------------------------------
(* Requests *)

FirstPhase(op) ==
    CASE op \in {"follow", "unfollow"} -> "authenticating"
      [] op \in {"followers", "following"} -> "finding"
      [] op = "register" -> "acting"

Registers(r) == phase[r] = "acting" /\ asked[r].op = "register"

\* MaxId bounds the registrations that may still succeed.
Request(r, a) ==
    /\ phase[r] \notin Working
    /\ a.op = "register" => lastId + Cardinality({q \in Requests : Registers(q)}) < MaxId
    /\ phase' = [phase EXCEPT ![r] = FirstPhase(a.op)]
    /\ asked' = [asked EXCEPT ![r] = a]
    /\ gone' = [gone EXCEPT ![r] = ~Holds(a.by) \/ ~Holds(a.name)]
    /\ listed' = [listed EXCEPT ![r] = <<>>]
    /\ steady' = [steady EXCEPT ![r] = IF a.op \in {"followers", "following"} THEN follows ELSE {}]
    /\ skipped' = [skipped EXCEPT ![r] = 0]
    /\ shifted' = [shifted EXCEPT ![r] = 0]
    /\ UNCHANGED <<tables, caller, target>>

\* get_current_user finds the account of the token's subject.
Authenticate(r) ==
    /\ Moves(r, "authenticating", "finding")
    /\ \E u \in users : u.name = asked[r].by /\ caller' = [caller EXCEPT ![r] = u]
    /\ UNCHANGED <<tables, asked, target, gone, listing>>

\* 401.
AuthenticateFails(r) ==
    /\ Ends(r, "authenticating", "denied")
    /\ ~Holds(asked[r].by)
    /\ UNCHANGED <<tables, listing>>

\* Variant: nobody is refused.
SelfUnnoticed(r, u) == FALSE

Self(r, u) == asked[r].op = "follow" /\ u.id = caller[r].id

\* _get_user_or_404 finds the target.
Find(r) ==
    /\ Moves(r, "finding", "acting")
    /\ \E u \in users :
          /\ u.name = asked[r].name
          /\ ~Self(r, u)
          /\ target' = [target EXCEPT ![r] = u]
    /\ UNCHANGED <<tables, asked, caller, gone, listing>>

\* 400: cannot follow yourself.
FindSelf(r) ==
    /\ Ends(r, "finding", "denied")
    /\ \E u \in users : u.name = asked[r].name /\ Self(r, u)
    /\ UNCHANGED <<tables, listing>>

\* 404: user not found.
FindFails(r) ==
    /\ Ends(r, "finding", "unknown")
    /\ ~Holds(asked[r].name)
    /\ UNCHANGED <<tables, listing>>

Acts(r, op) == phase[r] = "acting" /\ asked[r].op = op

InsertFollow(r) ==
    /\ Acts(r, "follow")
    /\ <<caller[r].id, target[r].id>> \notin Edges
    /\ Present(caller[r]) /\ Present(target[r])
    /\ \E t \in Stamps :
          follows' = follows \cup
              {[follower |-> caller[r].id, followed |-> target[r].id, at |-> t]}
    /\ Noticed
    /\ Ends(r, "acting", "ok")
    /\ UNCHANGED <<users, lastId, listed>>

\* The primary key refuses it: already following, idempotent success.
InsertDuplicate(r) ==
    /\ Acts(r, "follow")
    /\ <<caller[r].id, target[r].id>> \in Edges
    /\ Ends(r, "acting", "ok")
    /\ UNCHANGED <<tables, listing>>

\* Variant: every IntegrityError is taken for a duplicate.
InsertOrphanedIsDuplicate(r) ==
    /\ Acts(r, "follow")
    /\ ~(Present(caller[r]) /\ Present(target[r]))
    /\ Ends(r, "acting", "ok")
    /\ UNCHANGED <<tables, listing>>

\* A foreign key refuses it: 404.
InsertOrphaned(r) ==
    /\ Acts(r, "follow")
    /\ ~(Present(caller[r]) /\ Present(target[r]))
    /\ Ends(r, "acting", "unknown")
    /\ UNCHANGED <<tables, listing>>

DeleteFollow(r) ==
    /\ Acts(r, "unfollow")
    /\ follows' = {f \in follows : <<f.follower, f.followed>> # <<caller[r].id, target[r].id>>}
    /\ Noticed
    /\ Ends(r, "acting", "ok")
    /\ UNCHANGED <<users, lastId, listed>>

Taken(a) == \E u \in users : u.name = a.name \/ u.email = a.email

\* Variant: ids as SQLite gives them, one more than the largest present.
NextIdReused == 1 + Max({0} \cup {u.id : u \in users})

NextId == lastId + 1

\* The row is committed; target stands for the new user.
InsertUser(r) ==
    LET u == [id |-> NextId, name |-> asked[r].name, email |-> asked[r].email]
    IN  /\ Acts(r, "register")
        /\ ~Taken(asked[r])
        /\ users' = users \cup {u}
        /\ lastId' = NextId
        /\ Moves(r, "acting", "refreshing")
        /\ target' = [target EXCEPT ![r] = u]
        /\ UNCHANGED <<follows, asked, caller, gone, listing>>

\* A unique index refuses it: 409.
InsertConflict(r) ==
    /\ Acts(r, "register")
    /\ Taken(asked[r])
    /\ Ends(r, "acting", "taken")
    /\ UNCHANGED <<tables, listing>>

\* db.refresh reads the row again: 201, or an error when it is gone.
Refresh(r) ==
    /\ Ends(r, "refreshing", IF Present(target[r]) THEN "ok" ELSE "error")
    /\ UNCHANGED <<tables, listing>>

\* DELETE on users, by whoever administers the database: its follows go too.
DeleteUser(u) ==
    /\ users' = users \ {u}
    /\ follows' = {f \in follows : u.id \notin {f.follower, f.followed}}
    /\ gone' = [r \in Requests |-> gone[r] \/ (phase[r] \in Working /\ u.name \in {asked[r].by, asked[r].name})]
    /\ Noticed
    /\ UNCHANGED <<lastId, request, listed>>
-----------------------------------------------------------------------------
(* Listings *)

\* The page in the order of the listing.
Rows(r) ==
    CHOOSE rows \in [1..Cardinality(Page(r)) -> Page(r)] :
        \A i, j \in 1..Cardinality(Page(r)) :
            i < j => Offset(asked[r].op, rows[i], follows) < Offset(asked[r].op, rows[j], follows)

\* A short page is the last one.
ReadPage(r) ==
    /\ phase[r] = "acting" /\ asked[r].op \in {"followers", "following"}
    /\ listed' = [listed EXCEPT ![r] = @ \o Rows(r)]
    /\ Ends(r, "acting", IF Len(Rows(r)) < PageSize THEN "ok" ELSE "finding")
    /\ UNCHANGED <<tables, steady, skipped, shifted>>

RequestStep(r) ==
    \/ \E a \in Asked : Request(r, a)
    \/ Authenticate(r) \/ AuthenticateFails(r) \/ Find(r) \/ FindSelf(r) \/ FindFails(r)
    \/ InsertFollow(r) \/ InsertDuplicate(r) \/ InsertOrphaned(r) \/ DeleteFollow(r)
    \/ InsertUser(r) \/ InsertConflict(r) \/ Refresh(r) \/ ReadPage(r)

AccountsNext ==
    \/ \E r \in Requests : RequestStep(r)
    \/ \E u \in users : DeleteUser(u)

AccountsSpec == AccountsInit /\ [][AccountsNext]_accountsVars
-----------------------------------------------------------------------------
(* Properties *)

\* Accounts and follows change as whole accounts and whole edges: a request
\* that fails leaves nothing behind, and no follow outlives an end of it
\* (models.py:13-18, 46-51).
Graph == INSTANCE SocialGraph WITH members <- users, edges <- Edges, latest <- lastId
ImplementsSocialGraph == Graph!GraphSpec

Following(by, name) ==
    \E u, v \in users : u.name = by /\ v.name = name /\ <<u.id, v.id>> \in Edges

TrueAnswer(r) ==
    phase[r] \in Working /\ phase'[r] \in Answers =>
        /\ phase'[r] = "unknown" => gone[r]
        /\ phase'[r] = "denied" => gone[r] \/ asked[r].by = asked[r].name
        /\ phase'[r] = "ok" /\ asked[r].op = "follow" =>
              Following(asked[r].by, asked[r].name)'
        /\ phase'[r] = "ok" /\ asked[r].op = "unfollow" =>
              gone[r] \/ ~Following(asked[r].by, asked[r].name)'
        /\ phase'[r] = "ok" /\ asked[r].op = "register" => Holds(asked[r].name)'
        /\ phase'[r] = "taken" => Taken(asked[r])

\* What a client is told was true: 404 only when the target or the caller was
\* absent at some time, success of a follow only when the present holders of
\* the two names are connected, success of an unfollow only when they are not,
\* unless an account was replaced meanwhile (users.py:42-58, 67-71).
AnswersAreTrue ==
    [][\A r \in Requests : TrueAnswer(r)]_accountsVars

\* A client that pages through a listing misses a follow that was there all
\* the time only as often as one that it had paged past went, and sees one
\* twice only as often as one came in there (users.py:82-90, 102-110).
ListingExact ==
    \A r \in Requests :
        LET op == asked[r].op
            seen == {listed[r][i] : i \in DOMAIN listed[r]}
            missed == {f \in steady[r] \ seen :
                         \E u \in users : u.id = Owner(op, f) /\ u.name = asked[r].name}
        IN  /\ ListingTypeOK
            /\ phase[r] = "ok" => Cardinality(missed) <= skipped[r]
            /\ Len(listed[r]) - Cardinality(seen) <= shifted[r]
-----------------------------------------------------------------------------
(* The inductive invariant behind ImplementsSocialGraph *)

OwnKeys ==
    \A u, v \in users : u # v => u.id # v.id /\ u.name # v.name /\ u.email # v.email

\* Also for an account that a request still remembers: an id is given once.
IdsGivenOnce ==
    /\ \A u \in users : u.id <= lastId
    /\ \A r \in Requests : \A v \in {caller[r], target[r]} \ {NoUser} :
          v.id <= lastId /\ \A u \in users : u.id = v.id => u = v

EdgesConnect ==
    \A f \in follows :
        /\ f.follower # f.followed
        /\ \E u, v \in users : f.follower = u.id /\ f.followed = v.id

OneEdgeEach ==
    \A f, g \in follows : f.follower = g.follower /\ f.followed = g.followed => f = g

\* What a request has looked up, and that an answered one keeps nothing.
Remembered(r) ==
    /\ caller[r] # NoUser => caller[r].name = asked[r].by
    /\ target[r] # NoUser => target[r].name = asked[r].name
    /\ phase[r] \in {"finding", "acting"} /\ asked[r].op \in {"follow", "unfollow"} =>
          caller[r] # NoUser
    /\ phase[r] = "acting" /\ asked[r].op # "register" => target[r] # NoUser
    /\ phase[r] = "acting" /\ asked[r].op = "follow" => caller[r].id # target[r].id
    /\ phase[r] = "refreshing" => asked[r].op = "register" /\ target[r] # NoUser
    /\ phase[r] \in {"authenticating", "finding"} => asked[r].op # "register"

Resting(r) == phase[r] \notin Working => caller[r] = NoUser /\ target[r] = NoUser

\* Whoever a request names is there, unless the history says otherwise.
Witnessed(r) ==
    phase[r] \in Working /\ ~gone[r] /\ asked[r].op # "register" =>
        /\ Holds(asked[r].by) /\ Holds(asked[r].name)
        /\ {caller[r], target[r]} \subseteq users \cup {NoUser}

AccountsInv ==
    /\ AccountsTypeOK /\ OwnKeys /\ IdsGivenOnce /\ EdgesConnect /\ OneEdgeEach
    /\ \A r \in Requests : Remembered(r) /\ Witnessed(r) /\ Resting(r)
=============================================================================
