--------------------------- MODULE StreamsService ---------------------------
(***************************************************************************)
(* The streams service as MediaMTX and the key owners use it: the auth and *)
(* unpublish webhooks of services/streams/mediamtx_handler.go, each two    *)
(* critical sections of the store with anything in between, and the key    *)
(* management requests.  MediaMTX and the encoders are external: what they *)
(* do is what the service's README relies on (services/streams/README.md,  *)
(* "Wiring into MediaMTX").                                                *)
(***************************************************************************)
EXTENDS StreamStore

CONSTANTS
    Sessions,     \* publishing sessions of encoders, each used once
    Paths,        \* the paths MediaMTX may publish a session under
    LastSegment,  \* lastPathSegment of a path: a slug or a key
    PathOf,       \* the path that is just the slug; the last segment of the
                  \* slug b/a is a, and no handler refuses such a slug
    Conventions,  \* how the encoders present their keys
    Nothing,      \* an empty password, no path yet, no session yet
    MaxRestarts   \* bound: restarts of the service

ASSUME ServiceAssumption ==
    /\ LastSegment \in [Paths -> Tokens]
    /\ PathOf \in [Slugs -> Paths]
    /\ Conventions \subseteq {"password", "path", "any"}
    /\ Nothing \notin Tokens \cup Paths \cup Sessions
    /\ MaxRestarts \in Nat

VARIABLES
    stage,     \* where each session is
    password,  \* the key in the password field of its request, or Nothing
    path,      \* the path it publishes under, Nothing before it connects
    found,     \* the slug the running webhook handler looked up
    restarts,  \* how many times the service restarted
    lastIn,    \* history: the session that marked each channel live last
    cleared    \* history: sessions whose channel something else took off the listing

sessionVars == <<stage, password, path, found>>
historyVars == <<lastIn, cleared>>
serviceVars == <<storeVars, sessionVars, restarts, historyVars>>

Stages == {"idle", "asking", "found", "accepted", "rejected",
           "publishing", "ended", "ending", "done", "lost"}

ServiceTypeOK ==
    /\ StoreTypeOK
    /\ stage \in [Sessions -> Stages]
    /\ password \in [Sessions -> Keys \cup {Nothing}]
    /\ path \in [Sessions -> Paths \cup {Nothing}]
    /\ found \in [Sessions -> Slugs \cup {NoSlug}]
    /\ restarts \in 0..MaxRestarts
    /\ lastIn \in [Slugs -> Sessions \cup {Nothing}]
    /\ cleared \subseteq Sessions

ServiceInit ==
    /\ StoreInit
    /\ stage = [x \in Sessions |-> "idle"]
    /\ password = [x \in Sessions |-> Nothing]
    /\ path = [x \in Sessions |-> Nothing]
    /\ found = [x \in Sessions |-> NoSlug]
    /\ restarts = 0
    /\ lastIn = [s \in Slugs |-> Nothing]
    /\ cleared = {}

\* What the auth webhook looks up for x.
Presented(x) == IF password[x] # Nothing THEN password[x] ELSE LastSegment[path[x]]

\* The channel whose key the encoder of x holds.
Channel(x) == issuedTo[Presented(x)]
-----------------------------------------------------------------------------
(* Key management *)

\* The sessions of s that passed FindByKey and did not end yet.
LetIn(s) == {x \in Sessions : stage[x] \in {"found", "accepted", "publishing"} /\ Channel(x) = s}

CreateStreamKey(s) ==
    \E k \in Keys : CreateKey(s, k) /\ UNCHANGED <<sessionVars, restarts, historyVars>>

RotateStreamKey(s) ==
    \E k \in Keys : RotateKey(s, k) /\ UNCHANGED <<sessionVars, restarts, historyVars>>

RevokeStreamKey(s) ==
    /\ RevokeKey(s)
    /\ cleared' = cleared \cup LetIn(s)
    /\ UNCHANGED <<sessionVars, restarts, lastIn>>
-----------------------------------------------------------------------------
(* The auth webhook *)

Issued(k) == issuedTo[k] # NoSlug

\* The two conventions of the service's README, the key as password under the
\* path that is just the slug or as the last segment of the path; and any
\* other request, which the webhook takes as well: it never compares the path
\* with the channel of the password.
Follows(convention, p, k) ==
    \/ convention = "password" /\ k # Nothing /\ p = PathOf[issuedTo[k]]
    \/ convention = "path" /\ k = Nothing /\ LastSegment[p] \in Keys
    \/ convention = "any"

\* An encoder connects, with no key that was given to nobody; MediaMTX asks.
Connect(x) ==
    /\ stage[x] = "idle"
    /\ \E convention \in Conventions, p \in Paths, k \in Keys \cup {Nothing} :
          /\ \A l \in Keys \cap {k, LastSegment[p]} : Issued(l)
          /\ Follows(convention, p, k)
          /\ path' = [path EXCEPT ![x] = p]
          /\ password' = [password EXCEPT ![x] = k]
    /\ stage' = [stage EXCEPT ![x] = "asking"]
    /\ UNCHANGED <<storeVars, found, restarts, historyVars>>

AuthFind(x) ==
    /\ stage[x] = "asking"
    /\ found' = [found EXCEPT ![x] = FindByKey(Presented(x))]
    /\ stage' = [stage EXCEPT ![x] =
                   IF FindByKey(Presented(x)) = NoSlug THEN "rejected" ELSE "found"]
    /\ UNCHANGED <<storeVars, password, path, restarts, historyVars>>

\* SetLive(slug, true), its error ignored, and 200.
AuthSetLive(x) ==
    /\ stage[x] = "found"
    /\ SetLive(found[x], TRUE)
    /\ stage' = [stage EXCEPT ![x] = "accepted"]
    /\ lastIn' = [lastIn EXCEPT ![found[x]] = x]
    /\ UNCHANGED <<password, path, found, restarts, cleared>>
-----------------------------------------------------------------------------
(* MediaMTX: one publisher per path, and a newer one takes over *)

PublishStarts(x) ==
    /\ stage[x] = "accepted"
    /\ stage' = [y \in Sessions |->
                   IF y = x THEN "publishing"
                   ELSE IF stage[y] = "publishing" /\ path[y] = path[x] THEN "ended"
                   ELSE stage[y]]
    /\ UNCHANGED <<storeVars, password, path, found, restarts, historyVars>>

\* The encoder is gone before it publishes: no unpublish hook will run.
PublishAborts(x) ==
    /\ stage[x] = "accepted"
    /\ stage' = [stage EXCEPT ![x] = "lost"]
    /\ UNCHANGED <<storeVars, password, path, found, restarts, historyVars>>

SourceDisconnects(x) ==
    /\ stage[x] = "publishing"
    /\ stage' = [stage EXCEPT ![x] = "ended"]
    /\ UNCHANGED <<storeVars, password, path, found, restarts, historyVars>>
-----------------------------------------------------------------------------
(* The unpublish webhook: runOnUnpublish runs beside MediaMTX, at any time *)

\* Variant: without the fallback on the bare slug.
ResolveKeyOnly(t) == FindByKey(t)

\* A key leads to its channel, a slug to itself.  (The two lookups are two
\* critical sections, but a token that can succeed in one fails in the other.)
ResolveChannelFromPath(t) ==
    IF FindByKey(t) # NoSlug THEN FindByKey(t)
    ELSE IF t \in Slugs /\ Exists(t) THEN t ELSE NoSlug

HookFind(x) ==
    /\ stage[x] = "ended"
    /\ LET slug == ResolveChannelFromPath(LastSegment[path[x]]) IN
          /\ found' = [found EXCEPT ![x] = slug]
          /\ stage' = [stage EXCEPT ![x] = IF slug = NoSlug THEN "done" ELSE "ending"]
    /\ UNCHANGED <<storeVars, password, path, restarts, historyVars>>

HookSetLive(x) ==
    /\ stage[x] = "ending"
    /\ SetLive(found[x], FALSE)
    /\ stage' = [stage EXCEPT ![x] = "done"]
    /\ cleared' = cleared \cup {y \in LetIn(found[x]) \ {x} : stage[y] # "found"}
    /\ UNCHANGED <<password, path, found, restarts, lastIn>>

\* The hook's request never arrives.
HookLost(x) ==
    /\ stage[x] = "ended"
    /\ stage' = [stage EXCEPT ![x] = "lost"]
    /\ UNCHANGED <<storeVars, password, path, found, restarts, historyVars>>

\* The service restarts: the handlers that run are cut, and MediaMTX rejects
\* a session whose webhook failed.  MediaMTX and its sessions live on.
Restart ==
    /\ restarts < MaxRestarts
    /\ restarts' = restarts + 1
    /\ StoreLost
    /\ stage' = [x \in Sessions |-> CASE stage[x] = "found" -> "rejected"
                                      [] stage[x] = "ending" -> "done"
                                      [] OTHER -> stage[x]]
    /\ cleared' = cleared \cup UNION {LetIn(s) : s \in Slugs}
    /\ UNCHANGED <<password, path, found, lastIn>>

ServiceNext ==
    \/ \E s \in Slugs : CreateStreamKey(s) \/ RotateStreamKey(s) \/ RevokeStreamKey(s)
    \/ \E x \in Sessions :
          \/ Connect(x) \/ AuthFind(x) \/ AuthSetLive(x)
          \/ PublishStarts(x) \/ PublishAborts(x) \/ SourceDisconnects(x)
          \/ HookFind(x) \/ HookSetLive(x) \/ HookLost(x)
    \/ Restart

ServiceSpec == ServiceInit /\ [][ServiceNext]_serviceVars
-----------------------------------------------------------------------------
(* Properties *)

\* Sessions that were authorized and whose end the service has not handled.
Unfinished == {"accepted", "publishing", "ended", "ending", "lost"}

\* The token still leads to s: it is the slug itself or a key that works.
LeadsTo(t, s) == t = s \/ FindByKey(t) = s

\* A listed channel is accounted for by the session that marked it live last:
\* that session is unfinished (it streams, its hook is on its way, or its end
\* was never reported), or it is over and the last segment of its path does
\* not lead to the channel: its hook went to another channel or to none.
\* However sessions of any path and key, rotations, revocations and restarts
\* interleave, this is the only way a reported end leaves a channel listed
\* (mediamtx_handler.go:73-96).
LiveHasCause ==
    \A s \in ListLive :
        LET x == lastIn[s] IN
        /\ x \in Sessions /\ stage[x] \in Unfinished \cup {"done"} /\ Channel(x) = s
        /\ stage[x] = "done" => ~LeadsTo(LastSegment[path[x]], s)

\* No channel stays listed once every end of its sources was reported
\* (services/streams/README.md: "so a channel is marked offline when its source
\* disconnects").  The code keeps this for encoders that publish under the bare
\* slug of their key's channel, if no slug has a slash.
OfflineOnceReported ==
    \A s \in ListLive : \E x \in Sessions : stage[x] \in Unfinished /\ Channel(x) = s

\* A key works from its creation until it is rotated away or revoked, unless
\* the service restarted.
KeyWorksUntilRetired ==
    restarts = 0 => \A k \in Keys :
        issuedTo[k] # NoSlug /\ k \notin retired => FindByKey(k) = issuedTo[k]

\* A channel that streams is listed, unless since its session's key was looked
\* up the channel was revoked, the service restarted, or a webhook said that
\* another session is over whose path leads to the channel, be it one of the
\* channel (its hook may come after the encoder is back) or one let in with
\* another channel's key.  No rotation, no other channel's requests and no
\* webhook of the session's own takes it off (channels_handler.go:7: "every
\* channel currently live").
ListedUnlessCleared ==
    \A x \in Sessions \ cleared :
        stage[x] \in {"accepted", "publishing"} => Channel(x) \in ListLive
-----------------------------------------------------------------------------
(* The inductive invariant *)

\* The channel a token names, whether it still exists or not.
Named(t) == IF t \in Keys THEN issuedTo[t] ELSE t

\* Every key in a request was issued, and only a key gets a session in.
SessionKeys ==
    \A x \in Sessions : stage[x] # "idle" =>
        /\ path[x] \in Paths
        /\ \A k \in Keys \cap {password[x], LastSegment[path[x]]} : issuedTo[k] \in Slugs
        /\ stage[x] \notin {"asking", "rejected"} => Presented(x) \in Keys

\* The auth webhook acts on the channel of the key, the unpublish webhook on
\* the channel the last segment of the path names, which may be another one;
\* either also when that channel is gone or provisioned anew in between.
FoundIsNamed ==
    \A x \in Sessions :
        /\ stage[x] = "found" => found[x] = Channel(x)
        /\ stage[x] = "ending" => found[x] = Named(LastSegment[path[x]])

ServiceInv ==
    /\ StoreInv
    /\ ServiceTypeOK
    /\ SessionKeys
    /\ FoundIsNamed
=============================================================================
