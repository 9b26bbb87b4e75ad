------------------------ MODULE StreamsService_proofs ------------------------
(***************************************************************************)
(* Proofs about the streams service, for any channels, keys and sessions   *)
(* and any number of restarts.                                             *)
(*                                                                         *)
(* The registry first (StreamStore): that its two maps agree is not        *)
(* inductive by itself, since the key drawn by generateKey must also be in *)
(* no record, which CurrentHashes gives.  The service implements the       *)
(* registry's specification, so that what is shown of the registry holds   *)
(* under webhooks, key management and restarts.  A listed channel is       *)
(* accounted for by the session that marked it live last, whatever paths   *)
(* and keys the encoders present; under the password convention and slugs  *)
(* without a slash nothing stays listed whose end was reported.            *)
(***************************************************************************)
EXTENDS StreamsService, TLAPS

(* The registry of stream keys *)

LEMMA HashType == \A k \in Keys : HashOf[k] \in Hashes
  BY StoreAssumption DEF Tokens

\* Two keys with one hash are one key.
LEMMA HashInjective == \A k, l \in Keys : HashOf[k] = HashOf[l] => k = l
  BY StoreAssumption DEF Tokens

\* A record is not the absence of one.
LEMMA RecordType ==
    ASSUME NEW h \in Hashes, NEW live \in BOOLEAN
    PROVE  /\ [keyHash |-> h, live |-> live] \in Records
           /\ [keyHash |-> h, live |-> live] # NoChannel
  BY StoreAssumption DEF Records

\* The hash of a key never drawn before is the hash of no channel.
LEMMA FreshHash ==
    ASSUME StoreInv, NEW k \in Keys, FreshKey(k)
    PROVE  /\ \A s \in Slugs : Exists(s) => channels[s].keyHash # HashOf[k]
           /\ byKeyHash[HashOf[k]] = NoSlug
           /\ k \notin retired
  <1>1. ASSUME NEW s \in Slugs, Exists(s), channels[s].keyHash = HashOf[k]
        PROVE  FALSE
    <2>1. PICK l \in Keys : channels[s].keyHash = HashOf[l] /\ issuedTo[l] = s
      BY <1>1 DEF StoreInv, CurrentHashes
    <2>2. l = k
      BY <1>1, <2>1, HashInjective
    <2> QED BY <2>1, <2>2, StoreAssumption DEF FreshKey
  <1>2. byKeyHash[HashOf[k]] = NoSlug
    BY <1>1, HashType DEF StoreInv, StoreTypeOK, IndexConsistent
  <1>3. k \notin retired
    BY DEF StoreInv, RetiredWereIssued, FreshKey
  <1> QED BY <1>1, <1>2, <1>3

LEMMA StoreInitInv == StoreInit => StoreInv
  BY StoreAssumption
  DEF StoreInit, StoreInv, StoreTypeOK, IndexConsistent, CurrentHashes, RetiredWereIssued, Exists

\* A new channel: its hash is fresh, and so is its slug.
LEMMA CreateKeyInv ==
    ASSUME StoreInv, NEW s \in Slugs, NEW k \in Keys, CreateKey(s, k)
    PROVE  StoreInv'
  <1> DEFINE h == HashOf[k]
  <1>1. /\ ~Exists(s) /\ h \in Hashes /\ issuedTo[k] = NoSlug
        /\ channels' = [channels EXCEPT ![s] = [keyHash |-> h, live |-> FALSE]]
        /\ byKeyHash' = [byKeyHash EXCEPT ![h] = s]
        /\ issuedTo' = [issuedTo EXCEPT ![k] = s]
        /\ retired' = retired
    BY HashType DEF CreateKey, FreshKey
  <1>2. /\ \A t \in Slugs : Exists(t) => channels[t].keyHash # h
        /\ byKeyHash[h] = NoSlug /\ k \notin retired
    BY FreshHash DEF CreateKey
  <1>3. StoreTypeOK'
    BY <1>1, RecordType DEF StoreInv, StoreTypeOK
  <1>4. /\ Exists(s)' /\ channels'[s].keyHash = h
        /\ \A t \in Slugs \ {s} : channels'[t] = channels[t]
    BY <1>1, RecordType DEF StoreInv, StoreTypeOK, Exists
  <1>5. IndexConsistent'
    <2> SUFFICES ASSUME NEW g \in Hashes, NEW t \in Slugs
                 PROVE  byKeyHash'[g] = t <=> Exists(t)' /\ channels'[t].keyHash = g
      BY DEF IndexConsistent, Exists
    <2>1. byKeyHash[g] = t <=> Exists(t) /\ channels[t].keyHash = g
      BY DEF StoreInv, IndexConsistent
    <2>2. byKeyHash'[g] = IF g = h THEN s ELSE byKeyHash[g]
      BY <1>1 DEF StoreInv, StoreTypeOK
    <2> QED BY <1>1, <1>2, <1>4, <2>1, <2>2 DEF Exists
  <1>6. CurrentHashes'
    <2> SUFFICES ASSUME NEW t \in Slugs, Exists(t)'
                 PROVE  \E l \in Keys : /\ channels'[t].keyHash = HashOf[l]
                                        /\ issuedTo'[l] = t
                                        /\ l \notin retired'
      BY DEF CurrentHashes, Exists
    <2>1. CASE t = s
      BY <1>1, <1>2, <1>4, <2>1 DEF StoreInv, StoreTypeOK
    <2>2. CASE t # s
      <3>1. PICK l \in Keys : channels[t].keyHash = HashOf[l] /\ issuedTo[l] = t /\ l \notin retired
        BY <1>4, <2>2 DEF StoreInv, CurrentHashes, Exists
      <3> QED BY <1>1, <1>4, <2>2, <3>1, StoreAssumption DEF StoreInv, StoreTypeOK
    <2> QED BY <2>1, <2>2
  <1>7. RetiredWereIssued'
    BY <1>1, StoreAssumption DEF StoreInv, StoreTypeOK, RetiredWereIssued
  <1> QED BY <1>3, <1>5, <1>6, <1>7 DEF StoreInv

\* What the keys of a channel are: the one key its hash is of.
LEMMA CurrentKey ==
    ASSUME StoreInv, NEW s \in Slugs, Exists(s)
    PROVE  \E k \in Keys : /\ CurrentKeys(s) = {k}
                           /\ issuedTo[k] = s
                           /\ channels[s].keyHash = HashOf[k]
  BY HashInjective DEF StoreInv, CurrentHashes, CurrentKeys

LEMMA RotateKeyInv ==
    ASSUME StoreInv, NEW s \in Slugs, NEW k \in Keys, RotateKey(s, k)
    PROVE  StoreInv'
  <1> DEFINE h == HashOf[k]
             old == channels[s].keyHash
  <1>1. /\ Exists(s) /\ h \in Hashes /\ issuedTo[k] = NoSlug
        /\ channels' = [channels EXCEPT ![s] = [channels[s] EXCEPT !.keyHash = h]]
        /\ byKeyHash' = [byKeyHash EXCEPT ![old] = NoSlug, ![h] = s]
        /\ issuedTo' = [issuedTo EXCEPT ![k] = s]
        /\ retired' = retired \cup CurrentKeys(s)
    BY HashType DEF RotateKey, FreshKey, Reindex
  <1>2. /\ \A t \in Slugs : Exists(t) => channels[t].keyHash # h
        /\ byKeyHash[h] = NoSlug /\ k \notin retired
    BY FreshHash DEF RotateKey
  <1>3. channels[s] \in Records /\ old \in Hashes /\ old # h
    BY <1>1, <1>2 DEF StoreInv, StoreTypeOK, Exists, Records
  <1>4. /\ channels'[s] \in Records /\ channels'[s].keyHash = h
        /\ \A t \in Slugs \ {s} : channels'[t] = channels[t]
    BY <1>1, <1>3 DEF StoreInv, StoreTypeOK, Records
  <1>5. Exists(s)'
    BY <1>4, StoreAssumption DEF Exists
  <1>6. PICK old_k \in Keys : /\ CurrentKeys(s) = {old_k}
                              /\ issuedTo[old_k] = s
                              /\ old = HashOf[old_k]
    BY <1>1, CurrentKey
  <1>7. StoreTypeOK'
    BY <1>1, <1>3, <1>4, <1>6 DEF StoreInv, StoreTypeOK
  <1>8. IndexConsistent'
    <2> SUFFICES ASSUME NEW g \in Hashes, NEW t \in Slugs
                 PROVE  byKeyHash'[g] = t <=> Exists(t)' /\ channels'[t].keyHash = g
      BY DEF IndexConsistent, Exists
    <2>1. \A r \in Slugs : byKeyHash[g] = r <=> Exists(r) /\ channels[r].keyHash = g
      BY DEF StoreInv, IndexConsistent
    <2>2. byKeyHash'[g] = IF g = h THEN s ELSE IF g = old THEN NoSlug ELSE byKeyHash[g]
      BY <1>1, <1>3 DEF StoreInv, StoreTypeOK
    <2>3. t # s => (Exists(t)' <=> Exists(t)) /\ channels'[t] = channels[t]
      BY <1>4 DEF Exists
    <2> QED BY <1>1, <1>2, <1>4, <1>5, <2>1, <2>2, <2>3, StoreAssumption
  <1>9. CurrentHashes'
    <2> SUFFICES ASSUME NEW t \in Slugs, Exists(t)'
                 PROVE  \E l \in Keys : /\ channels'[t].keyHash = HashOf[l]
                                        /\ issuedTo'[l] = t
                                        /\ l \notin retired'
      BY DEF CurrentHashes, Exists
    <2>1. CASE t = s
      <3>1. k # old_k
        BY <1>1, <1>6, StoreAssumption
      <3> QED BY <1>1, <1>2, <1>4, <1>6, <2>1, <3>1 DEF StoreInv, StoreTypeOK
    <2>2. CASE t # s
      <3>1. PICK l \in Keys : channels[t].keyHash = HashOf[l] /\ issuedTo[l] = t /\ l \notin retired
        BY <1>4, <2>2 DEF StoreInv, CurrentHashes, Exists
      <3>2. l # old_k /\ l # k
        BY <1>1, <1>6, <2>2, <3>1, StoreAssumption
      <3> QED BY <1>1, <1>4, <1>6, <2>2, <3>1, <3>2 DEF StoreInv, StoreTypeOK
    <2> QED BY <2>1, <2>2
  <1>10. RetiredWereIssued'
    BY <1>1, <1>6, StoreAssumption DEF StoreInv, StoreTypeOK, RetiredWereIssued
  <1> QED BY <1>7, <1>8, <1>9, <1>10 DEF StoreInv

LEMMA RevokeKeyInv ==
    ASSUME StoreInv, NEW s \in Slugs, RevokeKey(s)
    PROVE  StoreInv'
  <1> DEFINE old == channels[s].keyHash
  <1>1. /\ Exists(s)
        /\ channels' = [channels EXCEPT ![s] = NoChannel]
        /\ byKeyHash' = [byKeyHash EXCEPT ![old] = NoSlug]
        /\ issuedTo' = issuedTo
        /\ retired' = retired \cup CurrentKeys(s)
    BY DEF RevokeKey
  <1>2. PICK old_k \in Keys : /\ CurrentKeys(s) = {old_k}
                              /\ issuedTo[old_k] = s
                              /\ old = HashOf[old_k]
    BY <1>1, CurrentKey
  <1>3. StoreTypeOK'
    BY <1>1, <1>2 DEF StoreInv, StoreTypeOK
  <1>4. ~Exists(s)' /\ \A t \in Slugs \ {s} : channels'[t] = channels[t]
    BY <1>1 DEF StoreInv, StoreTypeOK, Exists
  <1>5. IndexConsistent'
    <2> SUFFICES ASSUME NEW g \in Hashes, NEW t \in Slugs
                 PROVE  byKeyHash'[g] = t <=> Exists(t)' /\ channels'[t].keyHash = g
      BY DEF IndexConsistent, Exists
    <2>1. \A r \in Slugs : byKeyHash[g] = r <=> Exists(r) /\ channels[r].keyHash = g
      BY DEF StoreInv, IndexConsistent
    <2>2. byKeyHash'[g] = IF g = old THEN NoSlug ELSE byKeyHash[g]
      BY <1>1 DEF StoreInv, StoreTypeOK
    <2>3. t # s => (Exists(t)' <=> Exists(t)) /\ channels'[t] = channels[t]
      BY <1>4 DEF Exists
    <2> QED BY <1>1, <1>4, <2>1, <2>2, <2>3, StoreAssumption
  <1>6. CurrentHashes'
    <2> SUFFICES ASSUME NEW t \in Slugs, Exists(t)'
                 PROVE  \E l \in Keys : /\ channels'[t].keyHash = HashOf[l]
                                        /\ issuedTo'[l] = t
                                        /\ l \notin retired'
      BY DEF CurrentHashes, Exists
    <2>1. t # s /\ channels'[t] = channels[t] /\ Exists(t)
      BY <1>4 DEF Exists
    <2>2. PICK l \in Keys : channels[t].keyHash = HashOf[l] /\ issuedTo[l] = t /\ l \notin retired
      BY <2>1 DEF StoreInv, CurrentHashes
    <2> QED BY <1>1, <1>2, <2>1, <2>2
  <1>7. RetiredWereIssued'
    BY <1>1, <1>2, StoreAssumption DEF StoreInv, RetiredWereIssued
  <1> QED BY <1>3, <1>5, <1>6, <1>7 DEF StoreInv

LEMMA SetLiveInv ==
    ASSUME StoreInv, NEW s \in Slugs, NEW live \in BOOLEAN, SetLive(s, live)
    PROVE  StoreInv'
  <1>1. UNCHANGED <<byKeyHash, issuedTo, retired>>
    BY DEF SetLive
  <1>2. channels' \in [Slugs -> Records \cup {NoChannel}]
    BY DEF SetLive, StoreInv, StoreTypeOK, Exists, Records
  <1>3. \A t \in Slugs : /\ Exists(t)' <=> Exists(t)
                         /\ Exists(t) => channels'[t].keyHash = channels[t].keyHash
    BY StoreAssumption DEF SetLive, StoreInv, StoreTypeOK, Exists, Records
  <1>4. StoreTypeOK'
    BY <1>1, <1>2 DEF StoreInv, StoreTypeOK
  <1>5. IndexConsistent'
    BY <1>1, <1>3 DEF StoreInv, IndexConsistent, Exists
  <1>6. CurrentHashes'
    BY <1>1, <1>3 DEF StoreInv, CurrentHashes, Exists
  <1>7. RetiredWereIssued'
    BY <1>1 DEF StoreInv, RetiredWereIssued
  <1> QED BY <1>4, <1>5, <1>6, <1>7 DEF StoreInv

LEMMA StoreLostInv == StoreInv /\ StoreLost => StoreInv'
  BY StoreAssumption
  DEF StoreLost, StoreInv, StoreTypeOK, IndexConsistent, CurrentHashes, RetiredWereIssued, Exists

LEMMA StoreStepInv == StoreInv /\ [StoreNext]_storeVars => StoreInv'
  <1> SUFFICES ASSUME StoreInv, [StoreNext]_storeVars PROVE StoreInv'
    OBVIOUS
  <1>1. ASSUME NEW s \in Slugs, NEW k \in Keys, CreateKey(s, k) \/ RotateKey(s, k)
        PROVE  StoreInv'
    BY <1>1, CreateKeyInv, RotateKeyInv
  <1>2. ASSUME NEW s \in Slugs, RevokeKey(s) PROVE StoreInv'
    BY <1>2, RevokeKeyInv
  <1>3. ASSUME NEW s \in Slugs, NEW live \in BOOLEAN, SetLive(s, live) PROVE StoreInv'
    BY <1>3, SetLiveInv
  <1>4. CASE StoreLost
    BY <1>4, StoreLostInv
  <1>5. CASE UNCHANGED storeVars
    BY <1>5 DEF storeVars, StoreInv, StoreTypeOK, IndexConsistent, CurrentHashes,
       RetiredWereIssued, Exists
  <1> QED BY <1>1, <1>2, <1>3, <1>4, <1>5 DEF StoreNext
-----------------------------------------------------------------------------
\* The inductive invariant of the registry.
THEOREM StoreInvariant == StoreSpec => []StoreInv
  BY StoreInitInv, StoreStepInv, PTL DEF StoreSpec

\* The two maps of the store always agree.
THEOREM StoreIndexConsistent == StoreSpec => []IndexConsistent
  BY StoreInvariant, PTL DEF StoreInv

LEMMA InvRetired == StoreInv => RetiredKeysStayDead
  <1> SUFFICES ASSUME StoreInv, NEW k \in Keys, FindByKey(k) # NoSlug
               PROVE  FindByKey(k) = issuedTo[k] /\ k \notin retired
    BY DEF RetiredKeysStayDead
  <1> DEFINE s == FindByKey(k)
  <1>1. s \in Slugs /\ Exists(s) /\ channels[s].keyHash = HashOf[k]
    BY HashType DEF StoreInv, StoreTypeOK, IndexConsistent, FindByKey
  <1>2. PICK l \in Keys : channels[s].keyHash = HashOf[l] /\ issuedTo[l] = s /\ l \notin retired
    BY <1>1 DEF StoreInv, CurrentHashes
  <1> QED BY <1>1, <1>2, HashInjective

\* A key that was rotated away or revoked never authorizes again, and a key
\* leads to no channel but the one it was issued for.
THEOREM StoreRetiredKeysStayDead == StoreSpec => []RetiredKeysStayDead
  BY StoreInvariant, InvRetired, PTL

LEMMA StepKeys ==
    ASSUME StoreInv, [StoreNext]_storeVars, NEW k \in Keys, issuedTo[k] # NoSlug
    PROVE  issuedTo'[k] = issuedTo[k] /\ FindByKey(k)' \in {FindByKey(k), NoSlug}
  <1> USE DEF FindByKey
  <1>1. ASSUME NEW s \in Slugs, NEW l \in Keys, CreateKey(s, l) \/ RotateKey(s, l)
        PROVE  issuedTo'[k] = issuedTo[k] /\ FindByKey(k)' \in {FindByKey(k), NoSlug}
    <2>1. l # k /\ HashOf[l] # HashOf[k] /\ issuedTo' = [issuedTo EXCEPT ![l] = s]
      BY <1>1, HashInjective DEF CreateKey, RotateKey, FreshKey
    <2>2. byKeyHash'[HashOf[k]] \in {byKeyHash[HashOf[k]], NoSlug}
      BY <1>1, <2>1, HashType DEF CreateKey, RotateKey, Reindex, StoreInv, StoreTypeOK
    <2> QED BY <2>1, <2>2 DEF StoreInv, StoreTypeOK
  <1>2. ASSUME NEW s \in Slugs, RevokeKey(s)
        PROVE  issuedTo'[k] = issuedTo[k] /\ FindByKey(k)' \in {FindByKey(k), NoSlug}
    BY <1>2, HashType DEF RevokeKey, StoreInv, StoreTypeOK
  <1>3. ASSUME NEW s \in Slugs, NEW live \in BOOLEAN, SetLive(s, live)
        PROVE  issuedTo'[k] = issuedTo[k] /\ FindByKey(k)' \in {FindByKey(k), NoSlug}
    BY <1>3 DEF SetLive
  <1>4. CASE StoreLost
    BY <1>4, HashType DEF StoreLost
  <1>5. CASE UNCHANGED storeVars
    BY <1>5 DEF storeVars
  <1> QED BY <1>1, <1>2, <1>3, <1>4, <1>5 DEF StoreNext

\* Once a key has stopped working it never works again.
THEOREM StoreKeysNeverComeBack == StoreSpec => KeysNeverComeBack
  <1>1. StoreInv /\ [StoreNext]_storeVars =>
          [\A k \in Keys : issuedTo[k] # NoSlug =>
              /\ issuedTo'[k] = issuedTo[k]
              /\ FindByKey(k)' \in {FindByKey(k), NoSlug}]_storeVars
    BY StepKeys
  <1> QED BY <1>1, StoreInvariant, PTL DEF StoreSpec, KeysNeverComeBack
-----------------------------------------------------------------------------
(* The service *)

\* A token that is no key leads to no channel.
LEMMA SlugIsNoKey ==
    ASSUME StoreInv, NEW s \in Slugs
    PROVE  FindByKey(s) = NoSlug
  <1>1. HashOf[s] \in Hashes /\ \A k \in Keys : HashOf[k] # HashOf[s]
    BY StoreAssumption DEF Tokens
  <1>2. \A t \in Slugs : Exists(t) => channels[t].keyHash # HashOf[s]
    BY <1>1 DEF StoreInv, CurrentHashes
  <1> QED BY <1>1, <1>2 DEF StoreInv, StoreTypeOK, IndexConsistent, FindByKey

\* A lookup returns the channel the key was issued for, if any.
LEMMA FindByKeyType ==
    ASSUME StoreInv, NEW t \in Tokens
    PROVE  FindByKey(t) = NoSlug \/ (t \in Keys /\ FindByKey(t) = issuedTo[t])
  BY SlugIsNoKey, InvRetired DEF RetiredKeysStayDead, Tokens

\* The unpublish webhook resolves a path to the channel its last segment names,
\* or to none; and to a channel that exists if that segment leads to it.
LEMMA Resolves ==
    ASSUME ServiceInv, NEW t \in Tokens, \A k \in Keys : k = t => issuedTo[k] \in Slugs
    PROVE  /\ ResolveChannelFromPath(t) \in {Named(t), NoSlug}
           /\ Named(t) \in Slugs
           /\ \A s \in Slugs : LeadsTo(t, s) /\ Exists(s) => ResolveChannelFromPath(t) = s
  <1>1. StoreInv
    BY DEF ServiceInv
  <1>2. CASE t \in Keys
    <2>1. t \notin Slugs /\ Named(t) = issuedTo[t] /\ FindByKey(t) \in {issuedTo[t], NoSlug}
      BY <1>1, <1>2, FindByKeyType, StoreAssumption DEF Named
    <2> QED BY <1>2, <2>1, StoreAssumption DEF ResolveChannelFromPath, LeadsTo
  <1>3. CASE t \in Slugs
    <2>1. t \notin Keys /\ Named(t) = t /\ FindByKey(t) = NoSlug
      BY <1>1, <1>3, SlugIsNoKey, StoreAssumption DEF Named
    <2> QED BY <1>3, <2>1, StoreAssumption DEF ResolveChannelFromPath, LeadsTo
  <1> QED BY <1>2, <1>3 DEF Tokens

\* What a session that connected carries: tokens, and keys that were issued.
LEMMA Carried ==
    ASSUME ServiceInv, NEW x \in Sessions, stage[x] # "idle"
    PROVE  /\ path[x] \in Paths /\ LastSegment[path[x]] \in Tokens /\ Presented(x) \in Tokens
           /\ \A k \in Keys : k \in {Presented(x), LastSegment[path[x]]} => issuedTo[k] \in Slugs
  <1>1. path[x] \in Paths /\ password[x] \in Keys \cup {Nothing}
    BY DEF ServiceInv, SessionKeys, ServiceTypeOK
  <1>2. LastSegment[path[x]] \in Tokens
    BY <1>1, ServiceAssumption
  <1>3. \A k \in Keys : k \in {password[x], LastSegment[path[x]]} => issuedTo[k] \in Slugs
    BY DEF ServiceInv, SessionKeys
  <1> QED BY <1>1, <1>2, <1>3 DEF Presented, Tokens

\* A session that was let in holds a key of its channel.
LEMMA HoldsKey ==
    ASSUME ServiceInv, NEW x \in Sessions, stage[x] \notin {"idle", "asking", "rejected"}
    PROVE  Presented(x) \in Keys /\ Channel(x) \in Slugs
  BY Carried DEF ServiceInv, SessionKeys, Channel

\* Every step of the service is a step of the registry or leaves it alone.
LEMMA ServiceStepIsStoreStep ==
    ASSUME ServiceInv, [ServiceNext]_serviceVars
    PROVE  [StoreNext]_storeVars
  <1>1. ASSUME NEW s \in Slugs, CreateStreamKey(s) \/ RotateStreamKey(s) \/ RevokeStreamKey(s)
        PROVE  StoreNext
    BY <1>1 DEF CreateStreamKey, RotateStreamKey, RevokeStreamKey, StoreNext
  <1>2. ASSUME NEW x \in Sessions, AuthSetLive(x) \/ HookSetLive(x)
        PROVE  StoreNext
    <2>1. found[x] \in Slugs
      <3>1. CASE AuthSetLive(x)
        BY <3>1, HoldsKey DEF AuthSetLive, ServiceInv, FoundIsNamed
      <3>2. CASE HookSetLive(x)
        <4>1. stage[x] = "ending" /\ found[x] = Named(LastSegment[path[x]])
          BY <3>2 DEF HookSetLive, ServiceInv, FoundIsNamed
        <4> QED BY <4>1, Carried, Resolves
      <3> QED BY <1>2, <3>1, <3>2
    <2> QED BY <1>2, <2>1 DEF AuthSetLive, HookSetLive, StoreNext
  <1>3. ASSUME NEW x \in Sessions,
               \/ Connect(x) \/ AuthFind(x) \/ PublishStarts(x) \/ PublishAborts(x)
               \/ SourceDisconnects(x) \/ HookFind(x) \/ HookLost(x)
        PROVE  UNCHANGED storeVars
    BY <1>3 DEF Connect, AuthFind, PublishStarts, PublishAborts, SourceDisconnects, HookFind, HookLost
  <1>4. CASE Restart
    BY <1>4 DEF Restart, StoreNext
  <1>5. CASE UNCHANGED serviceVars
    BY <1>5 DEF serviceVars
  <1> QED BY <1>1, <1>2, <1>3, <1>4, <1>5 DEF ServiceNext

LEMMA ServiceInitInv == ServiceInit => ServiceInv
  <1> SUFFICES ASSUME ServiceInit PROVE ServiceInv
    OBVIOUS
  <1>1. StoreInv
    BY StoreInitInv DEF ServiceInit
  <1>2. ServiceTypeOK
    BY <1>1, ServiceAssumption DEF StoreInv, ServiceInit, ServiceTypeOK, Stages
  <1>3. SessionKeys /\ FoundIsNamed
    BY DEF ServiceInit, SessionKeys, FoundIsNamed
  <1> QED BY <1>1, <1>2, <1>3 DEF ServiceInv

LEMMA HistoryType ==
    ASSUME ServiceInv, [ServiceNext]_serviceVars
    PROVE  cleared' \subseteq Sessions /\ lastIn' \in [Slugs -> Sessions \cup {Nothing}]
  <1>1. /\ cleared \subseteq Sessions /\ \A s : LetIn(s) \subseteq Sessions
        /\ lastIn \in [Slugs -> Sessions \cup {Nothing}]
    BY DEF ServiceInv, ServiceTypeOK, LetIn
  <1>2. ASSUME NEW s \in Slugs, CreateStreamKey(s) \/ RotateStreamKey(s) \/ RevokeStreamKey(s)
        PROVE  cleared' \subseteq Sessions /\ lastIn' = lastIn
    BY <1>1, <1>2 DEF CreateStreamKey, RotateStreamKey, RevokeStreamKey, historyVars
  <1>3. ASSUME NEW x \in Sessions,
               \/ Connect(x) \/ AuthFind(x) \/ PublishStarts(x)
               \/ PublishAborts(x) \/ SourceDisconnects(x) \/ HookFind(x) \/ HookLost(x)
        PROVE  cleared' = cleared /\ lastIn' = lastIn
    BY <1>3 DEF Connect, AuthFind, PublishStarts, PublishAborts, SourceDisconnects,
       HookFind, HookLost, historyVars
  <1>4. ASSUME NEW x \in Sessions, AuthSetLive(x) \/ HookSetLive(x)
        PROVE  cleared' \subseteq Sessions /\ lastIn' \in [Slugs -> Sessions \cup {Nothing}]
    BY <1>1, <1>4 DEF AuthSetLive, HookSetLive
  <1>5. CASE Restart
    BY <1>1, <1>5 DEF Restart
  <1>6. CASE UNCHANGED serviceVars
    BY <1>1, <1>6 DEF serviceVars, historyVars
  <1> QED BY <1>1, <1>2, <1>3, <1>4, <1>5, <1>6 DEF ServiceNext

LEMMA ServiceStepInv == ServiceInv /\ [ServiceNext]_serviceVars => ServiceInv'
  <1> SUFFICES ASSUME ServiceInv, [ServiceNext]_serviceVars PROVE ServiceInv'
    OBVIOUS
  <1>1. [StoreNext]_storeVars /\ StoreInv'
    BY ServiceStepIsStoreStep, StoreStepInv DEF ServiceInv
  <1>2. \A k \in Keys : issuedTo[k] \in Slugs => issuedTo'[k] = issuedTo[k]
    BY <1>1, StepKeys, StoreAssumption DEF ServiceInv
  <1>3. StoreTypeOK'
    BY <1>1 DEF StoreInv
  <1>4. cleared' \subseteq Sessions /\ lastIn' \in [Slugs -> Sessions \cup {Nothing}]
    BY HistoryType
  <1>5. ServiceTypeOK
    BY DEF ServiceInv
  <1> DEFINE Keyed(x) == stage[x] # "idle" =>
                 /\ path[x] \in Paths
                 /\ \A k \in Keys \cap {password[x], LastSegment[path[x]]} : issuedTo[k] \in Slugs
                 /\ stage[x] \notin {"asking", "rejected"} => Presented(x) \in Keys
             Aims(x) == /\ stage[x] = "found" => found[x] = Channel(x)
                        /\ stage[x] = "ending" => found[x] = Named(LastSegment[path[x]])
             Stays(x) == /\ password'[x] = password[x] /\ path'[x] = path[x]
                         /\ \/ stage'[x] = stage[x] /\ found'[x] = found[x]
                            \/ /\ stage[x] \notin {"idle", "asking", "rejected"}
                               /\ stage'[x] \notin {"idle", "asking", "found", "ending"}
                            \/ stage[x] # "idle" /\ stage'[x] = "rejected"
             Rest == ServiceTypeOK' /\ SessionKeys' /\ FoundIsNamed'
  <1>6. \A x \in Sessions : Keyed(x) /\ Aims(x)
    BY DEF ServiceInv, SessionKeys, FoundIsNamed
  <1>7. ASSUME NEW x \in Sessions, stage[x] # "idle",
               password'[x] = password[x], path'[x] = path[x]
        PROVE  /\ Presented(x)' = Presented(x)
               /\ \A k \in Keys \cap {password[x], LastSegment[path[x]]} : issuedTo'[k] \in Slugs
               /\ Presented(x) \in Keys => Channel(x)' = Channel(x)
               /\ Named(LastSegment[path[x]])' = Named(LastSegment[path[x]])
    <2>1. Presented(x)' = Presented(x)
      BY <1>7 DEF Presented
    <2>2. \A k \in Keys \cap {Presented(x), password[x], LastSegment[path[x]]} :
             issuedTo[k] \in Slugs /\ issuedTo'[k] = issuedTo[k]
      BY <1>2, <1>6, <1>7 DEF Presented
    <2> QED BY <1>7, <2>1, <2>2 DEF Channel, Named
  <1>8. ASSUME NEW x \in Sessions, Stays(x) PROVE Keyed(x)' /\ Aims(x)'
    <2>1. CASE stage[x] = "idle"
      BY <1>8, <2>1
    <2>2. CASE stage[x] # "idle"
      <3>1. /\ Presented(x)' = Presented(x) /\ path'[x] = path[x] /\ password'[x] = password[x]
            /\ \A k \in Keys \cap {password[x], LastSegment[path[x]]} : issuedTo'[k] \in Slugs
            /\ Presented(x) \in Keys => Channel(x)' = Channel(x)
            /\ Named(LastSegment[path[x]])' = Named(LastSegment[path[x]])
        BY <1>7, <1>8, <2>2
      <3>2. Keyed(x)'
        BY <1>6, <1>8, <2>2, <3>1
      <3>3. Aims(x)'
        BY <1>6, <1>8, <2>2, <3>1
      <3> QED BY <3>2, <3>3
    <2> QED BY <2>1, <2>2
  <1>9. ASSUME \A x \in Sessions : Keyed(x)' /\ Aims(x)', ServiceTypeOK' PROVE Rest
    BY <1>9 DEF SessionKeys, FoundIsNamed
  <1> HIDE DEF Keyed, Aims
  <1>10. ASSUME NEW s \in Slugs, CreateStreamKey(s) \/ RotateStreamKey(s) \/ RevokeStreamKey(s)
         PROVE  Rest
    <2>1. UNCHANGED <<stage, password, path, found, restarts>>
      BY <1>10 DEF CreateStreamKey, RotateStreamKey, RevokeStreamKey, sessionVars
    <2>2. ServiceTypeOK'
      BY <1>3, <1>4, <1>5, <2>1 DEF ServiceTypeOK
    <2> QED BY <1>8, <1>9, <2>1, <2>2
  <1>11. ASSUME NEW x \in Sessions, Connect(x) PROVE Rest
    <2>1. PICK p \in Paths, k \in Keys \cup {Nothing} :
             /\ \A l \in Keys \cap {k, LastSegment[p]} : issuedTo[l] # NoSlug
             /\ path' = [path EXCEPT ![x] = p] /\ password' = [password EXCEPT ![x] = k]
      BY <1>11 DEF Connect, Issued
    <2>2. /\ stage[x] = "idle" /\ stage' = [stage EXCEPT ![x] = "asking"]
          /\ found' = found /\ restarts' = restarts /\ issuedTo' = issuedTo
      BY <1>11 DEF Connect, storeVars
    <2>3. ServiceTypeOK'
      BY <1>3, <1>4, <1>5, <2>1, <2>2 DEF ServiceTypeOK, Stages
    <2>4. stage'[x] = "asking" /\ path'[x] = p /\ password'[x] = k
      BY <1>5, <2>1, <2>2 DEF ServiceTypeOK
    <2>5. Keyed(x)' /\ Aims(x)'
      <3>1. \A l \in Keys \cap {k, LastSegment[p]} : issuedTo'[l] \in Slugs
        BY <1>3, <2>1, <2>2 DEF StoreTypeOK
      <3> QED BY <2>4, <3>1 DEF Keyed, Aims
    <2>6. \A y \in Sessions \ {x} : Stays(y)
      BY <1>5, <2>1, <2>2 DEF ServiceTypeOK
    <2> QED BY <1>8, <1>9, <2>3, <2>5, <2>6
  <1>12. ASSUME NEW x \in Sessions, AuthFind(x) PROVE Rest
    <2> DEFINE f == FindByKey(Presented(x))
    <2>1. /\ stage[x] = "asking"
          /\ stage' = [stage EXCEPT ![x] = IF f = NoSlug THEN "rejected" ELSE "found"]
          /\ found' = [found EXCEPT ![x] = f]
          /\ password' = password /\ path' = path /\ restarts' = restarts
          /\ issuedTo' = issuedTo
      BY <1>12 DEF AuthFind, storeVars
    <2>2. f = NoSlug \/ (Presented(x) \in Keys /\ f = Channel(x) /\ f \in Slugs)
      <3>1. Presented(x) \in Tokens /\ StoreInv
        BY <2>1, Carried DEF ServiceInv
      <3>2. Presented(x) \in Keys => issuedTo[Presented(x)] \in Slugs
        BY <2>1, Carried
      <3> QED BY <3>1, <3>2, FindByKeyType DEF Channel
    <2> HIDE DEF f
    <2>3. ServiceTypeOK'
      BY <1>3, <1>4, <1>5, <2>1, <2>2 DEF ServiceTypeOK, Stages
    <2>4. /\ stage'[x] = IF f = NoSlug THEN "rejected" ELSE "found"
          /\ found'[x] = f
      BY <1>5, <2>1 DEF ServiceTypeOK
    <2>5. Keyed(x)' /\ Aims(x)'
      <3>1. /\ Presented(x)' = Presented(x)
            /\ \A k \in Keys \cap {password[x], LastSegment[path[x]]} : issuedTo'[k] \in Slugs
            /\ Presented(x) \in Keys => Channel(x)' = Channel(x)
        BY <1>7, <2>1
      <3> QED BY <1>6, <2>1, <2>2, <2>4, <3>1 DEF Keyed, Aims
    <2>6. \A y \in Sessions \ {x} : Stays(y)
      BY <1>5, <2>1 DEF ServiceTypeOK
    <2> QED BY <1>8, <1>9, <2>3, <2>5, <2>6
  <1>13. ASSUME NEW x \in Sessions,
                \/ AuthSetLive(x) \/ PublishStarts(x) \/ PublishAborts(x)
                \/ SourceDisconnects(x) \/ HookSetLive(x) \/ HookLost(x)
         PROVE  Rest
    <2>1. UNCHANGED <<password, path, found, restarts>>
      BY <1>13 DEF AuthSetLive, HookSetLive, PublishStarts, PublishAborts, SourceDisconnects, HookLost
    <2>2. /\ stage' \in [Sessions -> Stages]
          /\ \A y \in Sessions : \/ stage'[y] = stage[y]
                                  \/ /\ stage[y] \notin {"idle", "asking", "rejected"}
                                     /\ stage'[y] \notin {"idle", "asking", "found", "ending"}
      BY <1>5, <1>13 DEF AuthSetLive, HookSetLive, PublishStarts, PublishAborts, SourceDisconnects,
         HookLost, ServiceTypeOK, Stages
    <2>3. ServiceTypeOK'
      BY <1>3, <1>4, <1>5, <2>1, <2>2 DEF ServiceTypeOK
    <2> QED BY <1>8, <1>9, <2>1, <2>2, <2>3
  <1>14. ASSUME NEW x \in Sessions, HookFind(x) PROVE Rest
    <2> DEFINE t == LastSegment[path[x]]
               f == ResolveChannelFromPath(t)
    <2>1. /\ stage[x] = "ended"
          /\ stage' = [stage EXCEPT ![x] = IF f = NoSlug THEN "done" ELSE "ending"]
          /\ found' = [found EXCEPT ![x] = f]
          /\ password' = password /\ path' = path /\ restarts' = restarts
      BY <1>14 DEF HookFind
    <2>2. f \in {Named(t), NoSlug} /\ Named(t) \in Slugs
      BY <2>1, Carried, Resolves
    <2> HIDE DEF f
    <2>3. ServiceTypeOK'
      BY <1>3, <1>4, <1>5, <2>1, <2>2 DEF ServiceTypeOK, Stages
    <2>4. /\ stage'[x] = IF f = NoSlug THEN "done" ELSE "ending"
          /\ found'[x] = f
      BY <1>5, <2>1 DEF ServiceTypeOK
    <2>5. Keyed(x)' /\ Aims(x)'
      <3>1. /\ Presented(x)' = Presented(x)
            /\ \A k \in Keys \cap {password[x], LastSegment[path[x]]} : issuedTo'[k] \in Slugs
            /\ Named(LastSegment[path[x]])' = Named(t)
        BY <1>7, <2>1
      <3> QED BY <1>6, <2>1, <2>2, <2>4, <3>1 DEF Keyed, Aims
    <2>6. \A y \in Sessions \ {x} : Stays(y)
      BY <1>5, <2>1 DEF ServiceTypeOK
    <2> QED BY <1>8, <1>9, <2>3, <2>5, <2>6
  <1>15. ASSUME Restart PROVE Rest
    <2>1. /\ UNCHANGED <<password, path, found>> /\ restarts' \in 0..MaxRestarts
      BY <1>5, <1>15, ServiceAssumption DEF Restart, ServiceTypeOK
    <2>2. stage' = [x \in Sessions |-> CASE stage[x] = "found" -> "rejected"
                                        [] stage[x] = "ending" -> "done"
                                        [] OTHER -> stage[x]]
      BY <1>15 DEF Restart
    <2>3. \A x \in Sessions : \/ stage[x] = "found" /\ stage'[x] = "rejected"
                              \/ stage[x] = "ending" /\ stage'[x] = "done"
                              \/ stage'[x] = stage[x]
      BY <2>2
    <2>4. ServiceTypeOK'
      BY <1>3, <1>4, <1>5, <2>1, <2>2, <2>3 DEF ServiceTypeOK, Stages
    <2> QED BY <1>8, <1>9, <2>1, <2>3, <2>4
  <1>16. ASSUME UNCHANGED serviceVars PROVE Rest
    <2>1. UNCHANGED <<stage, password, path, found, restarts>>
      BY <1>16 DEF serviceVars, sessionVars
    <2>2. ServiceTypeOK'
      BY <1>3, <1>4, <1>5, <2>1 DEF ServiceTypeOK
    <2> QED BY <1>8, <1>9, <2>1, <2>2
  <1>17. Rest
    BY <1>10, <1>11, <1>12, <1>13, <1>14, <1>15, <1>16 DEF ServiceNext
  <1> QED BY <1>1, <1>17 DEF ServiceInv
-----------------------------------------------------------------------------
\* Type correctness of the service and the registry's invariant under it.
THEOREM ServiceInvariant == ServiceSpec => []ServiceInv
  BY ServiceInitInv, ServiceStepInv, PTL DEF ServiceSpec

\* The service, with its webhooks and restarts, implements the registry.
THEOREM ServiceImplementsStore == ServiceSpec => StoreSpec
  <1>1. ServiceInit => StoreInit
    BY DEF ServiceInit
  <1>2. ServiceInv /\ [ServiceNext]_serviceVars => [StoreNext]_storeVars
    BY ServiceStepIsStoreStep
  <1> QED BY <1>1, <1>2, ServiceInvariant, PTL DEF ServiceSpec, StoreSpec

\* In the service too, the two maps always agree.
THEOREM ServiceIndexConsistent == ServiceSpec => []IndexConsistent
  BY ServiceImplementsStore, StoreIndexConsistent, PTL

\* In the service too, a key taken back never authorizes a session again.
THEOREM ServiceRetiredKeysStayDead == ServiceSpec => []RetiredKeysStayDead
  BY ServiceImplementsStore, StoreRetiredKeysStayDead, PTL
-----------------------------------------------------------------------------
\* A token that no longer leads to a channel never does again.
LEMMA LeadsNoMore ==
    ASSUME ServiceInv, [ServiceNext]_serviceVars, NEW s \in Slugs, NEW t \in Tokens,
           \A k \in Keys : k = t => issuedTo[k] \in Slugs, ~LeadsTo(t, s)
    PROVE  ~LeadsTo(t, s)'
  <1>1. StoreInv /\ StoreInv' /\ [StoreNext]_storeVars
    BY ServiceStepIsStoreStep, StoreStepInv DEF ServiceInv
  <1>2. CASE t \in Keys
    <2>1. FindByKey(t)' \in {FindByKey(t), NoSlug}
      BY <1>1, <1>2, StepKeys, StoreAssumption
    <2> QED BY <2>1, StoreAssumption DEF LeadsTo
  <1>3. CASE t \in Slugs
    <2>1. HashOf[t] \in Hashes /\ \A k \in Keys : HashOf[k] # HashOf[t]
      BY <1>3, StoreAssumption DEF Tokens
    <2>2. \A u \in Slugs : ~(Exists(u)' /\ channels'[u].keyHash = HashOf[t])
      BY <1>1, <2>1 DEF StoreInv, CurrentHashes, Exists
    <2>3. byKeyHash'[HashOf[t]] = NoSlug
      BY <1>1, <2>1, <2>2 DEF StoreInv, StoreTypeOK, IndexConsistent, Exists
    <2> QED BY <2>3, StoreAssumption DEF LeadsTo, FindByKey
  <1> QED BY <1>2, <1>3 DEF Tokens

\* Key management, and the steps of sessions that leave the store alone: the
\* listing does not grow, and the session that accounts for a channel goes on.
LEMMA LiveStep ==
    ASSUME ServiceInv, LiveHasCause, [ServiceNext]_serviceVars
    PROVE  LiveHasCause'
  <1> DEFINE Accounts(x, s) ==
        /\ x \in Sessions /\ stage[x] \in Unfinished \cup {"done"} /\ Channel(x) = s
        /\ stage[x] = "done" => ~LeadsTo(LastSegment[path[x]], s)
  <1> SUFFICES ASSUME NEW s \in Slugs, IsLive(s)'
               PROVE  Accounts(lastIn[s], s)'
    BY DEF LiveHasCause, ListLive, IsLive, Exists
  <1> DEFINE x == lastIn[s]
             t == LastSegment[path[x]]
  <1>1. StoreInv /\ StoreTypeOK /\ ServiceTypeOK /\ [StoreNext]_storeVars
    BY ServiceStepIsStoreStep DEF ServiceInv, StoreInv
  <1>2. \A k \in Keys : issuedTo[k] \in Slugs => issuedTo'[k] = issuedTo[k]
    BY <1>1, StepKeys, StoreAssumption
  <1>3. ASSUME IsLive(s)
        PROVE  /\ Accounts(x, s) /\ Presented(x) \in Keys /\ t \in Tokens
               /\ \A k \in Keys : k = t => issuedTo[k] \in Slugs
    <2>1. Accounts(x, s)
      BY <1>3 DEF LiveHasCause, ListLive
    <2>2. x \in Sessions /\ stage[x] \notin {"idle", "asking", "rejected"}
      BY <2>1 DEF Unfinished
    <2> QED BY <2>1, <2>2, HoldsKey, Carried
  <1>4. ASSUME IsLive(s), lastIn'[s] = x, path' = path, password' = password,
               \/ stage'[x] = stage[x]
               \/ stage[x] \in Unfinished /\ stage'[x] \in Unfinished
               \/ stage'[x] = "done" /\ ~LeadsTo(t, s)
        PROVE  Accounts(lastIn[s], s)'
    <2>1. /\ Accounts(x, s) /\ Presented(x) \in Keys /\ t \in Tokens
          /\ \A k \in Keys : k = t => issuedTo[k] \in Slugs
      BY <1>3, <1>4
    <2>2. Channel(x)' = s
      BY <1>2, <1>4, <2>1 DEF Channel, Presented
    <2>3. t' = t /\ x' = x
      BY <1>4
    <2>4. ~LeadsTo(t, s) => ~LeadsTo(t, s)'
      <3>1. PICK c \in Tokens : c = t
        BY <2>1
      <3> HIDE DEF t
      <3>2. ASSUME ~LeadsTo(c, s) PROVE ~LeadsTo(c, s)'
        BY <1>1, <2>1, <3>1, <3>2, LeadsNoMore
      <3> QED BY <2>3, <3>1, <3>2 DEF LeadsTo, FindByKey
    <2>5. /\ stage'[x] \in Unfinished \cup {"done"}
          /\ stage'[x] = "done" => ~LeadsTo(t, s)
      BY <1>4, <2>1 DEF Unfinished
    <2> QED BY <2>1, <2>2, <2>3, <2>4, <2>5
  <1> HIDE DEF Accounts
  <1>5. ASSUME NEW u \in Slugs, CreateStreamKey(u) \/ RotateStreamKey(u) \/ RevokeStreamKey(u)
        PROVE  Accounts(lastIn[s], s)'
    <2>1. UNCHANGED <<stage, path, password, lastIn>>
      BY <1>5 DEF CreateStreamKey, RotateStreamKey, RevokeStreamKey, sessionVars, historyVars
    <2>2. IsLive(s)
      <3>1. CASE CreateStreamKey(u)
        BY <3>1, <1>1 DEF CreateStreamKey, CreateKey, IsLive, Exists, StoreTypeOK
      <3>2. CASE RotateStreamKey(u)
        <4>1. PICK k \in Keys : channels' = [channels EXCEPT ![u] = [channels[u] EXCEPT !.keyHash = HashOf[k]]]
          BY <3>2 DEF RotateStreamKey, RotateKey
        <4>2. Exists(u) /\ channels[u] \in Records
          BY <3>2, <1>1 DEF RotateStreamKey, RotateKey, Exists, StoreTypeOK
        <4>3. channels'[u].live = channels[u].live
          BY <4>1, <4>2, <1>1 DEF Records, StoreTypeOK
        <4> QED BY <4>1, <4>2, <4>3, <1>1 DEF IsLive, Exists, StoreTypeOK
      <3>3. CASE RevokeStreamKey(u)
        BY <3>3, <1>1 DEF RevokeStreamKey, RevokeKey, IsLive, Exists, StoreTypeOK
      <3> QED BY <1>5, <3>1, <3>2, <3>3
    <2> QED BY <1>4, <2>1, <2>2
  <1>6. ASSUME NEW y \in Sessions, Connect(y) \/ AuthFind(y)
        PROVE  Accounts(lastIn[s], s)'
    <2>1. IsLive(s) /\ lastIn' = lastIn /\ issuedTo' = issuedTo /\ byKeyHash' = byKeyHash
      BY <1>6 DEF Connect, AuthFind, storeVars, historyVars, IsLive, Exists
    <2>2. Accounts(x, s)
      BY <1>3, <2>1
    <2>3. x # y
      BY <1>6, <2>2 DEF Accounts, Unfinished, Connect, AuthFind
    <2>4. stage'[x] = stage[x] /\ path'[x] = path[x] /\ password'[x] = password[x]
      BY <1>1, <1>6, <2>2, <2>3 DEF Connect, AuthFind, ServiceTypeOK, Accounts
    <2> QED BY <2>1, <2>2, <2>4 DEF Accounts, Channel, Presented, LeadsTo, FindByKey
  <1>7. ASSUME NEW y \in Sessions,
               PublishStarts(y) \/ PublishAborts(y) \/ SourceDisconnects(y) \/ HookLost(y)
        PROVE  Accounts(lastIn[s], s)'
    <2>1. IsLive(s) /\ UNCHANGED <<path, password, lastIn>>
      BY <1>7 DEF PublishStarts, PublishAborts, SourceDisconnects, HookLost,
         storeVars, historyVars, IsLive, Exists
    <2>2. x \in Sessions
      BY <1>3, <2>1 DEF Accounts
    <2>3. \/ stage'[x] = stage[x]
          \/ stage[x] \in Unfinished /\ stage'[x] \in Unfinished
      BY <1>1, <1>7, <2>2 DEF PublishStarts, PublishAborts, SourceDisconnects, HookLost,
         ServiceTypeOK, Unfinished
    <2> QED BY <1>4, <2>1, <2>3
  <1>8. ASSUME NEW y \in Sessions, AuthSetLive(y)
        PROVE  Accounts(lastIn[s], s)'
    <2>1. /\ stage[y] = "found" /\ SetLive(found[y], TRUE) /\ UNCHANGED <<path, password>>
          /\ stage' = [stage EXCEPT ![y] = "accepted"]
          /\ lastIn' = [lastIn EXCEPT ![found[y]] = y]
      BY <1>8 DEF AuthSetLive
    <2>2. found[y] = Channel(y) /\ Channel(y) \in Slugs /\ Presented(y) \in Keys
      BY <2>1, HoldsKey DEF ServiceInv, FoundIsNamed
    <2>3. CASE s = Channel(y)
      <3>1. lastIn'[s] = y /\ stage'[y] = "accepted"
        BY <1>1, <2>1, <2>2, <2>3 DEF ServiceTypeOK
      <3>2. Channel(y)' = s
        BY <1>2, <2>1, <2>2, <2>3 DEF Channel, Presented
      <3> QED BY <3>1, <3>2 DEF Accounts, Unfinished
    <2>4. CASE s # Channel(y)
      <3>1. IsLive(s)
        BY <1>1, <2>1, <2>2, <2>4 DEF SetLive, IsLive, Exists, StoreTypeOK
      <3>2. x # y /\ x \in Sessions
        BY <1>3, <2>4, <3>1 DEF Accounts
      <3>3. lastIn'[s] = x /\ stage'[x] = stage[x]
        BY <1>1, <2>1, <2>2, <2>4, <3>2 DEF ServiceTypeOK
      <3> QED BY <1>4, <2>1, <3>1, <3>3
    <2> QED BY <2>3, <2>4
  <1>9. ASSUME NEW y \in Sessions, HookFind(y)
        PROVE  Accounts(lastIn[s], s)'
    <2>1. IsLive(s) /\ UNCHANGED <<path, password, lastIn>>
      BY <1>9 DEF HookFind, storeVars, historyVars, IsLive, Exists
    <2>2. Accounts(x, s) /\ t \in Tokens /\ \A k \in Keys : k = t => issuedTo[k] \in Slugs
      BY <1>3, <2>1
    <2>3. CASE y = x
      <3>1. /\ stage[x] = "ended"
            /\ stage'[x] = IF ResolveChannelFromPath(t) = NoSlug THEN "done" ELSE "ending"
        BY <1>1, <1>9, <2>3 DEF HookFind, ServiceTypeOK
      <3>2. LeadsTo(t, s) => ResolveChannelFromPath(t) = s
        BY <2>1, <2>2, Resolves DEF IsLive
      <3>3. \/ stage[x] \in Unfinished /\ stage'[x] \in Unfinished
            \/ stage'[x] = "done" /\ ~LeadsTo(t, s)
        BY <3>1, <3>2, StoreAssumption DEF Unfinished
      <3> QED BY <1>4, <2>1, <3>3
    <2>4. CASE y # x
      <3>1. stage'[x] = stage[x]
        BY <1>1, <1>9, <2>2, <2>4 DEF HookFind, ServiceTypeOK, Accounts
      <3> QED BY <1>4, <2>1, <3>1
    <2> QED BY <2>3, <2>4
  <1>10. ASSUME NEW y \in Sessions, HookSetLive(y)
         PROVE  Accounts(lastIn[s], s)'
    <2>1. /\ stage[y] = "ending" /\ SetLive(found[y], FALSE)
          /\ stage' = [stage EXCEPT ![y] = "done"] /\ UNCHANGED <<path, password, lastIn>>
      BY <1>10 DEF HookSetLive
    <2>2. found[y] = Named(LastSegment[path[y]]) /\ found[y] \in Slugs
      BY <2>1, Carried, Resolves DEF ServiceInv, FoundIsNamed
    <2>3. s # found[y]
      BY <1>1, <2>1 DEF SetLive, IsLive, Exists, StoreTypeOK, Records
    <2>4. IsLive(s)
      BY <1>1, <2>1, <2>2, <2>3 DEF SetLive, IsLive, Exists, StoreTypeOK
    <2>5. Accounts(x, s) /\ t \in Tokens
      BY <1>3, <2>4
    <2>6. CASE y = x
      <3>1. stage'[x] = "done"
        BY <1>1, <2>1, <2>6 DEF ServiceTypeOK
      <3>2. Named(t) # s
        BY <2>2, <2>3, <2>6
      <3>3. ~LeadsTo(t, s)
        BY <1>1, <2>5, <3>2, FindByKeyType, StoreAssumption DEF LeadsTo, Named, Tokens
      <3> QED BY <1>4, <2>1, <2>4, <3>1, <3>3
    <2>7. CASE y # x
      <3>1. stage'[x] = stage[x]
        BY <1>1, <2>1, <2>5, <2>7 DEF ServiceTypeOK, Accounts
      <3> QED BY <1>4, <2>1, <2>4, <3>1
    <2> QED BY <2>6, <2>7
  <1>11. CASE Restart
    BY <1>11 DEF Restart, StoreLost, IsLive, Exists
  <1>12. CASE UNCHANGED serviceVars
    <2>1. IsLive(s) /\ UNCHANGED <<stage, path, password, lastIn>>
      BY <1>12 DEF serviceVars, sessionVars, historyVars, storeVars, IsLive, Exists
    <2> QED BY <1>4, <2>1
  <1> QED BY <1>5, <1>6, <1>7, <1>8, <1>9, <1>10, <1>11, <1>12 DEF ServiceNext

\* Whatever paths and keys the encoders present and however requests
\* interleave, a channel is listed only while the session that marked it live
\* last is not over, or after the hook of that session could not lead to it.
THEOREM ServiceLiveHasCause == ServiceSpec => []LiveHasCause
  <1>1. ServiceInit => LiveHasCause
    <2>1. ServiceInit => ListLive = {}
      BY DEF ServiceInit, StoreInit, ListLive, IsLive, Exists
    <2> QED BY <2>1 DEF LiveHasCause
  <1>2. ServiceInv /\ LiveHasCause /\ [ServiceNext]_serviceVars => LiveHasCause'
    BY LiveStep
  <1> QED BY <1>1, <1>2, ServiceInvariant, PTL DEF ServiceSpec
-----------------------------------------------------------------------------
\* Encoders that keep to the password convention publish under the slug of
\* their channel.
UnderOwnSlug ==
    \A x \in Sessions : stage[x] # "idle" =>
        password[x] \in Keys /\ path[x] = PathOf[Channel(x)]

LEMMA UnderOwnSlugStep ==
    ASSUME Conventions = {"password"}, ServiceInv, UnderOwnSlug, [ServiceNext]_serviceVars
    PROVE  UnderOwnSlug'
  <1> SUFFICES ASSUME NEW x \in Sessions, stage'[x] # "idle"
               PROVE  password'[x] \in Keys /\ path'[x] = PathOf[Channel(x)']
    BY DEF UnderOwnSlug, Channel, Presented
  <1>1. ServiceTypeOK /\ \A k \in Keys : issuedTo[k] \in Slugs => issuedTo'[k] = issuedTo[k]
    BY ServiceStepIsStoreStep, StepKeys, StoreAssumption DEF ServiceInv
  <1>2. \A k \in Keys : k # Nothing
    BY ServiceAssumption DEF Tokens
  <1>3. ASSUME stage[x] # "idle", password'[x] = password[x], path'[x] = path[x]
        PROVE  password'[x] \in Keys /\ path'[x] = PathOf[Channel(x)']
    <2>1. password[x] \in Keys /\ path[x] = PathOf[Channel(x)] /\ Presented(x) = password[x]
      BY <1>2, <1>3 DEF UnderOwnSlug, Presented
    <2>2. issuedTo'[password[x]] = issuedTo[password[x]]
      BY <1>1, <1>3, <2>1, Carried
    <2> QED BY <1>2, <1>3, <2>1, <2>2 DEF Channel, Presented
  <1>4. ASSUME NEW s \in Slugs, CreateStreamKey(s) \/ RotateStreamKey(s) \/ RevokeStreamKey(s)
        PROVE  UNCHANGED <<stage, password, path>>
    BY <1>4 DEF CreateStreamKey, RotateStreamKey, RevokeStreamKey, sessionVars
  <1>5. ASSUME NEW y \in Sessions,
               \/ AuthFind(y) \/ AuthSetLive(y) \/ PublishStarts(y) \/ PublishAborts(y)
               \/ SourceDisconnects(y) \/ HookFind(y) \/ HookSetLive(y) \/ HookLost(y)
        PROVE  UNCHANGED <<password, path>> /\ stage[x] # "idle"
    BY <1>1, <1>5 DEF AuthFind, AuthSetLive, PublishStarts, PublishAborts,
       SourceDisconnects, HookFind, HookSetLive, HookLost, ServiceTypeOK
  <1>6. ASSUME NEW y \in Sessions, Connect(y)
        PROVE  password'[x] \in Keys /\ path'[x] = PathOf[Channel(x)']
    <2>1. PICK p \in Paths, k \in Keys \cup {Nothing} :
             /\ Follows("password", p, k)
             /\ path' = [path EXCEPT ![y] = p] /\ password' = [password EXCEPT ![y] = k]
      BY <1>6 DEF Connect
    <2>2. stage' = [stage EXCEPT ![y] = "asking"] /\ issuedTo' = issuedTo
      BY <1>6 DEF Connect, storeVars
    <2>3. CASE x = y
      <3>1. path'[x] = p /\ password'[x] = k /\ k \in Keys /\ p = PathOf[issuedTo[k]]
        BY <1>1, <2>1, <2>3 DEF Follows, ServiceTypeOK
      <3> QED BY <1>2, <2>2, <3>1 DEF Channel, Presented
    <2>4. CASE x # y
      BY <1>1, <1>3, <2>1, <2>2, <2>4 DEF ServiceTypeOK
    <2> QED BY <2>3, <2>4
  <1>7. CASE Restart
    <2>1. UNCHANGED <<password, path>> /\ stage[x] # "idle"
      BY <1>1, <1>7 DEF Restart, ServiceTypeOK
    <2> QED BY <1>3, <2>1
  <1>8. CASE UNCHANGED serviceVars
    BY <1>3, <1>8 DEF serviceVars, sessionVars
  <1> QED BY <1>3, <1>4, <1>5, <1>6, <1>7, <1>8 DEF ServiceNext

\* If encoders present the key as password under the bare slug, and no slug has
\* a slash, no channel stays listed whose sources' ends were all reported.
THEOREM ServiceOfflineOnceReported ==
    ASSUME Conventions = {"password"}, \A s \in Slugs : LastSegment[PathOf[s]] = s
    PROVE  ServiceSpec => []OfflineOnceReported
  <1>1. ServiceInit => UnderOwnSlug
    BY DEF ServiceInit, UnderOwnSlug
  <1>2. ServiceInv /\ UnderOwnSlug /\ [ServiceNext]_serviceVars => UnderOwnSlug'
    BY UnderOwnSlugStep
  <1>3. ServiceInv /\ UnderOwnSlug /\ LiveHasCause => OfflineOnceReported
    <2> SUFFICES ASSUME UnderOwnSlug, LiveHasCause, NEW s \in Slugs, s \in ListLive
                 PROVE  \E x \in Sessions : stage[x] \in Unfinished /\ Channel(x) = s
      BY DEF OfflineOnceReported, ListLive
    <2> DEFINE x == lastIn[s]
    <2>1. /\ x \in Sessions /\ stage[x] \in Unfinished \cup {"done"} /\ Channel(x) = s
          /\ stage[x] = "done" => ~LeadsTo(LastSegment[path[x]], s)
      BY DEF LiveHasCause
    <2>2. LastSegment[path[x]] = s
      BY <2>1 DEF UnderOwnSlug, Unfinished
    <2> QED BY <2>1, <2>2 DEF LeadsTo
  <1> QED BY <1>1, <1>2, <1>3, ServiceInvariant, ServiceLiveHasCause, PTL DEF ServiceSpec

\* A key works until it is rotated away or revoked: nothing else, no matter
\* what the other keys and channels go through, makes it stop.
LEMMA KeyWorksStep ==
    ASSUME ServiceInv, KeyWorksUntilRetired, [ServiceNext]_serviceVars
    PROVE  KeyWorksUntilRetired'
  <1> SUFFICES ASSUME restarts' = 0, NEW k \in Keys, issuedTo'[k] # NoSlug, k \notin retired'
               PROVE  FindByKey(k)' = issuedTo'[k]
    BY DEF KeyWorksUntilRetired, FindByKey
  <1> USE DEF FindByKey
  <1>1. StoreInv /\ StoreTypeOK /\ restarts \in Nat
    BY ServiceAssumption DEF ServiceInv, ServiceTypeOK, StoreInv
  <1>2. ASSUME restarts = 0, issuedTo[k] # NoSlug, k \notin retired
        PROVE  byKeyHash[HashOf[k]] = issuedTo[k]
    BY <1>2 DEF KeyWorksUntilRetired
  <1>3. ASSUME NEW s \in Slugs, CreateStreamKey(s)
        PROVE  FindByKey(k)' = issuedTo'[k]
    <2>1. PICK l \in Keys : CreateKey(s, l) /\ restarts' = restarts
      BY <1>3 DEF CreateStreamKey
    <2>2. CASE l = k
      BY <1>1, <2>1, <2>2, HashType DEF CreateKey, StoreTypeOK
    <2>3. CASE l # k
      <3>1. HashOf[l] # HashOf[k] /\ issuedTo'[k] = issuedTo[k] /\ retired' = retired
        BY <1>1, <2>1, <2>3, HashInjective DEF CreateKey, StoreTypeOK
      <3> QED BY <1>1, <1>2, <2>1, <3>1, HashType DEF CreateKey, StoreTypeOK
    <2> QED BY <2>2, <2>3
  <1>4. ASSUME NEW s \in Slugs, RotateStreamKey(s)
        PROVE  FindByKey(k)' = issuedTo'[k]
    <2>1. PICK l \in Keys : RotateKey(s, l) /\ restarts' = restarts
      BY <1>4 DEF RotateStreamKey
    <2>2. byKeyHash' = [byKeyHash EXCEPT ![channels[s].keyHash] = NoSlug, ![HashOf[l]] = s]
      BY <2>1 DEF RotateKey, Reindex
    <2>3. CASE l = k
      BY <1>1, <2>1, <2>2, <2>3, HashType DEF RotateKey, StoreTypeOK
    <2>4. CASE l # k
      <3>1. /\ HashOf[l] # HashOf[k] /\ issuedTo'[k] = issuedTo[k]
            /\ k \notin retired /\ k \notin CurrentKeys(s) /\ Exists(s)
        BY <1>1, <2>1, <2>4, HashInjective DEF RotateKey, StoreTypeOK
      <3>2. channels[s].keyHash # HashOf[k]
        BY <3>1 DEF CurrentKeys
      <3> QED BY <1>1, <1>2, <2>1, <2>2, <3>1, <3>2, HashType DEF StoreTypeOK
    <2> QED BY <2>3, <2>4
  <1>5. ASSUME NEW s \in Slugs, RevokeStreamKey(s)
        PROVE  FindByKey(k)' = issuedTo'[k]
    <2>1. /\ issuedTo'[k] = issuedTo[k] /\ restarts' = restarts
          /\ k \notin retired /\ channels[s].keyHash # HashOf[k]
      BY <1>5 DEF RevokeStreamKey, RevokeKey, CurrentKeys
    <2> QED BY <1>1, <1>2, <1>5, <2>1, HashType DEF RevokeStreamKey, RevokeKey, StoreTypeOK
  <1>6. ASSUME NEW x \in Sessions,
               \/ Connect(x) \/ AuthFind(x) \/ AuthSetLive(x) \/ PublishStarts(x)
               \/ PublishAborts(x) \/ SourceDisconnects(x)
               \/ HookFind(x) \/ HookSetLive(x) \/ HookLost(x)
        PROVE  FindByKey(k)' = issuedTo'[k]
    <2>1. UNCHANGED <<byKeyHash, issuedTo, retired, restarts>>
      BY <1>6 DEF Connect, AuthFind, AuthSetLive, PublishStarts, PublishAborts, SourceDisconnects,
         HookFind, HookSetLive, HookLost, SetLive, storeVars
    <2> QED BY <1>2, <2>1
  <1>7. ~Restart
    BY <1>1 DEF Restart
  <1>8. CASE UNCHANGED serviceVars
    BY <1>2, <1>8 DEF serviceVars, storeVars
  <1> QED BY <1>3, <1>4, <1>5, <1>6, <1>7, <1>8 DEF ServiceNext

\* Until the service restarts, a key that was not taken back lets its encoder in.
THEOREM ServiceKeyWorksUntilRetired == ServiceSpec => []KeyWorksUntilRetired
  <1>1. ServiceInit => KeyWorksUntilRetired
    BY DEF ServiceInit, StoreInit, KeyWorksUntilRetired
  <1>2. ServiceInv /\ KeyWorksUntilRetired /\ [ServiceNext]_serviceVars => KeyWorksUntilRetired'
    BY KeyWorksStep
  <1> QED BY <1>1, <1>2, ServiceInvariant, PTL DEF ServiceSpec
-----------------------------------------------------------------------------
\* What keeps ListedUnlessCleared: between its two sections the auth webhook
\* relies on the channel it found, which only a revocation or a restart takes
\* away.
LetInExists ==
    \A x \in Sessions \ cleared :
        stage[x] \in {"found", "accepted", "publishing"} => Exists(Channel(x))

LEMMA ListedStep ==
    ASSUME ServiceInv, LetInExists, ListedUnlessCleared, [ServiceNext]_serviceVars
    PROVE  LetInExists' /\ ListedUnlessCleared'
  <1> DEFINE InThere(x) == stage[x] \in {"found", "accepted", "publishing"}
             Showing(x) == stage[x] \in {"accepted", "publishing"}
  <1>1. \A y \in Sessions : stage[y] \notin {"idle", "asking", "rejected"} =>
            Presented(y) \in Keys /\ Channel(y) \in Slugs
    BY HoldsKey
  <1>2. \A k \in Keys : issuedTo[k] \in Slugs => issuedTo'[k] = issuedTo[k]
    BY ServiceStepIsStoreStep, StepKeys, StoreAssumption DEF ServiceInv
  <1>3. StoreTypeOK /\ StoreInv /\ ServiceTypeOK
    BY DEF ServiceInv, StoreInv
  <1>0. \A y \in Sessions : stage'[y] \in {"found", "accepted", "publishing"} => Channel(y)' \in Slugs
    <2>1. ServiceInv'
      BY ServiceStepInv
    <2>2. ServiceTypeOK' /\ SessionKeys' /\ StoreTypeOK'
      BY <2>1 DEF ServiceInv, StoreInv
    <2> SUFFICES ASSUME NEW y \in Sessions, stage'[y] \in {"found", "accepted", "publishing"}
                 PROVE  Channel(y)' \in Slugs
      OBVIOUS
    <2>3. /\ Presented(y)' \in Keys
          /\ \A k \in Keys \cap {password'[y], LastSegment[path'[y]]} : issuedTo'[k] \in Slugs
      BY <2>2 DEF SessionKeys
    <2> QED BY <2>3 DEF Channel, Presented
  <1> SUFFICES ASSUME NEW x \in Sessions, x \notin cleared', InThere(x)'
               PROVE  Exists(Channel(x))' /\ (Showing(x)' => IsLive(Channel(x))')
    BY <1>0 DEF LetInExists, ListedUnlessCleared, ListLive, IsLive
  <1>4. ASSUME x \notin cleared, InThere(x)
        PROVE  Exists(Channel(x)) /\ (Showing(x) => IsLive(Channel(x)))
    BY <1>4 DEF LetInExists, ListedUnlessCleared, ListLive
  <1> HIDE DEF InThere, Showing
  <1>5. ASSUME x \notin cleared, InThere(x), path'[x] = path[x], password'[x] = password[x],
               channels' = channels,
               Showing(x)' => Showing(x)
        PROVE  Exists(Channel(x))' /\ (Showing(x)' => IsLive(Channel(x))')
    <2>1. Channel(x)' = Channel(x)
      BY <1>1, <1>2, <1>5 DEF InThere, Channel, Presented
    <2> QED BY <1>4, <1>5, <2>1 DEF Exists, IsLive
  <1>6. ASSUME NEW t \in Slugs, CreateStreamKey(t) \/ RotateStreamKey(t) \/ RevokeStreamKey(t)
        PROVE  Exists(Channel(x))' /\ (Showing(x)' => IsLive(Channel(x))')
    <2>1. UNCHANGED <<stage, path, password>> /\ x \notin cleared
      BY <1>6 DEF CreateStreamKey, RotateStreamKey, RevokeStreamKey, sessionVars, historyVars
    <2>2. InThere(x) /\ (Showing(x)' <=> Showing(x))
      BY <2>1 DEF InThere, Showing
    <2>3. Channel(x)' = Channel(x) /\ Channel(x) \in Slugs
      BY <1>1, <1>2, <2>1, <2>2 DEF InThere, Channel, Presented
    <2>4. Exists(Channel(x)) /\ (Showing(x) => IsLive(Channel(x)))
      BY <1>4, <2>1, <2>2
    <2>5. Exists(Channel(x))' /\ channels'[Channel(x)].live = channels[Channel(x)].live
      <3>1. CASE CreateStreamKey(t)
        BY <2>3, <2>4, <3>1, <1>3 DEF CreateStreamKey, CreateKey, Exists, StoreTypeOK
      <3>2. CASE RotateStreamKey(t)
        <4>1. PICK k \in Keys : channels' = [channels EXCEPT ![t] = [channels[t] EXCEPT !.keyHash = HashOf[k]]]
          BY <3>2 DEF RotateStreamKey, RotateKey
        <4>2. channels[t] \in Records
          BY <1>3, <3>2 DEF RotateStreamKey, RotateKey, Exists, StoreTypeOK
        <4>3. channels'[t].live = channels[t].live /\ channels'[t] \in Records
          BY <4>1, <4>2, StoreAssumption, HashType, <1>3 DEF Records, StoreTypeOK
        <4>4. \A r \in Records : r # NoChannel
          BY StoreAssumption DEF Records
        <4> QED BY <1>3, <2>3, <2>4, <4>1, <4>3, <4>4 DEF Exists, StoreTypeOK
      <3>3. CASE RevokeStreamKey(t)
        <4>1. t # Channel(x)
          BY <2>1, <2>2, <3>3 DEF RevokeStreamKey, LetIn, InThere
        <4> QED BY <1>3, <2>3, <2>4, <3>3, <4>1
                DEF RevokeStreamKey, RevokeKey, Exists, StoreTypeOK
      <3> QED BY <1>6, <3>1, <3>2, <3>3
    <2> QED BY <2>2, <2>3, <2>4, <2>5 DEF IsLive
  <1>7. ASSUME NEW y \in Sessions, Connect(y) \/ PublishAborts(y) \/ SourceDisconnects(y)
                                    \/ HookFind(y) \/ HookLost(y) \/ PublishStarts(y)
        PROVE  Exists(Channel(x))' /\ (Showing(x)' => IsLive(Channel(x))')
    <2>1. channels' = channels /\ x \notin cleared
      BY <1>7 DEF Connect, PublishAborts, SourceDisconnects, HookFind, HookLost, PublishStarts, storeVars,
         historyVars
    <2>2. InThere(x) /\ (Showing(x)' => Showing(x)) /\ path'[x] = path[x] /\ password'[x] = password[x]
      BY <1>3, <1>7 DEF Connect, PublishAborts, SourceDisconnects, HookFind, HookLost, PublishStarts,
         InThere, Showing, ServiceTypeOK
    <2> QED BY <1>5, <2>1, <2>2
  <1>8. ASSUME NEW y \in Sessions, AuthFind(y)
        PROVE  Exists(Channel(x))' /\ (Showing(x)' => IsLive(Channel(x))')
    <2>1. channels' = channels /\ x \notin cleared /\ path' = path /\ password' = password
      BY <1>8 DEF AuthFind, storeVars, historyVars
    <2>2. CASE x = y
      <3>1. /\ stage[x] = "asking" /\ ~Showing(x)' /\ Presented(x) \in Tokens
            /\ FindByKey(Presented(x)) # NoSlug
        BY <1>3, <1>8, <2>2, Carried DEF AuthFind, InThere, Showing, ServiceTypeOK
      <3>2. Presented(x) \in Keys /\ FindByKey(Presented(x)) = Channel(x)
            /\ Channel(x) \in Slugs /\ Channel(x)' = Channel(x)
        <4>1. Presented(x) \in Keys /\ FindByKey(Presented(x)) = issuedTo[Presented(x)]
          BY <1>3, <3>1, FindByKeyType
        <4>2. issuedTo[Presented(x)] \in Slugs
          BY <3>1, <4>1, Carried
        <4> QED BY <1>2, <2>1, <4>1, <4>2 DEF Channel, Presented
      <3>3. Exists(Channel(x))
        <4>1. HashOf[Presented(x)] \in Hashes
          BY <3>2, HashType
        <4>2. byKeyHash[HashOf[Presented(x)]] = Channel(x)
          BY <3>2 DEF FindByKey
        <4> QED BY <1>3, <3>2, <4>1, <4>2, StoreAssumption
                DEF StoreInv, IndexConsistent, Exists
      <3> QED BY <2>1, <3>1, <3>2, <3>3 DEF Exists
    <2>3. CASE x # y
      <3>1. stage'[x] = stage[x]
        BY <1>3, <1>8, <2>3 DEF AuthFind, ServiceTypeOK
      <3>2. InThere(x) /\ (Showing(x)' => Showing(x))
        BY <3>1 DEF InThere, Showing
      <3> QED BY <1>5, <2>1, <3>2
    <2> QED BY <2>2, <2>3
  <1>9. ASSUME NEW y \in Sessions, AuthSetLive(y)
        PROVE  Exists(Channel(x))' /\ (Showing(x)' => IsLive(Channel(x))')
    <2>1. x \notin cleared /\ SetLive(found[y], TRUE) /\ stage[y] = "found"
          /\ path' = path /\ password' = password
          /\ stage' = [stage EXCEPT ![y] = "accepted"]
      BY <1>9 DEF AuthSetLive
    <2>2. InThere(x) /\ (x # y => Showing(x)' = Showing(x))
      BY <1>3, <2>1 DEF InThere, Showing, ServiceTypeOK
    <2>3. found[y] = Channel(y) /\ Channel(x) \in Slugs /\ Channel(x)' = Channel(x)
      BY <1>1, <1>2, <2>1, <2>2 DEF ServiceInv, FoundIsNamed, InThere, Channel, Presented
    <2>4. Exists(Channel(x)) /\ (Showing(x) => IsLive(Channel(x)))
      BY <1>4, <2>1, <2>2
    <2>5. CASE Channel(x) = Channel(y)
      <3>1. channels' = [channels EXCEPT ![Channel(x)] = [channels[Channel(x)] EXCEPT !.live = TRUE]]
        BY <2>1, <2>3, <2>4, <2>5 DEF SetLive
      <3>2. channels[Channel(x)] \in Records
        BY <1>3, <2>3, <2>4 DEF Exists, StoreTypeOK
      <3>3. channels'[Channel(x)] \in Records /\ channels'[Channel(x)].live
        BY <1>3, <2>3, <3>1, <3>2 DEF Records, StoreTypeOK
      <3>4. \A r \in Records : r # NoChannel
        BY StoreAssumption DEF Records
      <3> QED BY <2>3, <3>3, <3>4 DEF Exists, IsLive
    <2>6. CASE Channel(x) # Channel(y)
      <3>1. channels'[Channel(x)] = channels[Channel(x)] /\ x # y
        BY <1>3, <2>1, <2>3, <2>6 DEF SetLive, StoreTypeOK
      <3> QED BY <2>2, <2>3, <2>4, <3>1 DEF Exists, IsLive
    <2> QED BY <2>5, <2>6
  <1>10. ASSUME NEW y \in Sessions, HookSetLive(y)
         PROVE  Exists(Channel(x))' /\ (Showing(x)' => IsLive(Channel(x))')
    <2>1. /\ path' = path /\ password' = password /\ SetLive(found[y], FALSE) /\ stage[y] = "ending"
          /\ stage' = [stage EXCEPT ![y] = "done"]
          /\ cleared' = cleared \cup {z \in LetIn(found[y]) \ {y} : stage[z] # "found"}
      BY <1>10 DEF HookSetLive
    <2>2. x # y /\ InThere(x) /\ Showing(x)' = Showing(x) /\ x \notin cleared
      BY <1>3, <2>1 DEF InThere, Showing, ServiceTypeOK
    <2>3. found[y] \in Slugs /\ Channel(x) \in Slugs /\ Channel(x)' = Channel(x)
      <3>1. found[y] = Named(LastSegment[path[y]])
        BY <2>1 DEF ServiceInv, FoundIsNamed
      <3>2. found[y] \in Slugs
        BY <2>1, <3>1, Carried, Resolves
      <3> QED BY <1>1, <1>2, <2>1, <2>2, <3>2 DEF InThere, Channel, Presented
    <2>4. Exists(Channel(x)) /\ (Showing(x) => IsLive(Channel(x)))
      BY <1>4, <2>2
    <2>5. CASE Channel(x) = found[y]
      <3>1. stage[x] = "found"
        BY <2>1, <2>2, <2>3, <2>5 DEF LetIn, InThere
      <3>2. ~Showing(x)'
        BY <2>2, <3>1 DEF Showing
      <3>3. channels' = [channels EXCEPT ![Channel(x)] = [channels[Channel(x)] EXCEPT !.live = FALSE]]
        BY <2>1, <2>3, <2>4, <2>5 DEF SetLive
      <3>4. channels[Channel(x)] \in Records
        BY <1>3, <2>3, <2>4 DEF Exists, StoreTypeOK
      <3>5. channels'[Channel(x)] \in Records
        BY <1>3, <2>3, <3>3, <3>4 DEF Records, StoreTypeOK
      <3>6. \A r \in Records : r # NoChannel
        BY StoreAssumption DEF Records
      <3> QED BY <2>3, <3>2, <3>5, <3>6 DEF Exists
    <2>6. CASE Channel(x) # found[y]
      <3>1. channels'[Channel(x)] = channels[Channel(x)]
        BY <1>3, <2>1, <2>3, <2>6 DEF SetLive, StoreTypeOK
      <3> QED BY <2>2, <2>3, <2>4, <3>1 DEF Exists, IsLive
    <2> QED BY <2>5, <2>6
  <1>11. CASE Restart
    <2>1. stage[x] \in {"found", "accepted", "publishing"}
      BY <1>3, <1>11 DEF Restart, InThere, ServiceTypeOK, Stages
    <2>2. x \in cleared'
      BY <1>1, <1>11, <2>1 DEF Restart, LetIn
    <2> QED BY <2>2
  <1>12. CASE UNCHANGED serviceVars
    <2>1. /\ x \notin cleared /\ UNCHANGED <<path, password, channels>>
          /\ InThere(x) /\ (Showing(x)' => Showing(x))
      BY <1>12 DEF serviceVars, sessionVars, historyVars, storeVars, InThere, Showing
    <2> QED BY <1>5, <2>1
  <1> QED BY <1>6, <1>7, <1>8, <1>9, <1>10, <1>11, <1>12 DEF ServiceNext

\* A channel that streams stays listed until it is revoked, the service
\* restarts or another session whose path leads to it is reported as over,
\* whatever else the requests and webhooks of any channels do in between.
THEOREM ServiceListedUnlessCleared == ServiceSpec => []ListedUnlessCleared
  <1>1. ServiceInit => LetInExists /\ ListedUnlessCleared
    BY DEF ServiceInit, LetInExists, ListedUnlessCleared
  <1>2. ServiceInv /\ LetInExists /\ ListedUnlessCleared /\ [ServiceNext]_serviceVars
            => LetInExists' /\ ListedUnlessCleared'
    BY ListedStep
  <1> QED BY <1>1, <1>2, ServiceInvariant, PTL DEF ServiceSpec
=============================================================================
