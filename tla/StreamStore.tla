----------------------------- MODULE StreamStore -----------------------------
(***************************************************************************)
(* The registry of stream keys and live channels of the streams service    *)
(* (services/streams/store.go).  Each operation is one critical section of *)
(* the store's mutex; a call that returns an error changes nothing, so it  *)
(* is no step here.                                                        *)
(***************************************************************************)
EXTENDS Naturals

CONSTANTS
    Slugs,      \* channel names
    Keys,       \* the keys generateKey may draw; no slug is one of them
    Hashes,     \* what hashKey returns
    HashOf,     \* SHA-256 of keys and of anything else presented as one
    NoChannel,  \* the absence of a record in store.channels
    NoSlug      \* the absence of an entry in store.byKeyHash

Tokens == Keys \cup Slugs
Records == [keyHash : Hashes, live : BOOLEAN]

ASSUME StoreAssumption ==
    /\ Keys \cap Slugs = {}
    /\ HashOf \in [Tokens -> Hashes]
    /\ \A t, u \in Tokens : HashOf[t] = HashOf[u] => t = u
    /\ NoChannel \notin Records
    /\ NoSlug \notin Slugs

VARIABLES
    channels,   \* store.channels: slug -> record
    byKeyHash,  \* store.byKeyHash: hash -> slug
    issuedTo,   \* history: the slug each key was generated for
    retired     \* history: the keys replaced by a rotation or revoked

storeVars == <<channels, byKeyHash, issuedTo, retired>>

StoreTypeOK ==
    /\ channels \in [Slugs -> Records \cup {NoChannel}]
    /\ byKeyHash \in [Hashes -> Slugs \cup {NoSlug}]
    /\ issuedTo \in [Keys -> Slugs \cup {NoSlug}]
    /\ retired \in SUBSET Keys

StoreInit ==
    /\ channels = [s \in Slugs |-> NoChannel]
    /\ byKeyHash = [h \in Hashes |-> NoSlug]
    /\ issuedTo = [k \in Keys |-> NoSlug]
    /\ retired = {}
-----------------------------------------------------------------------------
(* Reads *)

Exists(s) == channels[s] # NoChannel

\* NoSlug when the token is no current key.
FindByKey(t) == byKeyHash[HashOf[t]]

IsLive(s) == Exists(s) /\ channels[s].live

ListLive == {s \in Slugs : IsLive(s)}

\* The keys whose hash is the current one of s.
CurrentKeys(s) == {k \in Keys : Exists(s) /\ channels[s].keyHash = HashOf[k]}
-----------------------------------------------------------------------------
(* Writes *)

\* Variant: a key that was in use before may be drawn again.
AnyKey(k) == TRUE

\* generateKey draws 24 random bytes: a key nobody was given before.
FreshKey(k) == issuedTo[k] = NoSlug

CreateKey(s, k) ==
    /\ ~Exists(s)
    /\ FreshKey(k)
    /\ channels' = [channels EXCEPT ![s] = [keyHash |-> HashOf[k], live |-> FALSE]]
    /\ byKeyHash' = [byKeyHash EXCEPT ![HashOf[k]] = s]
    /\ issuedTo' = [issuedTo EXCEPT ![k] = s]
    /\ UNCHANGED retired

\* Variant: the entry of the old key stays in the index.
ReindexKeepsOld(s, new) == [byKeyHash EXCEPT ![new] = s]

\* Variant: the record is updated before the delete reads its hash.
ReindexTooLate(s, new) == [byKeyHash EXCEPT ![new] = NoSlug]

\* delete of the old hash, then the entry of the new one.
Reindex(s, new) == [byKeyHash EXCEPT ![channels[s].keyHash] = NoSlug, ![new] = s]

\* Variant: a rotation makes a new record, as the creation of a channel does.
RotateKeyAnew(s, k) ==
    /\ Exists(s)
    /\ FreshKey(k)
    /\ channels' = [channels EXCEPT ![s] = [keyHash |-> HashOf[k], live |-> FALSE]]
    /\ byKeyHash' = Reindex(s, HashOf[k])
    /\ issuedTo' = [issuedTo EXCEPT ![k] = s]
    /\ retired' = retired \cup CurrentKeys(s)

\* The record is updated in place: a live channel stays live.
RotateKey(s, k) ==
    /\ Exists(s)
    /\ FreshKey(k)
    /\ channels' = [channels EXCEPT ![s] = [@ EXCEPT !.keyHash = HashOf[k]]]
    /\ byKeyHash' = Reindex(s, HashOf[k])
    /\ issuedTo' = [issuedTo EXCEPT ![k] = s]
    /\ retired' = retired \cup CurrentKeys(s)

\* Variant: a revoked channel loses its record and keeps its index entry.
RevokeKeyRecordOnly(s) ==
    /\ Exists(s)
    /\ channels' = [channels EXCEPT ![s] = NoChannel]
    /\ retired' = retired \cup CurrentKeys(s)
    /\ UNCHANGED <<byKeyHash, issuedTo>>

RevokeKey(s) ==
    /\ Exists(s)
    /\ byKeyHash' = [byKeyHash EXCEPT ![channels[s].keyHash] = NoSlug]
    /\ channels' = [channels EXCEPT ![s] = NoChannel]
    /\ retired' = retired \cup CurrentKeys(s)
    /\ UNCHANGED issuedTo

\* SetLive, whose error for an unknown slug its callers ignore.
SetLive(s, live) ==
    /\ channels' = IF Exists(s) THEN [channels EXCEPT ![s] = [@ EXCEPT !.live = live]]
                                ELSE channels
    /\ UNCHANGED <<byKeyHash, issuedTo, retired>>

\* The process restarts: the store is in memory only.
StoreLost ==
    /\ channels' = [s \in Slugs |-> NoChannel]
    /\ byKeyHash' = [h \in Hashes |-> NoSlug]
    /\ UNCHANGED <<issuedTo, retired>>

StoreNext ==
    \/ \E s \in Slugs, k \in Keys : CreateKey(s, k) \/ RotateKey(s, k)
    \/ \E s \in Slugs : RevokeKey(s)
    \/ \E s \in Slugs, live \in BOOLEAN : SetLive(s, live)
    \/ StoreLost

StoreSpec == StoreInit /\ [][StoreNext]_storeVars
-----------------------------------------------------------------------------
(* Properties *)

\* The two maps agree: a hash leads to a channel exactly when it is the hash
\* of the current key of that channel.  No sequence of create, rotate and
\* revoke leaves an index entry without its record, or two keys for a channel
\* (store.go:64-116).
IndexConsistent ==
    \A h \in Hashes, s \in Slugs :
        byKeyHash[h] = s <=> Exists(s) /\ channels[s].keyHash = h

\* A key leads to the channel it was issued for or to none, and a key that was
\* rotated away or revoked leads to none, for ever (store.go:81-83, 103-104).
RetiredKeysStayDead ==
    \A k \in Keys :
        /\ FindByKey(k) \in {issuedTo[k], NoSlug}
        /\ k \in retired => FindByKey(k) = NoSlug

\* A token that resolves to no channel after it was issued never does again,
\* and one never comes to lead to another channel.
KeysNeverComeBack ==
    [][\A k \in Keys : issuedTo[k] # NoSlug =>
          /\ issuedTo'[k] = issuedTo[k]
          /\ FindByKey(k)' \in {FindByKey(k), NoSlug}]_storeVars

\* The inductive invariant: a slug is never a key, and every current hash is
\* that of an issued key that is not retired.
CurrentHashes ==
    \A s \in Slugs : Exists(s) =>
        \E k \in Keys : /\ channels[s].keyHash = HashOf[k]
                        /\ issuedTo[k] = s
                        /\ k \notin retired

RetiredWereIssued == \A k \in retired : issuedTo[k] # NoSlug

StoreInv ==
    /\ StoreTypeOK
    /\ IndexConsistent
    /\ CurrentHashes
    /\ RetiredWereIssued
=============================================================================
