-------------------------- MODULE Recordings_proofs --------------------------
(***************************************************************************)
(* What the recorder and the listing of Recordings guarantee for any paths, *)
(* segments and listings.                                                  *)
(***************************************************************************)
EXTENDS Recordings, TLAPS

\* The bucket only grows, and with it what it holds under each prefix.
LEMMA StoredGrows ==
    ASSUME NEW p, bucket \subseteq bucket'
    PROVE  StoredFor(p) \subseteq StoredFor(p)'
BY DEF StoredFor

\* A prefix selects what is stored under the path it is made of, and the one of
\* a slug other than "." nothing else.
LEMMA PrefixOfOneChannel ==
    ASSUME NEW p, NEW s
    PROVE  /\ Joined(p) # <<>> /\ PathOf(s) = p => Selects(p, s)
           /\ p # Dot /\ Selects(p, s) => PathOf(s) = p
<1> DEFINE q == PathOf(s)
<1>1. p # Dot /\ Selects(p, s) => q = p
  <2> SUFFICES ASSUME p # Dot, Selects(p, s)
               PROVE  q = p
    OBVIOUS
  <2>1. p # DotDot /\ Joined(p) = <<"recordings", p>>
    BY DEF Selects, Joined
  <2>2. Len(Joined(q)) >= 2 /\ Joined(q)[2] = p
    BY <2>1 DEF Selects
  <2>3. Joined(q) = <<"recordings", q>>
    BY <2>2 DEF Joined
  <2> QED
    BY <2>2, <2>3
<1>2. Joined(p) # <<>> /\ q = p => Selects(p, s)
  <2>1. Len(Joined(p)) \in Nat
    BY DEF Joined
  <2> QED
    BY <2>1 DEF Selects
<1> QED
  BY <1>1, <1>2

\* Uploads and crashes do not disturb a listing that is under way.
LEMMA ListingUndisturbed ==
    ASSUME ListingProgress, UNCHANGED listingVars, bucket \subseteq bucket'
    PROVE  ListingProgress'
<1> SUFFICES ASSUME NEW l \in Listers
             PROVE  Progress(l)'
  BY DEF ListingProgress
<1>1. StoredFor(slug[l]) \subseteq StoredFor(slug[l])'
  BY DEF StoredFor, listingVars
<1>2. Collected(l)' = Collected(l) /\ (InOrder(l) <=> InOrder(l)')
  BY DEF Collected, InOrder, listingVars
<1>3. Progress(l)
  BY DEF ListingProgress
<1>4. UNCHANGED <<phase, slug, pages, token, asked>>
  BY DEF listingVars
<1> QED
  BY <1>1, <1>2, <1>3, <1>4 DEF Progress

LEMMA SegmentStep ==
    ASSUME RecordingsInv, NEW s \in Segments,
           SegmentCompletes(s) \/ Recorder(s) \/ RequestArrives(s) \/ ObjectStored(s) \/ Expire(s)
    PROVE  RecordingsInv'
<1> USE DEF RecordingsInv, RecordingsTypeOK, SegmentSafe, SentIsListable, listingVars
<1>1. bucket \subseteq bucket' /\ UNCHANGED listingVars
  BY DEF SegmentCompletes, Recorder, Refuse, OpenSegment, OpenFails, UploadSucceeds, UploadFails,
         RemoveLocal, RemoveFails, RequestArrives, ObjectStored, Expire
<1>2. ListingProgress'
  BY <1>1, ListingUndisturbed
<1>3. (RecordingsTypeOK /\ SegmentSafe /\ SentIsListable)'
  <2> USE DEF Exits, Acceptable
  <2>1. CASE SegmentCompletes(s)
    BY <2>1 DEF SegmentCompletes
  <2>2. CASE Refuse(s) \/ OpenFails(s)
    BY <2>2 DEF Refuse, OpenFails
  <2>3. CASE OpenSegment(s)
    <3>1. Listable(PathOf(s)) \/ PathOf(s) = DotDot
      BY <2>3 DEF OpenSegment, Listable, Joined
    <3> QED
      BY <2>3, <3>1 DEF OpenSegment
  <2>4. CASE UploadSucceeds(s)
    BY <2>4 DEF UploadSucceeds
  <2>5. CASE UploadFails(s) \/ RemoveFails(s)
    BY <2>5 DEF UploadFails, RemoveFails
  <2>6. CASE RemoveLocal(s)
    BY <2>6 DEF RemoveLocal
  <2>7. CASE RequestArrives(s)
    BY <2>7 DEF RequestArrives
  <2>8. CASE ObjectStored(s)
    BY <2>8 DEF ObjectStored
  <2>9. CASE Expire(s)
    BY <2>9 DEF Expire
  <2> QED
    BY <2>1, <2>2, <2>3, <2>4, <2>5, <2>6, <2>7, <2>8, <2>9 DEF Recorder
<1> QED
  BY <1>2, <1>3

LEMMA RestartStep == RecordingsInv /\ PodRestart => RecordingsInv'
<1> SUFFICES ASSUME RecordingsInv, PodRestart
             PROVE  RecordingsInv'
  OBVIOUS
<1>1. ListingProgress'
  BY ListingUndisturbed DEF RecordingsInv, PodRestart
<1> QED
  BY <1>1 DEF RecordingsInv, PodRestart, RecordingsTypeOK, SegmentSafe, SentIsListable,
              listingVars

\* A step of one listing leaves the others as they are.
LEMMA OneLister ==
    ASSUME RecordingsInv, NEW l \in Listers, UNCHANGED bucket, Progress(l)',
           \A m \in Listers \ {l} :
              /\ phase'[m] = phase[m] /\ pages'[m] = pages[m]
              /\ token'[m] = token[m] /\ asked'[m] = asked[m] /\ slug'[m] = slug[m]
    PROVE  ListingProgress'
<1> SUFFICES ASSUME NEW m \in Listers
             PROVE  Progress(m)'
  BY DEF ListingProgress
<1>1. CASE m = l
  BY <1>1
<1>2. CASE m # l
  <2>1. Progress(m)
    BY DEF RecordingsInv, ListingProgress
  <2>2. Collected(m)' = Collected(m) /\ (InOrder(m) <=> InOrder(m)')
    BY <1>2 DEF Collected, InOrder
  <2>3. StoredFor(slug[m])' = StoredFor(slug[m])
    BY <1>2 DEF StoredFor
  <2> QED
    BY <1>2, <2>1, <2>2, <2>3 DEF Progress
<1> QED
  BY <1>1, <1>2

\* A page continues the order of those before it and brings the listing
\* forward to its last key.
LEMMA PageProgress ==
    ASSUME RecordingsInv, NEW l \in Listers, NextPage(l)
    PROVE  Progress(l)'
<1> DEFINE S == StoredFor(slug[l])
<1>1. Progress(l) /\ phase[l] = "paging"
  BY DEF RecordingsInv, ListingProgress, NextPage
<1>2. /\ S \subseteq Segments /\ token[l] \in Nat /\ asked[l] \subseteq Segments
      /\ pages[l] \in Seq(SUBSET Segments)
  BY DEF RecordingsInv, RecordingsTypeOK, StoredFor
<1>3. \A s \in Segments : Place[s] \in Nat
  BY PlaceAssumption
<1>4. PICK last \in Remaining(l) :
        LET page == {s \in Remaining(l) : Place[s] <= Place[last]} IN
        /\ pages' = [pages EXCEPT ![l] = Appended(l, page)]
        /\ token' = [token EXCEPT ![l] = Place[last]]
        /\ phase' = [phase EXCEPT ![l] = IF page = Remaining(l) THEN "listed" ELSE "paging"]
  BY DEF NextPage
<1> DEFINE page == {s \in Remaining(l) : Place[s] <= Place[last]}
<1> DEFINE n == Len(pages[l])
<1>5. /\ pages'[l] = Append(pages[l], page)
      /\ token'[l] = Place[last]
      /\ phase'[l] = IF page = Remaining(l) THEN "listed" ELSE "paging"
      /\ asked'[l] = asked[l] /\ slug'[l] = slug[l] /\ S' = S
  BY <1>4 DEF RecordingsInv, RecordingsTypeOK, Appended, NextPage, recorderVars, StoredFor
<1>6. /\ last \in Segments /\ Place[last] > token[l]
      /\ page \subseteq S /\ page \in SUBSET Segments
      /\ \A s \in page : Place[s] > token[l] /\ Place[s] <= Place[last]
  BY <1>2, <1>4 DEF Remaining
<1>7. n \in Nat
  BY <1>2
<1> HIDE DEF page
<1>8. /\ Len(pages'[l]) = n + 1
      /\ \A i \in 1..n : pages'[l][i] = pages[l][i]
      /\ pages'[l][n + 1] = page
  BY <1>2, <1>5, <1>6, <1>7
<1>9. Collected(l)' = Collected(l) \cup page
  <2>1. 1..Len(pages'[l]) = (1..n) \cup {n + 1}
    BY <1>7, <1>8
  <2> QED
    BY <1>8, <2>1 DEF Collected
<1>10. \A i \in 1..(n + 1) : /\ pages'[l][i] \subseteq S
                             /\ \A s \in pages'[l][i] : Place[s] <= Place[last]
  <2> TAKE i \in 1..(n + 1)
  <2>1. CASE i \in 1..n
    <3>1. pages[l][i] \subseteq S /\ \A s \in pages[l][i] : Place[s] <= token[l]
      BY <1>1, <2>1 DEF Progress
    <3>2. Place[last] \in Nat /\ \A s \in pages[l][i] : Place[s] \in Nat
      BY <1>2, <1>3, <1>6, <3>1
    <3> QED
      BY <1>2, <1>6, <1>8, <2>1, <3>1, <3>2
  <2>2. CASE i = n + 1
    BY <1>6, <1>8, <2>2
  <2> QED
    BY <1>7, <2>1, <2>2
<1>11. \A i, j \in 1..(n + 1) : i < j =>
         \A s \in pages'[l][i], t \in pages'[l][j] : Place[s] < Place[t]
  <2> TAKE i, j \in 1..(n + 1)
  <2> HAVE i < j
  <2> TAKE s \in pages'[l][i], t \in pages'[l][j]
  <2>1. i \in 1..n
    BY <1>7
  <2>2. s \in pages[l][i]
    BY <1>8, <2>1
  <2>3. CASE j \in 1..n
    <3>1. t \in pages[l][j]
      BY <1>8, <2>3
    <3> QED
      BY <1>1, <2>1, <2>2, <2>3, <3>1 DEF Progress, InOrder
  <2>4. CASE j = n + 1
    <3>1. t \in page
      BY <1>8, <2>4
    <3>2. s \in Segments /\ Place[s] <= token[l]
      BY <1>1, <1>2, <2>1, <2>2 DEF Progress
    <3>3. t \in Segments /\ Place[t] > token[l]
      BY <1>6, <3>1
    <3>4. Place[s] \in Nat /\ Place[t] \in Nat
      BY <1>3, <3>2, <3>3
    <3> QED
      BY <1>2, <3>2, <3>3, <3>4
  <2> QED
    BY <1>7, <2>3, <2>4
<1>12. \A s \in asked[l] : \/ Place[s] <= token[l] /\ s \in Collected(l)
                           \/ s \in Remaining(l)
  <2> TAKE s \in asked[l]
  <2>1. s \in S /\ s \in Segments /\ Place[s] \in Nat
    BY <1>1, <1>2, <1>3 DEF Progress
  <2>2. CASE Place[s] <= token[l]
    BY <1>1, <2>2 DEF Progress
  <2>3. CASE Place[s] > token[l]
    BY <2>1, <2>3 DEF Remaining
  <2> QED
    BY <1>2, <2>1, <2>2, <2>3
<1>13. \A s \in asked[l] : Place[s] <= Place[last] => s \in Collected(l)'
  BY <1>9, <1>12 DEF page
<1>14. page = Remaining(l) => asked[l] \subseteq Collected(l)'
  BY <1>9, <1>12
<1>15. asked[l] \subseteq S
  BY <1>1 DEF Progress
<1>16. InOrder(l)'
  BY <1>8, <1>11 DEF InOrder
<1> QED
  BY <1>5, <1>8, <1>10, <1>13, <1>14, <1>15, <1>16 DEF Progress

LEMMA ListerStep ==
    ASSUME RecordingsInv, NEW l \in Listers, Lister(l)
    PROVE  RecordingsInv'
<1> USE DEF RecordingsInv, RecordingsTypeOK
<1>1. UNCHANGED recorderVars
  BY DEF Lister, StartListing, NextPage, EmptyPage, PageFails, Answer, PresignFails
<1>2. (SegmentSafe /\ SentIsListable)'
  BY <1>1 DEF recorderVars, SegmentSafe, SentIsListable
<1>3. \A p : StoredFor(p) \subseteq Segments /\ StoredFor(p)' = StoredFor(p)
  BY <1>1 DEF recorderVars, StoredFor
<1>4. RecordingsTypeOK' /\ \A m \in Listers \ {l} :
        /\ phase'[m] = phase[m] /\ pages'[m] = pages[m]
        /\ token'[m] = token[m] /\ asked'[m] = asked[m] /\ slug'[m] = slug[m]
  <2>1. CASE StartListing(l)
    <3>1. PICK p \in Paths : /\ slug' = [slug EXCEPT ![l] = p]
                             /\ asked' = [asked EXCEPT ![l] = StoredFor(p)]
      BY <2>1 DEF StartListing
    <3>2. StoredFor(p) \in SUBSET Segments
      BY <1>3
    <3> QED
      BY <1>1, <2>1, <3>1, <3>2 DEF StartListing, recorderVars
  <2>2. CASE NextPage(l)
    <3>1. PICK last \in Remaining(l) :
            /\ pages' = [pages EXCEPT ![l] =
                          Append(pages[l], {s \in Remaining(l) : Place[s] <= Place[last]})]
            /\ token' = [token EXCEPT ![l] = Place[last]]
            /\ phase' \in {[phase EXCEPT ![l] = "listed"], [phase EXCEPT ![l] = "paging"]}
      BY <2>2 DEF NextPage, Appended
    <3> DEFINE page == {s \in Remaining(l) : Place[s] <= Place[last]}
    <3>2. Place[last] \in Nat /\ page \in SUBSET Segments
      BY <1>3, PlaceAssumption DEF Remaining
    <3> HIDE DEF page
    <3>3. Append(pages[l], page) \in Seq(SUBSET Segments)
      BY <3>2
    <3>4. asked' = asked /\ slug' = slug
      BY <2>2 DEF NextPage
    <3>5. pages' = [pages EXCEPT ![l] = Append(pages[l], page)]
      BY <3>1 DEF page
    <3>6. /\ phase' \in [Listers -> {"waiting", "paging", "listed", "answered", "failed"}]
          /\ \A m \in Listers \ {l} : phase'[m] = phase[m]
      BY <1>1, <3>1
    <3>7. /\ pages' \in [Listers -> Seq(SUBSET Segments)]
          /\ \A m \in Listers \ {l} : pages'[m] = pages[m]
      BY <1>1, <3>3, <3>5
    <3>8. /\ token' \in [Listers -> Nat]
          /\ \A m \in Listers \ {l} : token'[m] = token[m]
      BY <1>1, <3>1, <3>2
    <3> QED
      BY <1>1, <3>4, <3>6, <3>7, <3>8 DEF recorderVars
  <2>3. CASE EmptyPage(l) \/ PageFails(l) \/ Answer(l) \/ PresignFails(l)
    BY <1>1, <2>3 DEF EmptyPage, PageFails, Answer, PresignFails, recorderVars
  <2> QED
    BY <2>1, <2>2, <2>3 DEF Lister
<1>5. Progress(l)
  BY DEF ListingProgress
<1>6. Progress(l)'
  <2>1. CASE StartListing(l)
    <3>1. PICK p \in Paths : /\ slug' = [slug EXCEPT ![l] = p]
                             /\ asked' = [asked EXCEPT ![l] = StoredFor(p)]
      BY <2>1 DEF StartListing
    <3>2. /\ phase'[l] = "paging" /\ pages'[l] = <<>> /\ token'[l] = 0
          /\ slug'[l] = p /\ asked'[l] = StoredFor(p)
      BY <1>5, <2>1, <3>1 DEF StartListing, Progress
    <3>3. asked'[l] \subseteq StoredFor(slug[l])'
      BY <3>2 , <1>1 DEF StoredFor, recorderVars
    <3>4. \A s \in Segments : ~(Place[s] <= 0)
      BY PlaceAssumption
    <3>5. InOrder(l)'
      BY <3>2 DEF InOrder
    <3> QED
      BY <1>3, <3>2, <3>3, <3>4, <3>5 DEF Progress
  <2>2. CASE NextPage(l)
    BY <2>2, PageProgress
  <2>3. CASE EmptyPage(l)
    <3>1. \A s \in asked[l] : s \in StoredFor(slug[l]) /\ s \in Segments
      BY <1>3, <1>5, <2>3 DEF EmptyPage, Progress
    <3>2. \A s \in asked[l] : Place[s] <= token[l]
      BY <2>3, <3>1, PlaceAssumption DEF EmptyPage, Remaining
    <3>3. asked[l] \subseteq Collected(l)
      BY <1>5, <2>3, <3>2 DEF EmptyPage, Progress
    <3>4. phase'[l] = "listed" /\ UNCHANGED <<slug, pages, token, asked>>
      BY <2>3 DEF EmptyPage
    <3>5. /\ Collected(l)' = Collected(l) /\ (InOrder(l) <=> InOrder(l)')
          /\ StoredFor(slug[l])' = StoredFor(slug[l])
      BY <1>1, <3>4 DEF Collected, InOrder, StoredFor, recorderVars
    <3> QED
      BY <1>5, <2>3, <3>3, <3>4, <3>5 DEF EmptyPage, Progress
  <2>4. CASE PageFails(l) \/ Answer(l) \/ PresignFails(l)
    <3>1. UNCHANGED <<slug, pages, token, asked>>
      BY <2>4 DEF PageFails, Answer, PresignFails
    <3>2. \/ phase'[l] = "failed" /\ phase[l] # "waiting"
          \/ phase'[l] = "answered" /\ phase[l] = "listed"
      BY <2>4 DEF PageFails, Answer, PresignFails
    <3>3. /\ Collected(l)' = Collected(l) /\ (InOrder(l) <=> InOrder(l)')
          /\ StoredFor(slug[l])' = StoredFor(slug[l])
      BY <1>1, <3>1 DEF Collected, InOrder, StoredFor, recorderVars
    <3> QED
      BY <1>5, <3>1, <3>2, <3>3 DEF Progress
  <2> QED
    BY <2>1, <2>2, <2>3, <2>4 DEF Lister
<1>7. ListingProgress'
  BY <1>1, <1>4, <1>6, OneLister DEF recorderVars
<1> QED
  BY <1>2, <1>4, <1>7

\* The recorder's and the listing's bookkeeping is inductive (main.go:18-41,
\* s3client.go:94-115).
THEOREM RecordingsInvariant == RecordingsSpec => []RecordingsInv
<1>1. RecordingsInit => RecordingsInv
  BY DEF RecordingsInit, RecordingsInv, RecordingsTypeOK, SegmentSafe, SentIsListable,
         ListingProgress, Progress, InOrder, Collected
<1>2. RecordingsInv /\ [RecordingsNext]_recordingsVars => RecordingsInv'
  <2> SUFFICES ASSUME RecordingsInv, [RecordingsNext]_recordingsVars
               PROVE  RecordingsInv'
    OBVIOUS
  <2>1. CASE UNCHANGED recordingsVars
    <3>1. ListingProgress'
      BY <2>1, ListingUndisturbed DEF recordingsVars, recorderVars, RecordingsInv
    <3> QED
      BY <2>1, <3>1 DEF recordingsVars, recorderVars, listingVars, RecordingsInv, RecordingsTypeOK,
                        SegmentSafe, SentIsListable
  <2> QED
    BY <2>1, SegmentStep, RestartStep, ListerStep DEF RecordingsNext
<1> QED
  BY <1>1, <1>2, PTL DEF RecordingsSpec

\* The recorder deletes a local segment only after its upload was stored
\* (main.go:31-38).
THEOREM RecorderKeepsSegments == RecordingsSpec => []SegmentSafe
<1>1. RecordingsInv => SegmentSafe
  BY DEF RecordingsInv
<1> QED
  BY <1>1, RecordingsInvariant, PTL

\* What is stored, the listing of its path finds, except what was published
\* under "..", which no listing finds (env.go:96, uploader.go:50, s3client.go:95).
THEOREM RecorderStoresListable == RecordingsSpec => []StoredIsListable
<1>1. RecordingsInv => StoredIsListable
  <2> SUFFICES ASSUME RecordingsInv, NEW s \in bucket
               PROVE  IF PathOf(s) = DotDot
                      THEN \A p \in Paths : s \notin StoredFor(p)
                      ELSE Listable(PathOf(s)) /\ s \in StoredFor(PathOf(s))
    BY DEF StoredIsListable
  <2>1. CASE PathOf(s) = DotDot
    <3>1. Len(Joined(PathOf(s))) = 0
      BY <2>1 DEF Joined
    <3>2. ASSUME NEW p, Selects(p, s)
          PROVE  FALSE
      <4>1. Joined(p) # <<>> /\ Len(Joined(p)) <= 0
        BY <3>1, <3>2 DEF Selects
      <4> QED
        BY <4>1 DEF Joined
    <3> QED
      BY <2>1, <3>2 DEF StoredFor
  <2>2. CASE PathOf(s) # DotDot
    <3>1. Listable(PathOf(s))
      BY <2>2 DEF RecordingsInv, RecordingsTypeOK, SentIsListable
    <3>2. Selects(PathOf(s), s)
      BY <3>1, PrefixOfOneChannel DEF Listable
    <3> QED
      BY <2>2, <3>1, <3>2 DEF StoredFor
  <2> QED
    BY <2>1, <2>2
<1> QED
  BY <1>1, RecordingsInvariant, PTL

\* An answered listing is complete, true to its prefix and in order, whatever
\* is uploaded between its pages; the prefix of every slug but "." selects its
\* channel's recordings and no others (s3client.go:94-113).
THEOREM ListingIsComplete == RecordingsSpec => []ListingComplete
<1>1. RecordingsInv => ListingComplete
  <2> SUFFICES ASSUME RecordingsInv, NEW l \in Listers, phase[l] = "answered"
               PROVE  /\ asked[l] \subseteq Collected(l)
                      /\ Collected(l) \subseteq StoredFor(slug[l])
                      /\ InOrder(l)
                      /\ slug[l] # Dot =>
                           /\ \A s \in Collected(l) : PathOf(s) = slug[l]
                           /\ \A i, j \in 1..Len(pages[l]) : i < j =>
                                \A s \in pages[l][i], t \in pages[l][j] : StartOf(s) < StartOf(t)
    BY DEF ListingComplete
  <2>1. /\ asked[l] \subseteq Collected(l) /\ InOrder(l)
        /\ \A i \in 1..Len(pages[l]) : pages[l][i] \subseteq StoredFor(slug[l])
    BY DEF RecordingsInv, ListingProgress, Progress
  <2>2. Collected(l) \subseteq StoredFor(slug[l])
    BY <2>1 DEF Collected
  <2>3. ASSUME slug[l] # Dot, NEW s \in StoredFor(slug[l])
        PROVE  PathOf(s) = slug[l] /\ s \in Segments
    BY <2>3, PrefixOfOneChannel DEF StoredFor, RecordingsInv, RecordingsTypeOK
  <2>4. ASSUME slug[l] # Dot, NEW i \in 1..Len(pages[l]), NEW j \in 1..Len(pages[l]), i < j,
               NEW s \in pages[l][i], NEW t \in pages[l][j]
        PROVE  StartOf(s) < StartOf(t)
    <3>1. /\ PathOf(s) = PathOf(t) /\ s \in Segments /\ t \in Segments
          /\ Place[s] < Place[t]
      BY <2>1, <2>3, <2>4 DEF InOrder
    <3> QED
      BY <3>1, PlaceAssumption
  <2> QED
    BY <2>1, <2>2, <2>3, <2>4
<1> QED
  BY <1>1, RecordingsInvariant, PTL
=============================================================================
