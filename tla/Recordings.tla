----------------------------- MODULE Recordings -----------------------------
(***************************************************************************)
(* From a recorded segment to the listing of a channel's recordings:       *)
(* services/vod-recorder (one process per completed segment), the bucket,  *)
(* MediaMTX's own deletion of old segments, and the paginated listing of   *)
(* services/streams (recordings_handler.go, s3client.go).                  *)
(*                                                                         *)
(* A segment is its path and its start time.  Its object key is made of    *)
(* just these (uploader.go:49-52), so it stands for its object as well;    *)
(* Joined says in which directory of the bucket the key lies.              *)
(* A listing that is refused at once (no storage configured, a slug with a *)
(* separator) changes nothing and is no step.                              *)
(***************************************************************************)
EXTENDS Integers, Sequences

CONSTANTS
    Paths,        \* the paths MediaMTX publishes streams under, and the slugs
                  \* in requests
    NestedPaths,  \* those of them that contain a path separator
    Dot, DotDot,  \* the paths "." and "..", which contain none
    Segments,     \* the segments that may be recorded, <<path, start>>
    Workloads,    \* bound: the sets of segments recorded in one behaviour
    Place,        \* the place of each segment's object in the order of keys
    Configured,   \* whether the recorder's S3_ variables are all set
    Listers       \* requests for the recordings of a channel

PathOf(s) == s[1]
StartOf(s) == s[2]

ASSUME RecordingsAssumption ==
    /\ NestedPaths \subseteq Paths
    /\ Dot # DotDot /\ Dot \notin NestedPaths /\ DotDot \notin NestedPaths
    /\ Segments \subseteq Paths \X Nat
    /\ Workloads \subseteq SUBSET Segments
    /\ Configured \in BOOLEAN

\* The file names of one directory sort by the start time they encode.
ASSUME PlaceAssumption ==
    /\ Place \in [Segments -> Nat \ {0}]
    /\ \A s, t \in Segments :
         /\ Place[s] = Place[t] => s = t
         /\ PathOf(s) = PathOf(t) /\ Place[s] < Place[t] => StartOf(s) < StartOf(t)

VARIABLES
    file,       \* the local file of each segment: removed by the recorder, or gone
    recorder,   \* the process MediaMTX starts for it
    arrived,    \* uploads the storage has received whole and not yet stored
    bucket,     \* the segments with an object in the bucket
    phase,      \* the progress of each listing
    slug,       \* the slug it asks for
    pages,      \* the pages it has collected, each the objects it holds
    token,      \* the last key it has seen, where the next page begins
    asked       \* history: the objects it could have returned when it began

recorderVars == <<file, recorder, arrived, bucket>>
listingVars == <<phase, slug, pages, token, asked>>
recordingsVars == <<recorderVars, listingVars>>

\* path.Join("recordings", p) of a p without a separator, as directories.
Joined(p) == IF p = DotDot THEN <<>>
             ELSE IF p = Dot THEN <<"recordings">>
             ELSE <<"recordings", p>>

\* The keys that begin with path.Join("recordings", p) + "/": none if the join
\* leaves no directory, for then the prefix is "./".
Selects(p, s) ==
    /\ Joined(p) # <<>>
    /\ Len(Joined(p)) <= Len(Joined(PathOf(s)))
    /\ \A i \in 1..Len(Joined(p)) : Joined(p)[i] = Joined(PathOf(s))[i]

\* What a listing of slug p would hold.
StoredFor(p) == {s \in bucket : Selects(p, s)}

\* Everything a listing has collected so far.
Collected(l) == UNION {pages[l][i] : i \in 1..Len(pages[l])}

RecordingsTypeOK ==
    /\ file \in [Segments -> {"recording", "present", "removed", "gone"}]
    /\ recorder \in [Segments -> {"none", "started", "uploading", "uploaded", "exited"}]
    /\ arrived \subseteq Segments
    /\ bucket \subseteq Segments
    /\ phase \in [Listers -> {"waiting", "paging", "listed", "answered", "failed"}]
    /\ slug \in [Listers -> Paths \cup {DotDot}]
    /\ pages \in [Listers -> Seq(SUBSET Segments)]
    /\ token \in [Listers -> Nat]
    /\ asked \in [Listers -> SUBSET Segments]

RecordingsInit ==
    /\ \E load \in Workloads :
         file = [s \in Segments |-> IF s \in load THEN "recording" ELSE "gone"]
    /\ recorder = [s \in Segments |-> "none"]
    /\ arrived = {}
    /\ bucket = {}
    /\ phase = [l \in Listers |-> "waiting"]
    /\ slug = [l \in Listers |-> DotDot]
    /\ pages = [l \in Listers |-> <<>>]
    /\ token = [l \in Listers |-> 0]
    /\ asked = [l \in Listers |-> {}]
-----------------------------------------------------------------------------
(* vod-recorder: main.go from top to bottom *)

\* MediaMTX completes a segment and executes the hook.  The segments of one
\* path complete in the order of their start times.
SegmentCompletes(s) ==
    /\ file[s] = "recording"
    /\ \A x \in Segments :
         PathOf(x) = PathOf(s) /\ StartOf(x) > StartOf(s) => recorder[x] = "none"
    /\ file' = [file EXCEPT ![s] = "present"]
    /\ recorder' = [recorder EXCEPT ![s] = "started"]
    /\ UNCHANGED <<arrived, bucket, listingVars>>

Exits(s) == recorder' = [recorder EXCEPT ![s] = "exited"]

\* Variant: the path is not validated.
AcceptableUnchecked(s) == Configured

\* loadConfig and loadSegment find all they need, and the path contains no
\* separator; containsPathTraversal looks for nothing else.
Acceptable(s) == Configured /\ PathOf(s) \notin NestedPaths

Refuse(s) ==
    /\ recorder[s] = "started"
    /\ ~Acceptable(s)
    /\ Exits(s)
    /\ UNCHANGED <<file, arrived, bucket, listingVars>>

OpenSegment(s) ==
    /\ recorder[s] = "started"
    /\ Acceptable(s)
    /\ file[s] = "present"
    /\ recorder' = [recorder EXCEPT ![s] = "uploading"]
    /\ UNCHANGED <<file, arrived, bucket, listingVars>>

OpenFails(s) ==
    /\ recorder[s] = "started"
    /\ Acceptable(s)
    /\ file[s] # "present"
    /\ Exits(s)
    /\ UNCHANGED <<file, arrived, bucket, listingVars>>

\* Variant: the error of PutObject is not looked at.
UploadSucceedsUnchecked(s) ==
    /\ recorder[s] = "uploading"
    /\ recorder' = [recorder EXCEPT ![s] = "uploaded"]
    /\ UNCHANGED <<file, arrived, bucket, listingVars>>

\* PutObject returns without an error: some attempt of it was stored.
UploadSucceeds(s) ==
    /\ recorder[s] = "uploading"
    /\ s \in bucket
    /\ recorder' = [recorder EXCEPT ![s] = "uploaded"]
    /\ UNCHANGED <<file, arrived, bucket, listingVars>>

\* Variant: no deadline, only an answer of the storage ends the call.
UploadFailsIfAnswered(s) ==
    /\ recorder[s] = "uploading"
    /\ s \in arrived
    /\ Exits(s)
    /\ UNCHANGED <<file, arrived, bucket, listingVars>>

\* PutObject returns an error, at the latest when UploadTimeout ends its
\* context; the upload may have been received all the same.
UploadFails(s) ==
    /\ recorder[s] = "uploading"
    /\ Exits(s)
    /\ UNCHANGED <<file, arrived, bucket, listingVars>>

RemoveLocal(s) ==
    /\ recorder[s] = "uploaded"
    /\ file[s] = "present"
    /\ file' = [file EXCEPT ![s] = "removed"]
    /\ Exits(s)
    /\ UNCHANGED <<arrived, bucket, listingVars>>

\* os.Remove fails, or the file has expired meanwhile: logged only.
RemoveFails(s) ==
    /\ recorder[s] = "uploaded"
    /\ Exits(s)
    /\ UNCHANGED <<file, arrived, bucket, listingVars>>
-----------------------------------------------------------------------------
(* The storage, and the disk of MediaMTX's pod *)

\* One attempt of a running PutObject has reached the storage whole; the
\* file stays readable to the recorder even when it was deleted.
RequestArrives(s) ==
    /\ recorder[s] = "uploading"
    /\ s \notin arrived
    /\ arrived' = arrived \cup {s}
    /\ UNCHANGED <<file, recorder, bucket, listingVars>>

ObjectStored(s) ==
    /\ s \in arrived
    /\ arrived' = arrived \ {s}
    /\ bucket' = bucket \cup {s}
    /\ UNCHANGED <<file, recorder, listingVars>>

\* MediaMTX deletes a segment of age recordDeleteAfter, in use or not.
Expire(s) ==
    /\ file[s] = "present"
    /\ file' = [file EXCEPT ![s] = "gone"]
    /\ UNCHANGED <<recorder, arrived, bucket, listingVars>>

\* The pod ends, with its recorders and its emptyDir.
PodRestart ==
    /\ \E s \in Segments : file[s] = "present" \/ recorder[s] \notin {"none", "exited"}
    /\ file' = [s \in Segments |-> IF file[s] = "present" THEN "gone" ELSE file[s]]
    /\ recorder' = [s \in Segments |-> IF recorder[s] = "none" THEN "none" ELSE "exited"]
    /\ UNCHANGED <<arrived, bucket, listingVars>>
-----------------------------------------------------------------------------
(* GET /channels/{slug}/recordings *)

StartListing(l) ==
    /\ phase[l] = "waiting"
    /\ \E p \in Paths \ NestedPaths :
         /\ slug' = [slug EXCEPT ![l] = p]
         /\ asked' = [asked EXCEPT ![l] = StoredFor(p)]
    /\ phase' = [phase EXCEPT ![l] = "paging"]
    /\ UNCHANGED <<pages, token, recorderVars>>

\* What the bucket holds for the listing beyond its token.
Remaining(l) == {s \in StoredFor(slug[l]) : Place[s] > token[l]}

\* Variant: a new page goes before the others.
Prepended(l, page) == <<page>> \o pages[l]

\* Pages are kept in the order in which they come.
Appended(l, page) == Append(pages[l], page)

\* The storage returns the first of the remaining keys in their order, as many
\* as it chooses, and says whether there are more.
NextPage(l) ==
    /\ phase[l] = "paging"
    /\ \E last \in Remaining(l) :
         LET page == {s \in Remaining(l) : Place[s] <= Place[last]} IN
         /\ pages' = [pages EXCEPT ![l] = Appended(l, page)]
         /\ token' = [token EXCEPT ![l] = Place[last]]
         /\ phase' = [phase EXCEPT ![l] =
                        IF page = Remaining(l) THEN "listed" ELSE "paging"]
    /\ UNCHANGED <<slug, asked, recorderVars>>

\* The prefix selects no objects.
EmptyPage(l) ==
    /\ phase[l] = "paging"
    /\ Remaining(l) = {}
    /\ phase' = [phase EXCEPT ![l] = "listed"]
    /\ UNCHANGED <<slug, pages, token, asked, recorderVars>>

\* Variant: the pages so far are taken for the whole.
PageFailsSilently(l) ==
    /\ phase[l] = "paging"
    /\ phase' = [phase EXCEPT ![l] = "listed"]
    /\ UNCHANGED <<slug, pages, token, asked, recorderVars>>

\* A page cannot be had: 502, and nothing of the pages before it.
PageFails(l) ==
    /\ phase[l] = "paging"
    /\ phase' = [phase EXCEPT ![l] = "failed"]
    /\ UNCHANGED <<slug, pages, token, asked, recorderVars>>

\* Every object gets its presigned URL, without a call to the storage.
Answer(l) ==
    /\ phase[l] = "listed"
    /\ phase' = [phase EXCEPT ![l] = "answered"]
    /\ UNCHANGED <<slug, pages, token, asked, recorderVars>>

PresignFails(l) ==
    /\ phase[l] = "listed"
    /\ Collected(l) # {}
    /\ phase' = [phase EXCEPT ![l] = "failed"]
    /\ UNCHANGED <<slug, pages, token, asked, recorderVars>>
-----------------------------------------------------------------------------
Recorder(s) ==
    \/ Refuse(s) \/ OpenSegment(s) \/ OpenFails(s)
    \/ UploadSucceeds(s) \/ UploadFails(s)
    \/ RemoveLocal(s) \/ RemoveFails(s)

Lister(l) ==
    \/ StartListing(l) \/ NextPage(l) \/ EmptyPage(l) \/ PageFails(l)
    \/ Answer(l) \/ PresignFails(l)

RecordingsNext ==
    \/ \E s \in Segments :
         SegmentCompletes(s) \/ Recorder(s) \/ RequestArrives(s) \/ ObjectStored(s) \/ Expire(s)
    \/ PodRestart
    \/ \E l \in Listers : Lister(l)

RecordingsSpec == RecordingsInit /\ [][RecordingsNext]_recordingsVars

\* A recorder takes its steps unaided, its deadline among them.
FairRecordingsSpec ==
    RecordingsSpec /\ \A s \in Segments : WF_recordingsVars(Recorder(s))
-----------------------------------------------------------------------------
(* Properties *)

\* The recorder removes a local file only when the bucket holds its object;
\* without it, only recordDeleteAfter or the end of the pod takes the file.
SegmentSafe ==
    \A s \in Segments :
        file[s] = "removed" \/ recorder[s] = "uploaded" => s \in bucket

\* The listing endpoint takes p as a slug and finds what is stored for it.
Listable(p) == p \notin NestedPaths /\ Joined(p) # <<>>

\* What the recorder stores lies where the listing of its path finds it: the
\* check of MTX_PATH is there so that no key leaves its channel's prefix
\* (env.go:87-97).  Its one gap is ".." (env_test.go:183), which joins to the
\* root of the bucket and is listed nowhere.
StoredIsListable ==
    \A s \in bucket :
        IF PathOf(s) = DotDot
        THEN \A p \in Paths : s \notin StoredFor(p)
        ELSE Listable(PathOf(s)) /\ s \in StoredFor(PathOf(s))

\* Of two pages the earlier one holds the smaller keys.
InOrder(l) ==
    \A i, j \in 1..Len(pages[l]) : i < j =>
        \A s \in pages[l][i], t \in pages[l][j] : Place[s] < Place[t]

\* A listing that is answered holds every object its prefix selected when it
\* began, only objects it selects, in the order of their keys and none twice,
\* however many pages it took and whatever was uploaded between them.  Unless
\* the slug is ".", that is its channel's recordings and no others, oldest first
\* (recordings_handler.go:47: "every recorded segment stored for slug").
ListingComplete ==
    \A l \in Listers : phase[l] = "answered" =>
        /\ asked[l] \subseteq Collected(l)
        /\ Collected(l) \subseteq StoredFor(slug[l])
        /\ InOrder(l)
        /\ slug[l] # Dot =>
             /\ \A s \in Collected(l) : PathOf(s) = slug[l]
             /\ \A i, j \in 1..Len(pages[l]) : i < j =>
                  \A s \in pages[l][i], t \in pages[l][j] : StartOf(s) < StartOf(t)

\* Every hook process comes to its end, even when the storage never answers.
HooksEnd == \A s \in Segments : recorder[s] = "started" ~> recorder[s] = "exited"

(* What makes them inductive *)

\* What is sent, on its way or stored, has a path that a listing can name, or
\* it is "..".
SentIsListable ==
    \A s \in Segments :
        s \in arrived \cup bucket \/ recorder[s] \in {"uploading", "uploaded"} =>
            Listable(PathOf(s)) \/ PathOf(s) = DotDot

\* A listing has collected what lies up to its token, page after page.
Progress(l) ==
    /\ phase[l] # "waiting" => asked[l] \subseteq StoredFor(slug[l])
    /\ phase[l] = "waiting" => pages[l] = <<>> /\ token[l] = 0
    /\ \A i \in 1..Len(pages[l]) :
         /\ pages[l][i] \subseteq StoredFor(slug[l])
         /\ \A s \in pages[l][i] : Place[s] <= token[l]
    /\ InOrder(l)
    /\ phase[l] = "paging" => \A s \in asked[l] : Place[s] <= token[l] => s \in Collected(l)
    /\ phase[l] \in {"listed", "answered"} => asked[l] \subseteq Collected(l)

ListingProgress == \A l \in Listers : Progress(l)

RecordingsInv ==
    RecordingsTypeOK /\ SegmentSafe /\ SentIsListable /\ ListingProgress
=============================================================================
