----------------------------- MODULE MCStorage -----------------------------
(***************************************************************************)
(* Object storage under small sets of concurrent calls.  The storage URI    *)
(* of a deployment selects the backend, so a behaviour is one of local      *)
(* storage or one of S3; the two share the calls and their answers.         *)
(***************************************************************************)
EXTENDS LocalStorage

CONSTANTS c1, c2, c3, Session

VARIABLES bucket, sent, trail

Calls(a, b, c) == (c1 :> a) @@ (c2 :> b) @@ (c3 :> c)

Save(v) == [op |-> "save", bytes |-> v, limit |-> 2]
Create(v) == [op |-> "create", bytes |-> v, limit |-> 2]
Stream(v) == [op |-> "stream", bytes |-> v, limit |-> 2]
Get == [op |-> "get"]
Delete == [op |-> "delete"]
List == [op |-> "list"]
DeletePrefix == [op |-> "delete_prefix"]
Begin == [op |-> "begin"]
Abort == [op |-> "abort"]
Cleanup == [op |-> "cleanup"]
Part(n, v) == [op |-> "part", number |-> n, bytes |-> v, exact |-> TRUE]
TornPart(n, v) == [op |-> "part", number |-> n, bytes |-> v, exact |-> FALSE]
Ref(n, v) == [number |-> n, bytes |-> v]
CompleteUpload(refs) == [op |-> "complete", parts |-> refs]

two == <<"x", "x">>
one == <<"y">>
three == <<"z", "z", "z">>
a == <<"a">>
b == <<"b">>
d == <<"d">>

MCOld == {<<"o">>}

(* A part replaced while a completion names it; three parts that are too    *)
(* large together; two completions and an abort; a cleanup.                *)
Sessions ==
    {Calls(<<Begin, Part(1, a), CompleteUpload(<<Ref(1, a), Ref(2, b)>>)>>, <<Part(2, b), Part(2, d)>>, <<Cleanup>>),
     Calls(<<Begin, Part(1, a), CompleteUpload(<<Ref(1, a), Ref(2, b), Ref(3, d)>>)>>, <<Part(2, b)>>, <<Part(3, d)>>),
     Calls(<<Begin, Part(1, a), CompleteUpload(<<Ref(1, a)>>)>>, <<Abort>>, <<CompleteUpload(<<Ref(1, a)>>)>>)}

MCPlans ==
    Sessions \cup
    {Calls(<<Save(two)>>, <<Delete>>, <<Get, Get>>),
     Calls(<<Save(two)>>, <<Save(one)>>, <<Delete, Get>>),
     Calls(<<Save(three)>>, <<Save(one)>>, <<Delete>>),
     Calls(<<Save(two)>>, <<DeletePrefix>>, <<List, List>>),
     Calls(<<Begin, TornPart(1, a)>>, <<Save(one)>>, <<Delete>>)}

MCS3Plans ==
    Sessions \cup
    {Calls(<<Stream(two)>>, <<Stream(three)>>, <<Get, Delete>>),
     Calls(<<Create(two)>>, <<Create(one)>>, <<Stream(<<>>), Save(one)>>)}

(* A save and a delete of one object, and a reader. *)
MCRace == {Calls(<<Save(two)>>, <<Delete>>, <<Get>>)}

S3 == INSTANCE S3Storage WITH S3Plans <- MCS3Plans

NoBucket ==
    /\ bucket = [object |-> Nothing, uploads |-> [u \in S3!Uploads |-> Nothing], manifest |-> FALSE, old |-> FALSE]
    /\ sent = [c \in Client |-> 0]
    /\ trail = [begun |-> FALSE, closed |-> FALSE, closedAt |-> [c \in Client |-> FALSE], leaked |-> {}]

NoDisk ==
    /\ layout = "s3"
    /\ disk = Started("opaque", Nothing)
    /\ temp = [c \in Client |-> Nothing]
    /\ session = NoSession
    /\ staged = [c \in Client |-> FALSE]
    /\ rest = [c \in Client |-> <<>>]
    /\ found = [c \in Client |-> 0]
    /\ retried = [c \in Client |-> FALSE]
    /\ history = NoHistory

MCInit == (Init /\ NoBucket) \/ (S3!Init /\ NoDisk)

MCNext ==
    \/ layout # "s3" /\ Next /\ UNCHANGED <<bucket, sent, trail>>
    \/ layout = "s3" /\ S3!Next /\ UNCHANGED <<layout, disk, temp, session, staged, rest, found, retried, history>>

MCSpec == MCInit /\ [][MCNext]_<<vars, bucket, sent, trail>>

(* On either backend an object is one whole write and within the limit of   *)
(* its session, whatever parts are replaced and whichever process dies       *)
(* while it is put together (complete_upload, save_stream).                 *)
WholeObjects == OnlyWholeObjects /\ UploadsWithinLimit /\ S3!S3WholeObjects

(* The last write stands: a deleted object does not come back from an older *)
(* representation, and a conditional put replaces no other (delete, create).*)
LastWriteStands == GoneStaysGone /\ S3!CreatedStays

(* A session that was completed or aborted commits nothing more, however it *)
(* is retried and whatever its end left undone (complete_upload).           *)
SessionsCloseForGood == ClosedStaysClosed /\ S3!S3ClosedStaysClosed

(* Nothing is left where nobody finds it: a refused write leaves no file,   *)
(* and the manifest leads a cleanup to every open upload but those whose    *)
(* opening or aborting failed (save, abort_upload, cleanup_uploads).        *)
NothingLeftBehind == RefusedLeavesNothing /\ S3!UploadsFindable
============================================================================
