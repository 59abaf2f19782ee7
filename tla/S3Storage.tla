----------------------------- MODULE S3Storage -----------------------------
(***************************************************************************)
(* The S3 storage backend (backends/storage_s3.py) at one address: the     *)
(* object, the multipart uploads the service has open for it, and the      *)
(* manifest that makes one of them a resumable session.  A call is a       *)
(* sequence of requests.  The service (external) performs each request at  *)
(* once; a request may fail without having been performed, and its answer  *)
(* may be lost after it was.                                               *)
(***************************************************************************)
EXTENDS Integers, SequencesExt, FiniteSets

CONSTANTS Client,         \* threads and processes with calls on the address
          S3Plans,        \* sets of calls to check together: functions Client -> Seq(call)
          Old,            \* what the object may hold at the start
          Nothing,        \* no object, no part, no upload
          Session,        \* the upload of begin_upload; save_stream's is named after its client
          Number,         \* part numbers
          MaxBytes,       \* max_bytes of the session, in chunks
          MinPart,        \* min_part_size, in chunks
          MaxFaults,      \* bound: requests that fail
          Mortal          \* clients that may die

VARIABLES bucket,     \* the object, the open uploads, the manifest
          todo,       \* calls each client has still to make
          call,       \* the call it makes, or made last
          pc,         \* where it is in that call
          sent,       \* the parts a save_stream has sent
          faults,     \* requests that failed
          answer,     \* what the last call returned
          trail       \* ghost: what the properties compare

vars == <<bucket, todo, call, pc, sent, faults, answer, trail>>

Uploads == Client \cup {Session}
NoParts == [n \in Number |-> Nothing]
Pending == [is |-> "pending", bytes |-> Nothing]

Init ==
    /\ \E v \in Old \cup {Nothing} :
           bucket = [object |-> v, uploads |-> [u \in Uploads |-> Nothing], manifest |-> FALSE, old |-> FALSE]
    /\ todo \in S3Plans
    /\ call = [c \in Client |-> [op |-> "none"]]
    /\ pc = [c \in Client |-> "idle"]
    /\ sent = [c \in Client |-> 0]
    /\ faults = 0
    /\ answer = [c \in Client |-> Pending]
    /\ trail = [begun |-> FALSE, closed |-> FALSE, closedAt |-> [c \in Client |-> FALSE], leaked |-> {}]

-----------------------------------------------------------------------------
At(c, p) == pc[c] = p
Go(c, p) == pc' = [pc EXCEPT ![c] = p]

AnswerWith(c, a, v) ==
    /\ Go(c, "idle")
    /\ answer' = [answer EXCEPT ![c] = [is |-> a, bytes |-> v]]

Answer(c, a) == AnswerWith(c, a, Nothing)

Continue(c, p) == Go(c, p) /\ UNCHANGED answer

(* A request that would leave the bucket as `b`: performed and answered,    *)
(* performed and the answer lost, or not performed.  The two failures look *)
(* alike to the caller.                                                    *)
Answered(b) == bucket' = b /\ UNCHANGED faults
Failed(b) == faults < MaxFaults /\ faults' = faults + 1 /\ bucket' \in {b, bucket}

(* Where a call starts; an empty stream is one put. *)
Entry(k) == CASE k.op = "save" \/ (k.op = "stream" /\ k.bytes = <<>>) -> "put"
              [] k.op = "stream" /\ k.bytes # <<>> -> "open"
              [] k.op = "create" -> "create" [] k.op = "get" -> "fetch" [] k.op = "delete" -> "drop"
              [] k.op = "begin" -> "start" [] k.op \in {"part", "complete", "abort"} -> "load" [] k.op = "cleanup" -> "list"

StartCall(c) ==
    /\ At(c, "idle") /\ todo[c] # <<>>
    /\ Head(todo[c]).op \in {"part", "complete", "abort"} => trail.begun
    /\ call' = [call EXCEPT ![c] = Head(todo[c])]
    /\ todo' = [todo EXCEPT ![c] = Tail(@)]
    /\ Go(c, Entry(Head(todo[c])))
    /\ sent' = [sent EXCEPT ![c] = 0]
    /\ answer' = [answer EXCEPT ![c] = Pending]
    /\ UNCHANGED <<bucket, faults>>

-----------------------------------------------------------------------------
(* Whole objects: one request each. *)
PutObject(c) ==
    /\ At(c, "put")
    /\ LET b == [bucket EXCEPT !.object = call[c].bytes]
       IN  \/ Answered(b) /\ Answer(c, "ok")
           \/ Failed(b) /\ Answer(c, "unavailable")
    /\ UNCHANGED <<todo, call, sent>>

(* Mutant of Created: the condition of the request is left out. *)
CreatedAnyway(b, v) == [b EXCEPT !.object = v]

(* PutObject with If-None-Match: * *)
Created(b, v) == IF b.object = Nothing THEN [b EXCEPT !.object = v] ELSE b

CreateObject(c) ==
    /\ At(c, "create")
    /\ LET b == Created(bucket, call[c].bytes)
       IN  \/ Answered(b) /\ Answer(c, IF bucket.object = Nothing THEN "ok" ELSE "exists")
           \/ Failed(b) /\ Answer(c, "unavailable")
    /\ UNCHANGED <<todo, call, sent>>

(* open_stream: GetObject answers with one version of the object. *)
GetObject(c) ==
    /\ At(c, "fetch")
    /\ AnswerWith(c, IF bucket.object = Nothing THEN "absent" ELSE "found", bucket.object)
    /\ UNCHANGED <<bucket, faults, todo, call, sent>>

DeleteObject(c) ==
    /\ At(c, "drop")
    /\ LET b == [bucket EXCEPT !.object = Nothing]
       IN  \/ Answered(b) /\ Answer(c, "ok")
           \/ Failed(b) /\ Answer(c, "unavailable")
    /\ UNCHANGED <<todo, call, sent>>

-----------------------------------------------------------------------------
(* Mutant of Inactive: an upload that is gone is as good as completed. *)
InactiveDone(c) == Answer(c, IF call[c].op = "complete" THEN "ok" ELSE "inactive")

(* The service does not know the upload any more. *)
Inactive(c) == Answer(c, "inactive")

(* Requests on a multipart upload (external). *)
Opened(u) == [bucket EXCEPT !.uploads[u] = NoParts]
PartAdded(u, n, v) == [bucket EXCEPT !.uploads[u][n] = v]
Aborted(u) == [bucket EXCEPT !.uploads[u] = Nothing]
Active(u) == bucket.uploads[u] # Nothing
Listed(u) == {n \in Number : bucket.uploads[u][n] # Nothing}

(* CompleteMultipartUpload makes the parts it names the object. *)
Committed(u, refs) ==
    [bucket EXCEPT !.object = FlattenSeq([i \in DOMAIN refs |-> refs[i].bytes]), !.uploads[u] = Nothing]

(* save_stream opens an upload with its first part ... *)
OpenStream(c) ==
    /\ At(c, "open")
    /\ \/ Answered(Opened(c)) /\ Go(c, "send")
       \/ Failed(Opened(c)) /\ Go(c, "raise")
    /\ UNCHANGED <<todo, call, sent, answer>>

(* ... sends parts until the source ends or is longer than its limit ... *)
SendPart(c) ==
    /\ At(c, "send") /\ sent[c] < Len(call[c].bytes)
    /\ LET n == sent[c] + 1
           b == PartAdded(c, n, <<call[c].bytes[n]>>)
       IN  IF n > call[c].limit
           THEN Go(c, "discard") /\ UNCHANGED <<bucket, faults, sent>>
           ELSE \/ Answered(b) /\ sent' = [sent EXCEPT ![c] = n] /\ UNCHANGED pc
                \/ Failed(b) /\ Go(c, "discard") /\ UNCHANGED sent
    /\ UNCHANGED <<todo, call, answer>>

(* ... and completes it; until then nothing of it is an object. *)
CompleteStream(c) ==
    /\ At(c, "send") /\ sent[c] = Len(call[c].bytes)
    /\ LET b == Committed(c, [i \in 1..sent[c] |-> [number |-> i, bytes |-> bucket.uploads[c][i]]])
       IN  \/ Answered(b) /\ Answer(c, "ok")
           \/ Failed(b) /\ Continue(c, "discard")
    /\ UNCHANGED <<todo, call, sent>>

(* A save_stream that fails aborts its upload and raises, whether or not   *)
(* the abort succeeds.                                                     *)
AbortStream(c) ==
    /\ At(c, "discard")
    /\ Answered(Aborted(c)) \/ Failed(Aborted(c))
    /\ Go(c, "raise")
    /\ UNCHANGED <<todo, call, sent, answer>>

RaiseError(c) ==
    /\ At(c, "raise")
    /\ Answer(c, "refused")
    /\ UNCHANGED <<bucket, faults, todo, call, sent>>

-----------------------------------------------------------------------------
(* begin_upload opens the upload ... *)
StartUpload(c) ==
    /\ At(c, "start")
    /\ \/ Answered(Opened(Session)) /\ Go(c, "manifest")
       \/ Failed(Opened(Session)) /\ Go(c, "raise")
    /\ UNCHANGED <<todo, call, sent, answer>>

(* ... and stores its manifest, or aborts the upload if that fails. *)
PutManifest(c) ==
    /\ At(c, "manifest")
    /\ LET b == [bucket EXCEPT !.manifest = TRUE]
       IN  \/ Answered(b) /\ Answer(c, "ok")
           \/ Failed(b) /\ Continue(c, "undo")
    /\ UNCHANGED <<todo, call, sent>>

UndoUpload(c) ==
    /\ At(c, "undo")
    /\ Answered(Aborted(Session)) \/ Failed(Aborted(Session))
    /\ Go(c, "raise")
    /\ UNCHANGED <<todo, call, sent, answer>>

(* _load_upload_state, which the calls on a session begin with; an abort   *)
(* and a cleanup take a missing manifest for a session that has ended.     *)
LoadManifest(c) ==
    /\ At(c, "load")
    /\ \/ /\ bucket.manifest
          /\ Continue(c, CASE call[c].op = "part" -> "count" [] call[c].op = "complete" -> "check" [] OTHER -> "abort")
          /\ UNCHANGED <<bucket, faults>>
       \/ /\ ~ bucket.manifest
          /\ Answer(c, IF call[c].op \in {"part", "complete"} THEN "inactive" ELSE "ok")
          /\ UNCHANGED <<bucket, faults>>
       \/ Failed(bucket) /\ Answer(c, "unavailable")
    /\ UNCHANGED <<todo, call, sent>>

StagedBeside(n) == MapThenSumSet(LAMBDA k : Len(bucket.uploads[Session][k]), Listed(Session) \ {n})

(* upload_part adds up the parts there are; others may be on their way. *)
CountParts(c) ==
    /\ At(c, "count")
    /\ CASE ~ Active(Session) -> Inactive(c)
         [] Active(Session) /\ StagedBeside(call[c].number) + Len(call[c].bytes) > MaxBytes -> Answer(c, "too large")
         [] OTHER -> Continue(c, "upload")
    /\ UNCHANGED <<bucket, faults, todo, call, sent>>

UploadPart(c) ==
    /\ At(c, "upload")
    /\ IF Active(Session)
       THEN LET b == PartAdded(Session, call[c].number, call[c].bytes)
            IN  \/ Answered(b) /\ Answer(c, "ok")
                \/ Failed(b) /\ Answer(c, "unavailable")
       ELSE Inactive(c) /\ UNCHANGED <<bucket, faults>>
    /\ UNCHANGED <<todo, call, sent>>

WithinLimit(refs) == Len(FlattenSeq([i \in DOMAIN refs |-> refs[i].bytes])) <= MaxBytes

(* _validate_completion_parts *)
AcceptedParts(refs) ==
    /\ refs # <<>>
    /\ \A i \in DOMAIN refs : /\ i > 1 => refs[i - 1].number < refs[i].number
                              /\ i < Len(refs) => Len(refs[i].bytes) >= MinPart
    /\ WithinLimit(refs)

(* Whether the service has every part as the completion knows it. *)
Matching(refs) == \A i \in DOMAIN refs : bucket.uploads[Session][refs[i].number] = refs[i].bytes

(* complete_upload compares its references with the parts that are listed. *)
CheckParts(c) ==
    /\ At(c, "check")
    /\ LET refs == call[c].parts
       IN  CASE ~ Active(Session) -> Inactive(c)
             [] Active(Session) /\ AcceptedParts(refs) /\ {refs[i].number : i \in DOMAIN refs} = Listed(Session)
                    /\ Matching(refs) -> Continue(c, "commit")
             [] OTHER -> Answer(c, "refused")
    /\ UNCHANGED <<bucket, faults, todo, call, sent>>

(* Mutant of Committable: the service is not told the ETags of the parts. *)
CommittableUnmatched(refs) == Active(Session)

(* The service refuses a part whose ETag is not the one named. *)
Committable(refs) == Active(Session) /\ Matching(refs)

CommitUpload(c) ==
    /\ At(c, "commit")
    /\ LET refs == call[c].parts
           as == [i \in DOMAIN refs |-> [number |-> refs[i].number, bytes |-> bucket.uploads[Session][refs[i].number]]]
       IN  IF Committable(refs)
           THEN \/ Answered(Committed(Session, as)) /\ Continue(c, "unlist")
                \/ Failed(Committed(Session, as)) /\ Answer(c, "unavailable")
           ELSE /\ IF Active(Session) THEN Answer(c, "unavailable") ELSE Inactive(c)
                /\ UNCHANGED <<bucket, faults>>
    /\ UNCHANGED <<todo, call, sent>>

(* Mutant of AfterFailedAbort: the manifest goes all the same. *)
AfterFailedAbortUnlist(c) == Continue(c, "unlist")

(* The manifest stays, for the next cleanup to find the upload by. *)
AfterFailedAbort(c) == Answer(c, "unavailable")

(* abort_upload and cleanup_uploads abort first; an upload that is no      *)
(* longer there is as good.                                                *)
AbortUpload(c) ==
    /\ At(c, "abort")
    /\ \/ Answered(Aborted(Session)) /\ Continue(c, "unlist")
       \/ Failed(Aborted(Session)) /\ AfterFailedAbort(c)
    /\ UNCHANGED <<todo, call, sent>>

(* The manifest goes last; a completion only logs that it could not. *)
DeleteManifest(c) ==
    /\ At(c, "unlist")
    /\ LET b == [bucket EXCEPT !.manifest = FALSE]
       IN  \/ Answered(b) /\ Answer(c, "ok")
           \/ Failed(b) /\ Answer(c, IF call[c].op = "complete" THEN "ok" ELSE "unavailable")
    /\ UNCHANGED <<todo, call, sent>>

(* cleanup_uploads goes by the age of the manifests it lists. *)
ListManifests(c) ==
    /\ At(c, "list")
    /\ IF bucket.manifest /\ bucket.old THEN Continue(c, "load") ELSE Answer(c, "ok")
    /\ UNCHANGED <<bucket, faults, todo, call, sent>>

(* Time passes the cutoff of a cleanup. *)
ManifestAges ==
    /\ bucket.manifest /\ ~ bucket.old
    /\ \E c \in Client : todo[c] # <<>> /\ Last(todo[c]).op = "cleanup"
    /\ bucket' = [bucket EXCEPT !.old = TRUE]
    /\ UNCHANGED <<todo, call, pc, sent, faults, answer>>

Die(c) ==
    /\ c \in Mortal /\ pc[c] \notin {"idle", "dead"}
    /\ Go(c, "dead")
    /\ UNCHANGED <<bucket, todo, call, sent, faults, answer>>

Step(c) ==
    \/ StartCall(c) \/ PutObject(c) \/ CreateObject(c) \/ GetObject(c) \/ DeleteObject(c)
    \/ OpenStream(c) \/ SendPart(c) \/ CompleteStream(c) \/ AbortStream(c) \/ RaiseError(c)
    \/ StartUpload(c) \/ PutManifest(c) \/ UndoUpload(c) \/ LoadManifest(c)
    \/ CountParts(c) \/ UploadPart(c) \/ CheckParts(c) \/ CommitUpload(c)
    \/ AbortUpload(c) \/ DeleteManifest(c) \/ ListManifests(c) \/ Die(c)

Begins(c) == pc[c] = "idle" /\ pc'[c] # "idle"
Returns(c, ops) == pc[c] # "idle" /\ pc'[c] = "idle" /\ call[c].op \in ops /\ answer'[c].is = "ok"

Upload(c) == IF call[c].op = "stream" THEN c ELSE Session

Remember ==
    trail' =
        [begun    |-> trail.begun \/ \E c \in Client : Returns(c, {"begin"}),
         closed   |-> trail.closed \/ \E c \in Client : Returns(c, {"complete", "abort"}),
         closedAt |-> [c \in Client |-> IF Begins(c) THEN trail.closed ELSE trail.closedAt[c]],
         leaked   |-> trail.leaked \cup
                         {Upload(c) : c \in {d \in Client : \/ /\ faults' > faults /\ pc'[d] # pc[d]
                                                               /\ pc[d] \in {"open", "start", "discard", "undo"}
                                                            \/ /\ pc'[d] = "dead" /\ pc[d] # "dead"
                                                               /\ call[d].op \in {"begin", "stream"}}}]

Next == (ManifestAges \/ \E c \in Client : Step(c)) /\ Remember

Spec == Init /\ [][Next]_vars

-----------------------------------------------------------------------------
AllCalls == UNION {UNION {Range(p[c]) : c \in Client} : p \in S3Plans}
Parts(k) == FlattenSeq([i \in DOMAIN k.parts |-> k.parts[i].bytes])

(* The object is always one whole write: what one put, create or stream    *)
(* within its limit sent, or the parts one completion within max_bytes     *)
(* named as it knew them, though parts are listed before the upload is     *)
(* completed and may be replaced in between (complete_upload).             *)
S3WholeObjects ==
    bucket.object \in Old \cup {Nothing}
        \cup {k.bytes : k \in {x \in AllCalls : x.op \in {"save", "create", "stream"} /\ Len(x.bytes) <= x.limit}}
        \cup {Parts(k) : k \in {x \in AllCalls : x.op = "complete" /\ Len(Parts(x)) <= MaxBytes}}

(* An object that a create has stored stays as it is, whatever other        *)
(* creates are made of it and whichever of their answers are lost, until    *)
(* somebody overwrites or deletes it (create).                              *)
CreatedStays ==
    \A c \in Client : call[c].op = "create" /\ answer[c].is = "ok" =>
        \/ bucket.object = call[c].bytes
        \/ \E d \in Client : call[d].op \in {"save", "stream", "complete", "delete"}

(* Once a completion or an abort has returned, no completion made later     *)
(* commits anything, even when the manifest could not be deleted.           *)
S3ClosedStaysClosed ==
    \A c \in Client : call[c].op = "complete" /\ trail.closedAt[c] => answer[c].is # "ok"

(* An upload that is still open is one some call is at work on, or the      *)
(* session with its manifest, which a cleanup finds; the exceptions are an  *)
(* upload whose opening or aborting request failed, or whose process died:  *)
(* nothing lists those (begin_upload, cleanup_uploads).                     *)
UploadsFindable ==
    \A u \in Uploads : bucket.uploads[u] # Nothing =>
        \/ u \in trail.leaked
        \/ u = Session /\ bucket.manifest
        \/ \E c \in Client : pc[c] \notin {"idle", "dead"} /\ call[c].op \in {"begin", "stream"} /\ Upload(c) = u
=============================================================================
