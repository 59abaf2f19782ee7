---------------------------- MODULE LocalStorage ----------------------------
(***************************************************************************)
(* The local storage backend (backends/storage_local.py) at one address    *)
(* (area, key): the files that hold the object and the steps of the calls  *)
(* that write, read and delete it, with the resumable upload of that       *)
(* object.  A call is a sequence of system calls, which the calls of other *)
(* threads and processes fall between; a process may die between any two.  *)
(***************************************************************************)
EXTENDS Integers, SequencesExt, FiniteSets

CONSTANTS Client,         \* threads and processes with calls on the address
          Plans,          \* sets of calls to check together: functions Client -> Seq(call)
          Layouts,        \* configurations of the area, of AllLayouts
          Old,            \* what the object may hold at the start
          Nothing,        \* no file, no part
          Number,         \* part numbers
          MaxBytes,       \* max_bytes of the upload, in chunks
          MinPart,        \* min_part_size, in chunks
          MaxFaults,      \* bound: writes that fail
          Mortal          \* clients that may die

AllLayouts == {"opaque", "legacy", "plain"}

ASSUME LocalStorageAssumption ==
    /\ Layouts \subseteq AllLayouts
    /\ Number \subseteq Nat \ {0}
    /\ MaxBytes \in Nat /\ MinPart \in Nat /\ MaxFaults \in Nat
    /\ Mortal \subseteq Client

VARIABLES layout,     \* how the area is configured
          disk,       \* the files of the object
          temp,       \* the temporary file of each client's write
          session,    \* the staging directory of the upload
          staged,     \* whether each client has a temporary part file
          todo,       \* calls each client has still to make
          call,       \* the call it makes, or made last
          pc,         \* where it is in that call
          rest,       \* representations of the object it has still to look at
          found,      \* how often the listing it makes has yielded the key
          retried,    \* _install found its directory pruned once
          faults,     \* writes that failed
          answer,     \* what the last call returned
          history     \* ghost: what the properties compare

vars == <<layout, disk, temp, session, staged, todo, call, pc, rest, found, retried, faults, answer, history>>

Writes == {"save", "complete"}
Reads == {"get", "list"}

(* What the address holds, as a reader that nobody disturbs finds it. *)
Current ==
    CASE layout = "opaque" -> disk.opaque
      [] layout = "legacy" -> IF disk.opaque # Nothing THEN disk.opaque ELSE disk.flat
      [] layout = "plain"  -> IF disk.flat # Nothing THEN disk.flat ELSE disk.opaque

Started(l, v) ==
    CASE v = Nothing  -> [opaque |-> Nothing, key |-> FALSE, flat |-> Nothing, dir |-> FALSE]
      [] l = "legacy" -> [opaque |-> Nothing, key |-> FALSE, flat |-> v, dir |-> FALSE]
      [] OTHER        -> [opaque |-> v, key |-> TRUE, flat |-> Nothing, dir |-> l = "opaque"]

NoCall == [op |-> "none"]
Pending == [is |-> "pending", bytes |-> Nothing]

NoSession == [dir |-> FALSE, manifest |-> FALSE, parts |-> [n \in Number |-> Nothing], old |-> FALSE]

NoHistory ==
    [seen     |-> [c \in Client |-> {}],       \* what the address held during the call
     moved    |-> [c \in Client |-> FALSE],    \* one of two representations came or went during it
     before   |-> [c \in Client |-> Nothing],  \* what the address held when it began
     gone     |-> {},                          \* what calls that returned have overwritten or deleted
     goneAt   |-> [c \in Client |-> {}],       \* that, when the call began
     begun    |-> FALSE,                       \* begin_upload returned the session
     closed   |-> FALSE,                       \* a completion or an abort returned
     closedAt |-> [c \in Client |-> FALSE],    \* that, when the call began
     stuck    |-> FALSE,                       \* rmtree failed: a part came in meanwhile
     bare     |-> FALSE,                       \* the identity was removed beside a new payload
     leftover |-> FALSE,                       \* a prior representation could not be removed
     touched  |-> FALSE]                       \* there has been an object

Init ==
    /\ layout \in Layouts
    /\ \E v \in Old \cup {Nothing} : disk = Started(layout, v)
    /\ temp = [c \in Client |-> Nothing]
    /\ session = NoSession
    /\ staged = [c \in Client |-> FALSE]
    /\ todo \in Plans
    /\ call = [c \in Client |-> NoCall]
    /\ pc = [c \in Client |-> "idle"]
    /\ rest = [c \in Client |-> <<>>]
    /\ found = [c \in Client |-> 0]
    /\ retried = [c \in Client |-> FALSE]
    /\ faults = 0
    /\ answer = [c \in Client |-> Pending]
    /\ history = [NoHistory EXCEPT !.touched = Current # Nothing]

-----------------------------------------------------------------------------
At(c, p) == pc[c] = p
Place(c) == Head(rest[c])
Go(c, p) == pc' = [pc EXCEPT ![c] = p]

AnswerWith(c, a, v) ==
    /\ Go(c, "idle")
    /\ answer' = [answer EXCEPT ![c] = [is |-> a, bytes |-> v]]

Answer(c, a) == AnswerWith(c, a, Nothing)

(* Mutant of Finish: a completed session is left to the cleanup. *)
FinishAtOnce(c) == Answer(c, IF call[c].op = "get" THEN "absent" ELSE "ok")

(* What a call does once it has been through every representation. *)
Finish(c) ==
    CASE call[c].op = "get"      -> Answer(c, "absent")
      [] call[c].op = "list"     -> Answer(c, "listed")
      [] call[c].op = "complete" -> Go(c, "empty") /\ UNCHANGED answer
      [] OTHER                   -> Answer(c, "ok")

Advance(c, r) ==
    /\ rest' = [rest EXCEPT ![c] = r]
    /\ IF r = <<>> THEN Finish(c) ELSE Go(c, "look") /\ UNCHANGED answer

(* A failure in a routine that tidies up after a commit is logged; in any  *)
(* other call it is raised.                                                *)
Raise(c) ==
    IF call[c].op \in Writes
    THEN Advance(c, Tail(rest[c]))
    ELSE Answer(c, "unavailable") /\ UNCHANGED rest

(* Mutant of Places: the older representation first. *)
OlderFirst == CASE layout = "opaque" -> <<"opaque">>
                [] layout = "legacy" -> <<"flat", "opaque">>
                [] layout = "plain"  -> <<"opaque", "flat">>

(* The representations of an object in the order they are consulted. *)
Places == CASE layout = "opaque" -> <<"opaque">>
            [] layout = "legacy" -> <<"opaque", "flat">>
            [] layout = "plain"  -> <<"flat", "opaque">>

(* Mutant of Prior: a migrated object is left where it was. *)
NoPrior == <<>>

(* The representation a write replaces, once its own is in place. *)
Prior == CASE layout = "opaque" -> <<>>
           [] layout = "legacy" -> <<"flat">>
           [] layout = "plain"  -> <<"opaque">>

Destination == IF layout = "plain" THEN "flat" ELSE "opaque"

-----------------------------------------------------------------------------
(* Where a call starts. *)
Entry(op) == CASE op = "save"     -> "prepare"
               [] op \in {"get", "delete"} -> "look"
               [] op \in {"list", "delete_prefix"} -> "scan"
               [] op = "begin"    -> "make"
               [] op = "part"     -> "load"
               [] op = "complete" -> "load"
               [] op = "abort"    -> "find"
               [] op = "cleanup"  -> "age"

(* A session is known to its callers once begin_upload has returned it. *)
StartCall(c) ==
    /\ At(c, "idle") /\ todo[c] # <<>>
    /\ Head(todo[c]).op \in {"part", "complete", "abort"} => history.begun
    /\ call' = [call EXCEPT ![c] = Head(todo[c])]
    /\ todo' = [todo EXCEPT ![c] = Tail(@)]
    /\ Go(c, Entry(Head(todo[c]).op))
    /\ rest' = [rest EXCEPT ![c] = IF Head(todo[c]).op \in Writes THEN <<>> ELSE Places]
    /\ found' = [found EXCEPT ![c] = 0]
    /\ retried' = [retried EXCEPT ![c] = FALSE]
    /\ answer' = [answer EXCEPT ![c] = Pending]
    /\ UNCHANGED <<layout, disk, temp, session, staged, faults>>

Fault == faults < MaxFaults /\ faults' = faults + 1

-----------------------------------------------------------------------------
(* Writing: save, save_stream, and the commit of complete_upload. *)

(* _write_object_identities: whether the files are there is read and the   *)
(* missing ones are moved into place, which is one step to everyone else.  *)
Identified(d) == [d EXCEPT !.key = TRUE, !.dir = TRUE]

Prepare(c) ==
    /\ At(c, "prepare")
    /\ disk' = IF layout = "plain" THEN disk ELSE Identified(disk)
    /\ Go(c, "open")
    /\ UNCHANGED <<layout, temp, session, staged, todo, call, rest, found, retried, faults, answer>>

(* A plain area stages its temporary file outside the area. *)
OpenTemporary(c) ==
    /\ At(c, "open")
    /\ \/ /\ temp' = [temp EXCEPT ![c] = <<>>]
          /\ disk' = [disk EXCEPT !.dir = @ \/ layout # "plain"]
          /\ Go(c, "write")
          /\ UNCHANGED faults
       \/ /\ Fault
          /\ Go(c, "abandon")
          /\ UNCHANGED <<temp, disk>>
    /\ UNCHANGED <<layout, session, staged, todo, call, rest, found, retried, answer>>

(* What the write is to hold: the bytes of its source, or the parts that   *)
(* the completion refers to, in order.                                     *)
Intended(k) == IF k.op = "complete" THEN FlattenSeq([i \in DOMAIN k.parts |-> k.parts[i].bytes]) ELSE k.bytes

Written(c) == temp[c] = Intended(call[c])

(* save_stream reads one byte past its limit at most and refuses what is   *)
(* longer before any of it is visible.                                     *)
WriteChunk(c) ==
    /\ At(c, "write") /\ call[c].op = "save" /\ ~ Written(c)
    /\ \/ /\ Len(temp[c]) < call[c].limit
          /\ temp' = [temp EXCEPT ![c] = Append(@, call[c].bytes[Len(@) + 1])]
          /\ UNCHANGED <<pc, faults>>
       \/ /\ Len(temp[c]) = call[c].limit
          /\ Go(c, "discard")
          /\ UNCHANGED <<temp, faults>>
       \/ /\ Fault
          /\ Go(c, "discard")
          /\ UNCHANGED temp
    /\ UNCHANGED <<layout, disk, session, staged, todo, call, rest, found, retried, answer>>

(* Mutant of PartMatches: the size alone is compared. *)
PartMatchesInSize(ref) ==
    /\ session.parts[ref.number] # Nothing
    /\ Len(session.parts[ref.number]) = Len(ref.bytes)

(* The part file is there, and its size and digest are those of the reference. *)
PartMatches(ref) == session.parts[ref.number] = ref.bytes

(* The first reference whose part is not yet in the temporary file. *)
NextPart(c) ==
    LET sizes(k) == Len(FlattenSeq([i \in 1..k |-> call[c].parts[i].bytes]))
    IN  call[c].parts[CHOOSE k \in DOMAIN call[c].parts : sizes(k) > Len(temp[c]) /\ sizes(k - 1) <= Len(temp[c])]

CopyPart(c) ==
    /\ At(c, "write") /\ call[c].op = "complete" /\ Len(temp[c]) < Len(Intended(call[c]))
    /\ IF PartMatches(NextPart(c))
       THEN temp' = [temp EXCEPT ![c] = @ \o session.parts[NextPart(c).number]] /\ UNCHANGED pc
       ELSE Go(c, "discard") /\ UNCHANGED temp
    /\ UNCHANGED <<layout, disk, session, staged, todo, call, rest, found, retried, faults, answer>>

(* Nothing is left to write to the temporary file. *)
Filled(c) == Len(temp[c]) = Len(Intended(call[c]))

(* _install makes the directory ... *)
MakeParent(c) ==
    /\ At(c, "write") /\ Filled(c)
    /\ disk' = [disk EXCEPT !.dir = TRUE]
    /\ Go(c, "replace")
    /\ UNCHANGED <<layout, temp, session, staged, todo, call, rest, found, retried, faults, answer>>

(* ... and moves the temporary file over the destination, once more if a    *)
(* delete pruned the directory in between.                                 *)
Replace(c) ==
    /\ At(c, "replace")
    /\ \/ /\ disk.dir
          /\ disk' = [disk EXCEPT ![Destination] = temp[c]]
          /\ temp' = [temp EXCEPT ![c] = Nothing]
          /\ Go(c, "settle")
          /\ UNCHANGED retried
       \/ /\ ~ disk.dir
          /\ Go(c, IF retried[c] THEN "discard" ELSE "write")
          /\ retried' = [retried EXCEPT ![c] = TRUE]
          /\ UNCHANGED <<disk, temp>>
    /\ UNCHANGED <<layout, session, staged, todo, call, rest, found, faults, answer>>

(* Mutant of Settled: the identity files of the preparation are taken to last. *)
SettledAsPrepared(d) == d

Settled(d) == IF layout = "plain" THEN d ELSE Identified(d)

(* _finish_commit: the identity once more, then the prior representation. *)
Settle(c) ==
    /\ At(c, "settle")
    /\ disk' = Settled(disk)
    /\ Advance(c, Prior)
    /\ UNCHANGED <<layout, temp, session, staged, todo, call, found, retried, faults>>

(* A write that failed removes its temporary file ... *)
Discard(c) ==
    /\ At(c, "discard")
    /\ temp' = [temp EXCEPT ![c] = Nothing]
    /\ Go(c, "abandon")
    /\ UNCHANGED <<layout, disk, session, staged, todo, call, rest, found, retried, faults, answer>>

(* ... and, with _abandon_new_object, the identity of an object that was   *)
(* never committed: whether it was is looked at first.                     *)
Abandon(c) ==
    /\ At(c, "abandon")
    /\ Go(c, IF layout # "plain" /\ disk.opaque = Nothing THEN "unname" ELSE "prune")
    /\ UNCHANGED <<layout, disk, temp, session, staged, todo, call, rest, found, retried, faults, answer>>

(* Mutant of Unnamed: the identity is left behind. *)
UnnamedNot(d) == d

Unnamed(d) == [d EXCEPT !.key = FALSE]

(* The identity file goes, if it is still there: after a failed write, or  *)
(* after the payload in a delete.                                          *)
UnlinkKey(c) ==
    /\ At(c, "unname")
    /\ disk' = Unnamed(disk)
    /\ Go(c, "prune")
    /\ UNCHANGED <<layout, temp, session, staged, todo, call, rest, found, retried, faults, answer>>

(* Whether nothing keeps the directory of the destination: temporary files *)
(* of an opaque object are in it, those of a plain one elsewhere.          *)
EmptyDirectory ==
    /\ disk[Destination] = Nothing
    /\ layout # "plain" => ~ disk.key /\ \A c \in Client : temp[c] = Nothing

(* _prune_empty_directories, which ends a failed write and every removal. *)
Prune(c) ==
    /\ At(c, "prune")
    /\ disk' = IF rest[c] = <<>> \/ Place(c) = Destination THEN [disk EXCEPT !.dir = @ /\ ~ EmptyDirectory] ELSE disk
    /\ IF rest[c] = <<>>
       THEN Answer(c, "refused") /\ UNCHANGED rest
       ELSE Advance(c, Tail(rest[c]))
    /\ UNCHANGED <<layout, temp, session, staged, todo, call, found, retried, faults>>

-----------------------------------------------------------------------------
(* Reading and deleting go through the representations one by one; so does *)
(* the end of a write, through the prior one.                              *)
(* _is_regular_file of the representation *)
Look(c) ==
    /\ At(c, "look")
    /\ IF disk[Place(c)] = Nothing
       THEN Advance(c, Tail(rest[c]))
       ELSE /\ Go(c, IF Place(c) = "opaque" THEN "identify" ELSE "reach")
            /\ UNCHANGED <<rest, answer>>
    /\ UNCHANGED <<layout, disk, temp, session, staged, todo, call, found, retried, faults>>

(* _verify_object_identity: an opaque object without its identity is an error. *)
Identify(c) ==
    /\ At(c, "identify")
    /\ IF disk.key
       THEN Go(c, "reach") /\ UNCHANGED <<rest, answer>>
       ELSE Raise(c)
    /\ UNCHANGED <<layout, disk, temp, session, staged, todo, call, found, retried, faults>>

(* open_stream: the file found is opened, unless it has gone; what is then  *)
(* read is what was opened, whatever replaces it.                          *)
Read(c) ==
    /\ At(c, "reach") /\ call[c].op = "get"
    /\ AnswerWith(c, IF disk[Place(c)] = Nothing THEN "absent" ELSE "found", disk[Place(c)])
    /\ UNCHANGED <<layout, disk, temp, session, staged, todo, call, rest, found, retried, faults>>

(* Another call may have removed the file first: an opaque object that has *)
(* gone is then an error, a flat one is not.  A file that cannot be removed *)
(* is logged when a write removes the prior representation.                *)
Unlink(c) ==
    /\ At(c, "reach") /\ call[c].op # "get"
    /\ \/ /\ disk[Place(c)] # Nothing
          /\ disk' = [disk EXCEPT ![Place(c)] = Nothing]
          /\ Go(c, IF Place(c) = "opaque" THEN "unname" ELSE "prune")
          /\ UNCHANGED <<rest, answer, faults>>
       \/ /\ disk[Place(c)] = Nothing
          /\ IF Place(c) = "opaque" THEN Raise(c) ELSE Advance(c, Tail(rest[c]))
          /\ UNCHANGED <<disk, faults>>
       \/ /\ Fault
          /\ Raise(c)
          /\ UNCHANGED disk
    /\ UNCHANGED <<layout, temp, session, staged, todo, call, found, retried>>

(* Mutant of Yielded: a flat object is listed whatever came in its place. *)
YieldedAgain(c) ==
    CASE Place(c) = "opaque" -> disk.opaque # Nothing /\ disk.key
      [] Place(c) = "flat"   -> disk.flat # Nothing

(* iter_objects goes through the same representations.  An opaque object   *)
(* without its identity is passed over, one already found is not yielded   *)
(* again, and a flat one is passed over if an opaque one is there by now.  *)
Yielded(c) ==
    CASE Place(c) = "opaque" -> disk.opaque # Nothing /\ disk.key /\ found[c] = 0
      [] Place(c) = "flat"   -> disk.flat # Nothing /\ (layout = "plain" \/ disk.opaque = Nothing)

Listing(c, n) ==
    IF Tail(rest[c]) # <<>>
    THEN rest' = [rest EXCEPT ![c] = Tail(@)] /\ UNCHANGED <<pc, answer>>
    ELSE IF call[c].op = "delete_prefix" /\ n > 0
         THEN rest' = [rest EXCEPT ![c] = Places] /\ Go(c, "look") /\ UNCHANGED answer
         ELSE Advance(c, <<>>)

(* That look fails on an opaque object without its identity. *)
Unverifiable(c) ==
    Place(c) = "flat" /\ layout = "legacy" /\ disk.flat # Nothing /\ disk.opaque # Nothing /\ ~ disk.key

Scan(c) ==
    /\ At(c, "scan")
    /\ IF Unverifiable(c)
       THEN Answer(c, "unavailable") /\ UNCHANGED <<found, rest>>
       ELSE /\ found' = [found EXCEPT ![c] = @ + IF Yielded(c) THEN 1 ELSE 0]
            /\ Listing(c, found'[c])
    /\ UNCHANGED <<layout, disk, temp, session, staged, todo, call, retried, faults>>

-----------------------------------------------------------------------------
(* The resumable upload: a directory with a manifest and a file per part. *)

(* begin_upload makes the directories, then the manifest. *)
MakeSession(c) ==
    /\ At(c, "make")
    /\ session' = [session EXCEPT !.dir = TRUE]
    /\ Go(c, "manifest")
    /\ UNCHANGED <<layout, disk, temp, staged, todo, call, rest, found, retried, faults, answer>>

(* If that fails the directory goes again; if the process dies it stays. *)
WriteManifest(c) ==
    /\ At(c, "manifest")
    /\ \/ /\ session.dir
          /\ session' = [session EXCEPT !.manifest = TRUE]
          /\ Answer(c, "ok")
          /\ UNCHANGED faults
       \/ /\ Fault \/ (~ session.dir /\ UNCHANGED faults)
          /\ session' = [session EXCEPT !.dir = FALSE]
          /\ Answer(c, "unavailable")
    /\ UNCHANGED <<layout, disk, temp, staged, todo, call, rest, found, retried>>

(* _load_upload_session, at the start of upload_part and complete_upload *)
LoadSession(c) ==
    /\ At(c, "load")
    /\ IF session.manifest
       THEN Go(c, IF call[c].op = "part" THEN "count" ELSE "check") /\ UNCHANGED answer
       ELSE Answer(c, "inactive")
    /\ UNCHANGED <<layout, disk, temp, session, staged, todo, call, rest, found, retried, faults>>

Uploaded == {n \in Number : session.parts[n] # Nothing}

StagedBeside(n) == MapThenSumSet(LAMBDA k : Len(session.parts[k]), Uploaded \ {n})

(* upload_part adds up what is staged; other parts may be on their way. *)
CountParts(c) ==
    /\ At(c, "count")
    /\ CASE ~ session.dir -> Answer(c, "inactive")
         [] session.dir /\ StagedBeside(call[c].number) + Len(call[c].bytes) > MaxBytes -> Answer(c, "too large")
         [] OTHER -> Go(c, "stage") /\ UNCHANGED answer
    /\ UNCHANGED <<layout, disk, temp, session, staged, todo, call, rest, found, retried, faults>>

StagePart(c) ==
    /\ At(c, "stage")
    /\ IF session.dir
       THEN staged' = [staged EXCEPT ![c] = TRUE] /\ Go(c, "fill") /\ UNCHANGED answer
       ELSE Answer(c, "unavailable") /\ UNCHANGED staged
    /\ UNCHANGED <<layout, disk, temp, session, todo, call, rest, found, retried, faults>>

(* ExactSizeReader: a source that is not exactly as long as declared is    *)
(* refused after its bytes were written, like a write that fails.          *)
FillPart(c) ==
    /\ At(c, "fill")
    /\ \/ /\ call[c].exact
          /\ Go(c, "publish")
          /\ UNCHANGED <<staged, faults, answer>>
       \/ /\ IF call[c].exact THEN Fault ELSE UNCHANGED faults
          /\ staged' = [staged EXCEPT ![c] = FALSE]
          /\ Answer(c, "refused")
    /\ UNCHANGED <<layout, disk, temp, session, todo, call, rest, found, retried>>

(* _install makes the directory again if the session was removed, but not  *)
(* the temporary file that was in it.                                      *)
PublishPart(c) ==
    /\ At(c, "publish")
    /\ staged' = [staged EXCEPT ![c] = FALSE]
    /\ IF staged[c]
       THEN /\ session' = [session EXCEPT !.parts[call[c].number] = call[c].bytes]
            /\ Answer(c, "ok")
       ELSE /\ session' = [session EXCEPT !.dir = TRUE, !.old = @ /\ session.dir]
            /\ Answer(c, "unavailable")
    /\ UNCHANGED <<layout, disk, temp, todo, call, rest, found, retried, faults>>

(* Mutant of WithinLimit: the parts were counted as they came. *)
WithinLimitAsCounted(refs) == TRUE

WithinLimit(refs) == Len(FlattenSeq([i \in DOMAIN refs |-> refs[i].bytes])) <= MaxBytes

(* _validate_completion_parts *)
AcceptedParts(refs) ==
    /\ refs # <<>>
    /\ \A i \in DOMAIN refs : /\ i > 1 => refs[i - 1].number < refs[i].number
                              /\ i < Len(refs) => Len(refs[i].bytes) >= MinPart
    /\ WithinLimit(refs)

(* complete_upload checks its references, and that they are the parts there *)
(* are, by number and by size.                                             *)
CheckParts(c) ==
    /\ At(c, "check")
    /\ LET refs == call[c].parts
           named == {refs[i].number : i \in DOMAIN refs}
       IN  IF /\ AcceptedParts(refs)
              /\ named = Uploaded
              /\ \A i \in DOMAIN refs : Len(session.parts[refs[i].number]) = Len(refs[i].bytes)
           THEN Go(c, "prepare") /\ UNCHANGED answer
           ELSE Answer(c, "refused")
    /\ UNCHANGED <<layout, disk, temp, session, staged, todo, call, rest, found, retried, faults>>

(* abort_upload returns at once when there is no directory. *)
FindSession(c) ==
    /\ At(c, "find")
    /\ CASE ~ session.dir -> Answer(c, "ok")
         [] session.dir /\ ~ session.manifest -> Answer(c, "inactive")
         [] OTHER -> Go(c, "empty") /\ UNCHANGED answer
    /\ UNCHANGED <<layout, disk, temp, session, staged, todo, call, rest, found, retried, faults>>

(* cleanup_uploads goes by the age of the directory, manifest or not. *)
AgeSession(c) ==
    /\ At(c, "age")
    /\ IF session.dir /\ session.old
       THEN Go(c, "empty") /\ UNCHANGED answer
       ELSE Answer(c, "ok")
    /\ UNCHANGED <<layout, disk, temp, session, staged, todo, call, rest, found, retried, faults>>

Unremoved(op) == IF op = "complete" THEN "ok" ELSE "unavailable"

(* shutil.rmtree, which complete_upload, abort_upload and cleanup_uploads  *)
(* call: the files it finds go one by one, the manifest among them ...     *)
EmptySession(c) ==
    /\ At(c, "empty")
    /\ IF session.dir
       THEN /\ \E kept \in {session.manifest, FALSE} :
                   session' = [session EXCEPT !.parts = [n \in Number |-> Nothing], !.manifest = kept]
            /\ staged' = [d \in Client |-> FALSE]
            /\ Go(c, "remove")
            /\ UNCHANGED answer
       ELSE /\ Answer(c, IF call[c].op = "abort" THEN "unavailable" ELSE "ok")
            /\ UNCHANGED <<session, staged>>
    /\ UNCHANGED <<layout, disk, temp, todo, call, rest, found, retried, faults>>

(* ... and then the directory, unless a part has come in meanwhile. *)
RemoveSession(c) ==
    /\ At(c, "remove")
    /\ IF Uploaded = {} /\ \A d \in Client : ~ staged[d]
       THEN /\ session' = [session EXCEPT !.dir = FALSE, !.manifest = FALSE]
            /\ Answer(c, IF session.dir \/ call[c].op # "abort" THEN "ok" ELSE "unavailable")
       ELSE Answer(c, Unremoved(call[c].op)) /\ UNCHANGED session
    /\ UNCHANGED <<layout, disk, temp, staged, todo, call, rest, found, retried, faults>>

-----------------------------------------------------------------------------
(* Time passes the cutoff of a cleanup. *)
SessionAges ==
    /\ session.dir /\ ~ session.old
    /\ \E c \in Client : todo[c] # <<>> /\ Last(todo[c]).op = "cleanup"
    /\ session' = [session EXCEPT !.old = TRUE]
    /\ UNCHANGED <<layout, disk, temp, staged, todo, call, pc, rest, found, retried, faults, answer>>

(* A process dies: its files stay as they are. *)
Die(c) ==
    /\ c \in Mortal /\ pc[c] \notin {"idle", "dead"}
    /\ Go(c, "dead")
    /\ UNCHANGED <<layout, disk, temp, session, staged, todo, call, rest, found, retried, faults, answer>>

Step(c) ==
    \/ StartCall(c)
    \/ Prepare(c) \/ OpenTemporary(c) \/ WriteChunk(c) \/ CopyPart(c)
    \/ MakeParent(c) \/ Replace(c) \/ Settle(c)
    \/ Discard(c) \/ Abandon(c) \/ UnlinkKey(c) \/ Prune(c)
    \/ Look(c) \/ Identify(c) \/ Read(c) \/ Unlink(c) \/ Scan(c)
    \/ MakeSession(c) \/ WriteManifest(c) \/ LoadSession(c)
    \/ CountParts(c) \/ StagePart(c) \/ FillPart(c) \/ PublishPart(c) \/ CheckParts(c)
    \/ FindSession(c) \/ AgeSession(c) \/ EmptySession(c) \/ RemoveSession(c)
    \/ Die(c)

Begins(c) == pc[c] = "idle" /\ pc'[c] # "idle"
Returns(c, ops) == pc[c] # "idle" /\ pc'[c] = "idle" /\ call[c].op \in ops /\ answer'[c].is = "ok"

(* A removal that leaves one of two representations of the object, and the *)
(* write that makes the second.                                            *)
Parted == disk.opaque # Nothing /\ disk.flat # Nothing /\ Nothing \in {disk'.opaque, disk'.flat}
Joined == Nothing \in {disk.opaque, disk.flat} /\ disk'.opaque # Nothing /\ disk'.flat # Nothing

(* What a call that is left alone finds; a listing passes over an opaque   *)
(* object without its identity, where get raises.                          *)
Findable(op) == IF op = "list" /\ Current = disk.opaque /\ ~ disk.key THEN Nothing ELSE Current

Remember ==
    LET h == history
    IN history' =
        [seen     |-> [c \in Client |-> IF call'[c].op \notin Reads THEN {}
                                        ELSE IF Begins(c) THEN {Findable(call'[c].op)}
                                        ELSE IF pc[c] = "idle" THEN h.seen[c]
                                        ELSE h.seen[c] \cup {Findable(call[c].op)'}],
         moved    |-> [c \in Client |-> /\ call'[c].op \in Reads /\ ~ Begins(c)
                                        /\ \/ h.moved[c]
                                           \/ pc[c] # "idle" /\ (Parted \/ (call[c].op = "list" /\ Joined))],
         before   |-> [c \in Client |-> IF Begins(c) THEN Current ELSE h.before[c]],
         gone     |-> (h.gone \cup {h.before[c] : c \in {d \in Client : Returns(d, Writes \cup {"delete", "delete_prefix"})}}) \ {Nothing},
         goneAt   |-> [c \in Client |-> IF Begins(c) THEN h.gone ELSE h.goneAt[c]],
         begun    |-> h.begun \/ \E c \in Client : Returns(c, {"begin"}),
         closed   |-> h.closed \/ \E c \in Client : Returns(c, {"complete", "abort"}),
         closedAt |-> [c \in Client |-> IF Begins(c) THEN h.closed ELSE h.closedAt[c]],
         stuck    |-> h.stuck \/ \E c \in Client : pc[c] = "remove" /\ pc'[c] = "idle" /\ session'.dir,
         bare     |-> /\ ~ disk'.key
                      /\ \/ h.bare
                         \/ disk.key /\ disk'.opaque # Nothing
                         \/ \E c \in Client : pc[c] = "settle" /\ pc'[c] = "dead",
         leftover |-> h.leftover \/ \E c \in Client : /\ pc[c] = "reach" /\ pc'[c] # pc[c] /\ faults' > faults
                                                      /\ call[c].op \in Writes,
         touched  |-> h.touched \/ Current' # Nothing]

Next == (SessionAges \/ \E c \in Client : Step(c)) /\ Remember

Spec == Init /\ [][Next]_vars

-----------------------------------------------------------------------------
AllCalls == UNION {UNION {Range(p[c]) : c \in Client} : p \in Plans}
Stored == {disk.opaque, disk.flat} \ {Nothing}
AtRest == \A c \in Client : pc[c] = "idle"

(* What is at the address is always one whole object: the bytes of one     *)
(* write that was within its limit, or the parts that one completion named, *)
(* in their order and as it knew them; never a temporary file (              *)
(* _write_object_bytes, save_stream, complete_upload).                      *)
OnlyWholeObjects ==
    Stored \subseteq Old \cup {k.bytes : k \in {x \in AllCalls : x.op = "save" /\ Len(x.bytes) <= x.limit}}
                         \cup {Intended(k) : k \in {x \in AllCalls : x.op = "complete"}}

(* No upload larger than the max_bytes of its session is committed, though  *)
(* upload_part counts the staged parts before it adds its own and two calls *)
(* together can stage more.                                                *)
UploadsWithinLimit ==
    \A k \in AllCalls : k.op = "complete" /\ Intended(k) \in Stored => Len(Intended(k)) <= MaxBytes

(* get returns what the address held at some moment of the call, and None   *)
(* only if it held nothing at some moment, or one of two representations    *)
(* was removed between its looks: a write that moves the object to the       *)
(* configured layout makes a reader in between miss both.                   *)
ReadsAreCurrent ==
    \A c \in Client : call[c].op = "get" /\ layout \in Layouts =>
        /\ answer[c].is = "absent" => Nothing \in history.seen[c] \/ history.moved[c]
        /\ answer[c].is = "found" => answer[c].bytes \in history.seen[c]

(* A listing yields a key that was there all the time once and not one that *)
(* never was, whoever overwrites it meanwhile, unless the object had two     *)
(* representations for a moment: then it may miss it, or yield it twice.    *)
ListedOnce ==
    \A c \in Client : call[c].op = "list" /\ answer[c].is = "listed" /\ ~ history.moved[c] =>
        /\ Nothing \notin history.seen[c] => found[c] = 1
        /\ history.seen[c] = {Nothing} => found[c] = 0

(* What a write or a delete that has returned took the place of is never   *)
(* read again by a call made later, in whichever representation it was,    *)
(* unless removing that representation failed and was logged.              *)
GoneStaysGone ==
    \A c \in Client : call[c].op = "get" /\ answer[c].bytes \in history.goneAt[c] => history.leftover

(* A committed object has its identity, so that it can be read, unless the  *)
(* write that committed it is about to settle it or died before it could,   *)
(* or the identity was removed by a delete or a failed write that had       *)
(* looked at an earlier payload (_finish_commit).                           *)
CommittedReadable ==
    layout # "plain" /\ disk.opaque # Nothing /\ ~ disk.key =>
        history.bare \/ \E c \in Client : pc[c] = "settle"

(* The docstring of _finish_commit: a committed object can always be read. *)
AlwaysReadable ==
    layout # "plain" /\ disk.opaque # Nothing /\ ~ disk.key => \E c \in Client : pc[c] = "settle"

(* If no write of a new key has committed, the calls leave no file and no  *)
(* directory behind when they have returned (_abandon_new_object).          *)
RefusedLeavesNothing ==
    AtRest /\ ~ history.touched =>
        disk = Started(layout, Nothing) /\ \A c \in Client : temp[c] = Nothing /\ ~ staged[c]

(* Once a completion or an abort has returned, no completion made later     *)
(* commits anything, unless a part came in while the session was removed.  *)
ClosedStaysClosed ==
    \A c \in Client : call[c].op = "complete" /\ history.closedAt[c] /\ ~ history.stuck =>
        pc[c] \notin {"replace", "settle"} /\ answer[c].is # "ok"

(* Reads, listings and what a commit leaves behind show the state of the    *)
(* object at some moment of the call: never an older representation, never *)
(* one key twice, never a commit nobody can read (get, list, save).         *)
LooksAreCurrent == ReadsAreCurrent /\ ListedOnce /\ CommittedReadable
=============================================================================
