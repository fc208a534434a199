----------------------------- MODULE ModelDownloads -----------------------------
(***************************************************************************)
(* Downloads of a model's file from Hugging Face                           *)
(* (backend/api/handlers/provider_routing.py: download_huggingface_model,  *)
(* cancel_huggingface_download and install_huggingface_model): a download  *)
(* registers, asks for the published hash, takes the lock of the file,     *)
(* resumes or restarts the partial file, publishes it by a rename, says    *)
(* where it came from, and only then compares hashes.  A DELETE marks the  *)
(* download that is registered and removes the partial file under the      *)
(* lock.  An installation reads what was published without the lock.       *)
(*                                                                         *)
(* Positions of a download: new, asking, waiting (for the lock),           *)
(* inspecting, noting, getting, receiving, publishing, describing,         *)
(* checking, leaving, over; of a DELETE: new, waiting, leaving, over; of   *)
(* an installation: new, hashing, writing, over.  todo holds the files     *)
(* that an actor removes, one thread call each, before it goes on.         *)
(*                                                                         *)
(* Abstractions.  One file of one repository, of Size chunks in every      *)
(* version; a hash is the sequence of the chunks.  A push moves a revision *)
(* to a next version.  The hash a client may send, sizes, progress, the    *)
(* projection file and the import into Ollama are left out.  A file is     *)
(* written to a temporary one and renamed, in one step.  is_disconnected() *)
(* answers yes when a fault is spent.                                      *)
(***************************************************************************)
EXTENDS Integers, Sequences

CONSTANTS
  Downloads, Deletes, Installs,  \* requests
  Revisions,
  RevisionOf,   \* of each download and installation
  Resumes,      \* downloads that ask to resume
  Hashed,       \* revisions of which the host publishes a hash
  Size,         \* chunks of the file
  None,         \* a missing file, nobody, no hash
  MaxVersion,   \* bound on pushes
  MaxFaults,    \* bound on failed calls and lost connections
  MaxCrashes    \* bound on restarts

Actors == Downloads \cup Deletes \cup Installs
Chunks == Revisions \X (0..MaxVersion) \X (1..Size)

\* What is in a file, if it is there, and what a note of a file says.
Contents == Seq(Chunks) \cup {None}
Labels == [revision : Revisions, hash : Contents]

\* The values of the constants a configuration may take.
Parameters ==
  /\ None \notin Actors \cup Seq(Chunks) \cup Labels
  /\ Downloads \cap Deletes = {} /\ (Downloads \cup Deletes) \cap Installs = {}
  /\ RevisionOf \in [Downloads \cup Installs -> Revisions]
  /\ Resumes \subseteq Downloads /\ Hashed \subseteq Revisions
  /\ Size \in Nat \ {0} /\ {MaxVersion, MaxFaults, MaxCrashes} \subseteq Nat

VARIABLES
  remote,      \* version each revision points to at the host
  registered,  \* _download_cancel_events: the download whose event is there
  cancelled,   \* downloads whose event is set
  lock,        \* who holds the lock of the file
  at, todo, result,
  transfer,    \* of each download: the expected hash, what is to come, what was hashed
  target,      \* the download each DELETE marked
  disk,        \* the partial file and its note, the file and its source
  manifest,    \* model-manifest.json
  seen,        \* of each installation: what the source of the file says
  spent        \* faults and restarts so far

memory == <<registered, cancelled, lock>>
vars ==
  <<remote, memory, at, todo, result, transfer, target, disk, manifest, seen, spent>>

Whole(rev, v) == [i \in 1..Size |-> <<rev, v, i>>]
Missing(name) == disk[name] = None

Positions ==
  {"new", "asking", "waiting", "inspecting", "noting", "getting", "receiving", "publishing",
   "describing", "checking", "hashing", "writing", "leaving", "over"}
Results ==
  {"none", "busy", "failed", "cancelled", "interrupted", "rejected", "downloaded",
   "refused", "installed", "lost"}

TypeOK ==
  /\ remote \in [Revisions -> 0..MaxVersion]
  /\ registered \in Downloads \cup {None} /\ cancelled \subseteq Downloads
  /\ lock \in Downloads \cup Deletes \cup {None}
  /\ at \in [Actors -> Positions] /\ result \in [Actors -> Results]
  /\ todo \in [Actors -> Seq({"part", "meta", "final", "source"})]
  /\ transfer \in [Downloads -> [expected : Contents, body : Seq(Chunks), digest : Seq(Chunks)]]
  /\ target \in [Deletes -> Downloads \cup {None}]
  /\ disk \in [part : Contents, meta : Labels \cup {None},
               final : Contents, source : Labels \cup {None}]
  /\ manifest \in Labels \cup {None} /\ seen \in [Installs -> Labels \cup {None}]
  /\ spent \in [faults : 0..MaxFaults, crashes : 0..MaxCrashes]

Init ==
  /\ remote = [r \in Revisions |-> 0]
  /\ registered = None /\ cancelled = {} /\ lock = None
  /\ at = [a \in Actors |-> "new"]
  /\ todo = [a \in Actors |-> <<>>]
  /\ result = [a \in Actors |-> "none"]
  /\ transfer = [d \in Downloads |-> [expected |-> None, body |-> <<>>, digest |-> <<>>]]
  /\ target = [c \in Deletes |-> None]
  /\ disk = [part |-> None, meta |-> None, final |-> None, source |-> None]
  /\ manifest = None
  /\ seen = [i \in Installs |-> None]
  /\ spent = [faults |-> 0, crashes |-> 0]

\* An actor is at a position, and has nothing left to remove.
At(a, position) == at[a] = position /\ todo[a] = <<>>
Go(a, position) == at' = [at EXCEPT ![a] = position] /\ UNCHANGED <<todo, result>>
Return(a, value) ==
  /\ at' = [at EXCEPT ![a] = "over"]
  /\ result' = [result EXCEPT ![a] = value]
  /\ UNCHANGED todo

\* An actor removes files, and then leaves with a result.
Leave(a, value, files) ==
  /\ at' = [at EXCEPT ![a] = "leaving"]
  /\ todo' = [todo EXCEPT ![a] = files]
  /\ result' = [result EXCEPT ![a] = value]

Fault ==
  /\ spent.faults < MaxFaults
  /\ spent' = [spent EXCEPT !.faults = @ + 1]

Unlink(a) ==
  /\ todo[a] # <<>>
  /\ disk' = [disk EXCEPT ![Head(todo[a])] = None]
  /\ todo' = [todo EXCEPT ![a] = Tail(@)]
  /\ UNCHANGED <<remote, memory, at, result, transfer, target, manifest, seen, spent>>

-----------------------------------------------------------------------------
(* A download.                                                             *)

Abort(d) == Leave(d, "cancelled", <<"part", "meta">>)
Fails(d) == Leave(d, "failed", <<"part", "meta", "final", "source">>)
Rejects(d) == Leave(d, "rejected", <<"final", "part", "source", "meta">>)

Describes(d, hash) == [revision |-> RevisionOf[d], hash |-> hash]

\* The event is there before the lock is awaited; a second download is refused.
Register(d) ==
  /\ at[d] = "new"
  /\ IF registered = None
     THEN registered' = d /\ Go(d, "asking")
     ELSE Return(d, "busy") /\ UNCHANGED registered
  /\ UNCHANGED <<remote, cancelled, lock, transfer, target, disk, manifest, seen, spent>>

Published(rev) == IF rev \in Hashed THEN Whole(rev, remote[rev]) ELSE None

Ask(d) ==
  /\ At(d, "asking")
  /\ \/ /\ transfer' = [transfer EXCEPT ![d].expected = Published(RevisionOf[d])]
        /\ Go(d, "waiting") /\ UNCHANGED spent
     \/ Fault /\ Leave(d, "failed", <<>>) /\ UNCHANGED transfer
  /\ UNCHANGED <<remote, memory, target, disk, manifest, seen>>

LockFile(d) ==
  /\ At(d, "waiting") /\ lock = None
  /\ lock' = d
  /\ Go(d, "inspecting")
  /\ UNCHANGED <<remote, registered, cancelled, transfer, target, disk, manifest, seen, spent>>

\* A partial file of another revision, or of another hash, is removed.
Inspect(d) ==
  /\ At(d, "inspecting")
  /\ at' = [at EXCEPT ![d] = "noting"]
  /\ todo' = [todo EXCEPT ![d] =
       IF ~Missing("part") /\ disk.meta # Describes(d, transfer[d].expected)
       THEN <<"part", "meta">> ELSE <<>>]
  /\ UNCHANGED <<remote, memory, result, transfer, target, disk, manifest, seen, spent>>

Note(d) ==
  /\ At(d, "noting")
  /\ disk' = [disk EXCEPT !.meta = Describes(d, transfer[d].expected)]
  /\ Go(d, "getting")
  /\ UNCHANGED <<remote, memory, transfer, target, manifest, seen, spent>>

Offset(d) == IF d \in Resumes /\ ~Missing("part") THEN Len(disk.part) ELSE 0

\* A mutant: a whole answer is appended to the partial file.
GetAppending(d) ==
  /\ At(d, "getting")
  /\ \E offset \in {0, Offset(d)} :
       LET kept == IF Missing("part") THEN <<>> ELSE disk.part IN
       /\ offset < Size
       /\ disk' = [disk EXCEPT !.part = kept]
       /\ transfer' = [transfer EXCEPT
            ![d].body = SubSeq(Whole(RevisionOf[d], remote[RevisionOf[d]]), offset + 1, Size),
            ![d].digest = kept]
  /\ Go(d, "receiving")
  /\ UNCHANGED <<remote, memory, target, manifest, seen, spent>>

\* The host may ignore the range, and answers with what the revision points to now.
Get(d) ==
  /\ At(d, "getting")
  /\ \E offset \in {0, Offset(d)} :
       LET kept == IF offset = 0 THEN <<>> ELSE disk.part IN
       /\ offset < Size
       /\ disk' = [disk EXCEPT !.part = kept]
       /\ transfer' = [transfer EXCEPT
            ![d].body = SubSeq(Whole(RevisionOf[d], remote[RevisionOf[d]]), offset + 1, Size),
            ![d].digest = kept]
  /\ Go(d, "receiving")
  /\ UNCHANGED <<remote, memory, target, manifest, seen, spent>>

\* There is nothing after the last chunk: the host refuses the range.
Refused(d) ==
  /\ At(d, "getting") /\ Offset(d) >= Size
  /\ Fails(d)
  /\ UNCHANGED <<remote, memory, transfer, target, disk, manifest, seen, spent>>

\* The connection is lost: what was received stays.  Any other exception, up to the
\* writing of the source, removes it, and the file.
Broken(d) ==
  /\ Fault
  /\ \/ at[d] \in {"getting", "receiving"} /\ Leave(d, "interrupted", <<>>)
     \/ at[d] \in {"getting", "receiving", "publishing", "describing"} /\ Fails(d)
  /\ UNCHANGED <<remote, memory, transfer, target, disk, manifest, seen>>

\* The event, or a client that went away, is looked for before every chunk and at the end.
Stopped(d) ==
  /\ At(d, "receiving")
  /\ (d \in cancelled /\ UNCHANGED spent) \/ Fault
  /\ Abort(d)
  /\ UNCHANGED <<remote, memory, transfer, target, disk, manifest, seen>>

Receive(d) ==
  /\ At(d, "receiving") /\ d \notin cancelled
  /\ LET body == transfer[d].body IN
     IF body # <<>>
     THEN /\ disk' = [disk EXCEPT !.part = Append(@, Head(body))]
          /\ transfer' = [transfer EXCEPT ![d].body = Tail(@),
                                          ![d].digest = Append(@, Head(body))]
          /\ UNCHANGED <<at, todo, result>>
     ELSE Go(d, "publishing") /\ UNCHANGED <<disk, transfer>>
  /\ UNCHANGED <<remote, memory, target, manifest, seen, spent>>

Publish(d) ==
  /\ At(d, "publishing")
  /\ disk' = [disk EXCEPT !.final = disk.part, !.part = None]
  /\ at' = [at EXCEPT ![d] = "describing"]
  /\ todo' = [todo EXCEPT ![d] = <<"meta">>]
  /\ UNCHANGED <<remote, memory, result, transfer, target, manifest, seen, spent>>

Describe(d) ==
  /\ At(d, "describing")
  /\ disk' = [disk EXCEPT !.source = Describes(d, transfer[d].digest)]
  /\ Go(d, "checking")
  /\ UNCHANGED <<remote, memory, transfer, target, manifest, seen, spent>>

Check(d) ==
  /\ At(d, "checking")
  /\ IF transfer[d].expected \notin {None, transfer[d].digest}
     THEN Rejects(d)
     ELSE Leave(d, "downloaded", <<>>)
  /\ UNCHANGED <<remote, memory, transfer, target, disk, manifest, seen, spent>>

\* The lock is released, and the event is gone.
End(a) ==
  /\ At(a, "leaving")
  /\ Return(a, result[a])
  /\ lock' = IF lock = a THEN None ELSE lock
  /\ registered' = IF registered = a THEN None ELSE registered
  /\ UNCHANGED <<remote, cancelled, transfer, target, disk, manifest, seen, spent>>

-----------------------------------------------------------------------------
(* A DELETE.                                                               *)

Mark(c) ==
  /\ at[c] = "new"
  /\ cancelled' = cancelled \cup ({registered} \ {None})
  /\ target' = [target EXCEPT ![c] = registered]
  /\ Go(c, "waiting")
  /\ UNCHANGED <<remote, registered, lock, transfer, disk, manifest, seen, spent>>

Remove(c) ==
  /\ At(c, "waiting") /\ lock = None
  /\ lock' = c
  /\ Leave(c, "cancelled", <<"part", "meta">>)
  /\ UNCHANGED <<remote, registered, cancelled, transfer, target, disk, manifest, seen, spent>>

-----------------------------------------------------------------------------
(* An installation: the file and its source are read, then hashed.         *)

Look(i) ==
  /\ at[i] = "new"
  /\ seen' = [seen EXCEPT ![i] = disk.source]
  /\ IF ~Missing("final") /\ ~Missing("source") /\ disk.source.revision = RevisionOf[i]
     THEN Go(i, "hashing")
     ELSE Return(i, "refused")
  /\ UNCHANGED <<remote, memory, transfer, target, disk, manifest, spent>>

Hash(i) ==
  /\ At(i, "hashing")
  /\ IF disk.final = seen[i].hash THEN Go(i, "writing") ELSE Return(i, "refused")
  /\ UNCHANGED <<remote, memory, transfer, target, disk, manifest, seen, spent>>

WriteManifest(i) ==
  /\ At(i, "writing")
  /\ manifest' = seen[i]
  /\ Return(i, "installed")
  /\ UNCHANGED <<remote, memory, transfer, target, disk, seen, spent>>

-----------------------------------------------------------------------------

Push(rev) ==
  /\ remote[rev] < MaxVersion
  /\ remote' = [remote EXCEPT ![rev] = @ + 1]
  /\ UNCHANGED <<memory, at, todo, result, transfer, target, disk, manifest, seen, spent>>

\* The process dies and starts again: what is on disk stays, and nobody is at work.
Crash ==
  /\ spent.crashes < MaxCrashes
  /\ spent' = [spent EXCEPT !.crashes = @ + 1]
  /\ registered' = None /\ cancelled' = {} /\ lock' = None
  /\ at' = [a \in Actors |-> IF at[a] = "new" THEN "new" ELSE "over"]
  /\ result' = [a \in Actors |-> IF at[a] \in {"new", "over"} THEN result[a] ELSE "lost"]
  /\ todo' = [a \in Actors |-> <<>>]
  /\ UNCHANGED <<remote, transfer, target, disk, manifest, seen>>

DownloadStep(d) ==
  \/ Register(d) \/ Ask(d) \/ LockFile(d) \/ Inspect(d) \/ Note(d) \/ Get(d)
  \/ Refused(d) \/ Stopped(d) \/ Receive(d) \/ Publish(d) \/ Describe(d) \/ Check(d)
  \/ Unlink(d) \/ End(d)
DeleteStep(c) == Mark(c) \/ Remove(c) \/ Unlink(c) \/ End(c)
InstallStep(i) == Look(i) \/ Hash(i) \/ WriteManifest(i)

Next ==
  \/ \E d \in Downloads : DownloadStep(d) \/ Broken(d)
  \/ \E c \in Deletes : DeleteStep(c)
  \/ \E i \in Installs : InstallStep(i)
  \/ \E rev \in Revisions : Push(rev)
  \/ Crash

Spec == Init /\ [][Next]_vars

\* The handlers go on, and the host answers or fails.
FairSpec ==
  /\ Spec
  /\ \A d \in Downloads : WF_vars(DownloadStep(d))
  /\ \A c \in Deletes : WF_vars(DeleteStep(c))
  /\ \A i \in Installs : WF_vars(InstallStep(i))

-----------------------------------------------------------------------------
(* Properties.                                                             *)

\* Chunks of a revision, in their order and none left out; versions may be mixed.
InOrder(content, rev) ==
  \A n \in DOMAIN content : content[n][1] = rev /\ content[n][3] = n

\* However downloads are interrupted, resumed and cancelled and the process dies, the
\* partial file is a beginning of the revision its note names: a download that resumes
\* it appends what follows.
PartIsABeginning ==
  ~Missing("part") => ~Missing("meta") /\ InOrder(disk.part, disk.meta.revision)

\* What a source or a manifest describes is a whole file of its revision.
DescribedIsWhole ==
  \A d \in {disk.source, manifest} : d # None =>
    Len(d.hash) = Size /\ InOrder(d.hash, d.revision)

\* When nobody downloads, and the process did not die, the file is what its source says;
\* and if the host publishes a hash, it is one version of the file.
RestIsVerified ==
  (registered = None /\ spent.crashes = 0 /\ ~Missing("final")) =>
    /\ ~Missing("source") /\ disk.final = disk.source.hash
    /\ disk.source.revision \in Hashed =>
         \E v \in 0..MaxVersion : disk.final = Whole(disk.source.revision, v)

\* A download that an ended DELETE marked keeps no byte and publishes nothing more.
CancelledIsQuiet ==
  \A c \in Deletes : (at[c] = "over" /\ result[c] = "cancelled" /\ target[c] # None) =>
    LET d == target[c] IN
    at[d] # "over" => /\ disk.part \in {None, <<>>}
                      /\ at[d] \notin {"publishing", "describing", "checking"}

\* Whatever fails or is cancelled, every request that began ends, and the lock and the
\* registration are free.
DownloadsOver ==
  /\ \A a \in Actors : at[a] \in {"new", "over"}
  /\ lock = None /\ registered = None

-----------------------------------------------------------------------------
(* What a comment or a docstring says and the code does not keep.  TLC     *)
(* finds these violated, so no configuration checks them (see the README). *)

\* The manifest describes what the host published, if it published a hash.
ManifestIsVerified ==
  (manifest # None /\ manifest.revision \in Hashed) =>
    \E v \in 0..MaxVersion : manifest.hash = Whole(manifest.revision, v)

\* A file that is resumed is one version, with or without a published hash.
ResumedIsOneVersion ==
  (registered = None /\ spent.crashes = 0 /\ ~Missing("final")) =>
    \E v \in 0..MaxVersion : disk.final = Whole(disk.source.revision, v)

\* A DELETE that answers cancelled cancelled the download it marked.
CancelIsTrue ==
  \A c \in Deletes : (at[c] = "over" /\ target[c] # None) =>
    result[target[c]] # "downloaded"

\* The file a manifest describes is there, unless a download is at work.
InstalledIsThere ==
  (registered = None /\ manifest # None) => disk.final = manifest.hash

=============================================================================
