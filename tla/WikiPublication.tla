--------------------------- MODULE WikiPublication ---------------------------
(***************************************************************************)
(* Compilation jobs that publish one Wiki page (wiki/compiler.py,          *)
(* wiki/sqlite_jobs.py, LocalWikiPublishingService in wiki/local.py), by   *)
(* several processes, and the retirement of that page.  A job is claimed   *)
(* under an idempotency key; the page is written to a temporary name,      *)
(* linked, and recorded in a manifest that is rewritten under a lock.      *)
(* Names point at inodes: a name that is opened again truncates whatever   *)
(* other names the inode has.                                              *)
(***************************************************************************)
EXTENDS Naturals

CONSTANTS
    Worker, \* processes that compile
    Key,    \* idempotency keys, each with the draft it compiles
    Inode,  \* a bound: inodes that may be in use at once
    Retirer, None, Torn

ASSUME PublicationAssumption ==
    /\ None \notin Worker \cup Key \cup Inode \cup {Retirer}
    /\ Torn \notin Key /\ Retirer \notin Worker

VARIABLES
    jobs,    \* knowledge_processing_jobs, by key
    text,    \* what each inode holds
    temp,    \* the temporary name
    page,    \* the published page
    archive, \* the retired page
    record,  \* the last line of publication-manifest.jsonl
    written, \* history: whether a line has been written
    overlap, \* history: whether two processes have published at once
    lock,    \* .publication-manifest.lock
    worker,  \* each process: where it is, its key, the inode it has open
    retire   \* the retirement: where it is, the line it has read

files == <<text, temp, page, archive>>
manifest == <<record, lock>>
history == <<written, overlap>>
publicationVars == <<jobs, files, manifest, history, worker, retire>>

Publishing == {"compiling", "creating", "writing", "linking", "unlinking", "appending", "recording", "completing"}
Retiring == {"linking", "unlinking", "appending", "recording"}
Line == [status : {"published", "retired"}, digest : Key]
Idle == [at |-> "idle", key |-> None, open |-> None]
Resting == [at |-> "idle", latest |-> None]

PublicationInit ==
    /\ jobs = [k \in Key |-> "none"]
    /\ text = [i \in Inode |-> Torn]
    /\ temp = None /\ page = None /\ archive = None
    /\ record = None /\ lock = None
    /\ written = FALSE /\ overlap = FALSE
    /\ worker = [w \in Worker |-> Idle]
    /\ retire = Resting

WorkerAt(w, stage) == worker' = [worker EXCEPT ![w].at = stage]

Unlocked(p) == IF lock = p THEN None ELSE lock

----------------------------------------------------------------------------
(* Compilation *)

Claimable_Any(k) == jobs[k] # "succeeded"

\* A key that has succeeded is answered, one that is running is refused.
Claimable(k) == jobs[k] = "none"

ClaimJob(w, k) ==
    /\ worker[w].at = "idle"
    /\ Claimable(k)
    /\ jobs' = [jobs EXCEPT ![k] = "running"]
    /\ worker' = [worker EXCEPT ![w] = [at |-> "compiling", key |-> k, open |-> None]]
    /\ UNCHANGED <<files, manifest, history, retire>>

NamesFree == page = None /\ temp = None

\* Snapshot, context, model and validation leave no state; then both names are tested.
BeginPublish(w) ==
    /\ worker[w].at = "compiling"
    /\ WorkerAt(w, IF NamesFree THEN "creating" ELSE "releasing")
    /\ overlap' = (overlap \/ (NamesFree /\ \E v \in Worker : worker[v].at \in Publishing \ {"compiling"}))
    /\ UNCHANGED <<jobs, files, manifest, written, retire>>

FreeInode == Inode \ ({temp, page, archive} \cup {worker[w].open : w \in Worker})

\* The page written under its own name.
Create_InPlace(w) ==
    /\ worker[w].at = "creating" /\ page = None
    /\ \E i \in FreeInode :
          /\ page' = i
          /\ text' = [text EXCEPT ![i] = Torn]
          /\ worker' = [worker EXCEPT ![w].at = "writing", ![w].open = i]
    /\ UNCHANGED <<jobs, temp, archive, manifest, history, retire>>

\* write_text opens the name, an existing one too, and truncates it.
Create(w) ==
    /\ worker[w].at = "creating"
    /\ \E i \in IF temp = None THEN FreeInode ELSE {temp} :
          /\ temp' = i
          /\ text' = [text EXCEPT ![i] = Torn]
          /\ worker' = [worker EXCEPT ![w].at = "writing", ![w].open = i]
    /\ UNCHANGED <<jobs, page, archive, manifest, history, retire>>

Write(w) ==
    /\ worker[w].at = "writing"
    /\ text' = [text EXCEPT ![worker[w].open] = worker[w].key]
    /\ worker' = [worker EXCEPT ![w].at = "linking", ![w].open = None]
    /\ UNCHANGED <<jobs, temp, page, archive, manifest, history, retire>>

\* A link fails where its source is gone or its destination exists.
Link(w) ==
    /\ worker[w].at = "linking"
    /\ IF temp # None /\ page = None
       THEN page' = temp /\ WorkerAt(w, "unlinking")
       ELSE page' = page /\ WorkerAt(w, "releasing")
    /\ UNCHANGED <<jobs, text, temp, archive, manifest, history, retire>>

Unlink(w) ==
    /\ worker[w].at = "unlinking"
    /\ temp' = None
    /\ WorkerAt(w, IF temp = None THEN "releasing" ELSE "appending")
    /\ UNCHANGED <<jobs, text, page, archive, manifest, history, retire>>

\* The manifest is read whole and opened for writing, which empties it.
OpenManifest(w) ==
    /\ worker[w].at = "appending" /\ lock = None
    /\ lock' = w /\ record' = None /\ UNCHANGED history
    /\ WorkerAt(w, "recording")
    /\ UNCHANGED <<jobs, files, retire>>

WriteManifest(w) ==
    /\ worker[w].at = "recording"
    /\ record' = [status |-> "published", digest |-> worker[w].key]
    /\ lock' = None /\ written' = TRUE /\ UNCHANGED overlap
    /\ WorkerAt(w, "completing")
    /\ UNCHANGED <<jobs, files, retire>>

Complete(w) ==
    /\ worker[w].at = "completing"
    /\ jobs' = [jobs EXCEPT ![worker[w].key] = "succeeded"]
    /\ worker' = [worker EXCEPT ![w] = Idle]
    /\ UNCHANGED <<files, manifest, history, retire>>

\* Any Exception on the way: what has been written stays, the claim is released.
Raise(w) ==
    /\ worker[w].at \in Publishing
    /\ worker' = [worker EXCEPT ![w].at = "releasing", ![w].open = None]
    /\ lock' = Unlocked(w)
    /\ UNCHANGED <<jobs, files, record, history, retire>>

Release(w) ==
    /\ worker[w].at = "releasing"
    /\ jobs' = [jobs EXCEPT ![worker[w].key] = IF @ = "running" THEN "none" ELSE @]
    /\ worker' = [worker EXCEPT ![w] = Idle]
    /\ UNCHANGED <<files, manifest, history, retire>>

\* The process ends, or the task is cancelled: the row stays running.
Die(w) ==
    /\ worker[w].at # "idle"
    /\ worker' = [worker EXCEPT ![w] = Idle]
    /\ lock' = Unlocked(w)
    /\ UNCHANGED <<jobs, files, record, history, retire>>

----------------------------------------------------------------------------
(* Retirement *)

RetireAt(stage) == retire' = [retire EXCEPT !.at = stage]

\* Raises where the page or its line is missing, or an archive exists; returns
\* at once where the line says retired.
BeginRetire ==
    /\ retire.at = "idle"
    /\ record # None /\ page # None /\ archive = None
    /\ record.status = "published"
    /\ retire' = [at |-> "linking", latest |-> record]
    /\ UNCHANGED <<jobs, files, manifest, history, worker>>

\* The names in the other order: the page is gone when it is linked.
ArchivedPage_Unlinked == None

ArchivedPage == page

LinkArchive ==
    /\ retire.at = "linking"
    /\ page # None /\ archive = None
    /\ archive' = ArchivedPage
    /\ RetireAt("unlinking")
    /\ UNCHANGED <<jobs, text, temp, page, manifest, history, worker>>

UnlinkPage ==
    /\ retire.at = "unlinking"
    /\ page' = None
    /\ RetireAt("appending")
    /\ UNCHANGED <<jobs, text, temp, archive, manifest, history, worker>>

OpenManifestRetired ==
    /\ retire.at = "appending" /\ lock = None
    /\ lock' = Retirer /\ record' = None /\ UNCHANGED history
    /\ RetireAt("recording")
    /\ UNCHANGED <<jobs, files, worker>>

WriteManifestRetired ==
    /\ retire.at = "recording"
    /\ record' = [retire.latest EXCEPT !.status = "retired"]
    /\ lock' = None /\ written' = TRUE /\ UNCHANGED overlap
    /\ retire' = Resting
    /\ UNCHANGED <<jobs, files, worker>>

\* An error or the end of the process.
RetireEnds ==
    /\ retire.at \in Retiring
    /\ retire' = Resting
    /\ lock' = Unlocked(Retirer)
    /\ UNCHANGED <<jobs, files, record, history, worker>>

----------------------------------------------------------------------------

Compile(w) ==
    \/ \E k \in Key : ClaimJob(w, k)
    \/ BeginPublish(w) \/ Create(w) \/ Write(w) \/ Link(w) \/ Unlink(w)
    \/ OpenManifest(w) \/ WriteManifest(w) \/ Complete(w) \/ Raise(w) \/ Release(w) \/ Die(w)

RetireSteps == BeginRetire \/ LinkArchive \/ UnlinkPage \/ OpenManifestRetired \/ WriteManifestRetired

PublicationNext == (\E w \in Worker : Compile(w)) \/ RetireSteps \/ RetireEnds

PublicationSpec == PublicationInit /\ [][PublicationNext]_publicationVars

\* Retirements are tried again and again, and are let finish.
RetryingSpec == PublicationSpec /\ WF_publicationVars(RetireSteps)

----------------------------------------------------------------------------

Attempt == [at : Publishing \cup {"idle", "releasing"}, key : Key \cup {None}, open : Inode \cup {None}]

PublicationTypeOK ==
    /\ jobs \in [Key -> {"none", "running", "succeeded"}]
    /\ text \in [Inode -> Key \cup {Torn}]
    /\ {temp, page, archive} \subseteq Inode \cup {None}
    /\ written \in BOOLEAN /\ overlap \in BOOLEAN
    /\ record \in Line \cup {None}
    /\ lock \in Worker \cup {Retirer, None}
    /\ worker \in [Worker -> Attempt]
    /\ retire \in [at : Retiring \cup {"idle"}, latest : Line \cup {None}]

\* Whatever raises or dies, no two processes compile one key (SqliteWikiCompilationJobStore:
\* the claim of a process that died is not taken over, that of one that raised is released once).
OneWorkerPerKey ==
    \A v, w \in Worker : v # w /\ worker[v].at # "idle" /\ worker[w].at # "idle" => worker[v].key # worker[w].key

\* A key that has succeeded, and is answered with the page's URI for ever, has a
\* page or an archived one (compile returns existing_resource_uri).
SucceededIsKept == \A k \in Key : jobs[k] = "succeeded" => page # None \/ archive # None

\* As long as no two processes publish at once, a page is never seen or archived half
\* written, whatever attempts that raised or died have left under the temporary name
\* (local.py 351-361).
PublishedIsWhole == ~overlap => \A i \in {page, archive} \ {None} : text[i] # Torn

\* local.py 357-359: a hard-link create gives the no-overwrite commit.  What a
\* published page holds is never written again while it is the page.
NothingIsOverwritten == [][page # None /\ page' = page => text'[page] = text[page]]_publicationVars

\* That commit for a process that publishes alone: overwriting a page takes two.
OverwrittenOnlyTogether ==
    [][page # None /\ page' = page /\ ~overlap => text'[page] = text[page]]_publicationVars

\* local.py 380: the publication record is append-only.  Once a line is written,
\* there is a last line whenever nobody is writing.
RecordIsAppendOnly == written /\ lock = None => record # None

\* docs/knowledge-platform-progress.md 753: repeating a retirement returns the same;
\* one that was begun and is tried again ends in a retired line.
RetireIsIdempotent == retire.at = "unlinking" ~> (record # None /\ record.status = "retired")

(* The strengthening *)

\* A key is running as long as a process has it, and perhaps longer.
KeysAreRunning == \A w \in Worker : worker[w].at # "idle" => worker[w].key \in Key /\ jobs[worker[w].key] = "running"

\* Behind the link there is a page, until there is an archive for good; a retirement
\* has read the line it will repeat.
LinkedIsKept ==
    /\ \A w \in Worker : worker[w].at \in {"unlinking", "appending", "recording", "completing"} =>
          page # None \/ archive # None
    /\ retire.at \in {"unlinking", "appending", "recording"} => archive # None
    /\ retire.at # "idle" => retire.latest \in Line

\* Who publishes alone finds the names as it has left them.
Publishes(w) == worker[w].at \in Publishing \ {"compiling"}

PublishesAlone(w) ==
    /\ \A v \in Worker : Publishes(v) => v = w
    /\ worker[w].at = "creating" => temp = None /\ page = None
    /\ worker[w].at = "writing" => temp = worker[w].open /\ temp # None /\ page = None /\ archive # temp
    /\ worker[w].at = "linking" => temp # None /\ text[temp] # Torn

NamesAreLeft == ~overlap => \A w \in Worker : Publishes(w) => PublishesAlone(w)

PublicationInv ==
    /\ PublicationTypeOK
    /\ KeysAreRunning /\ OneWorkerPerKey
    /\ LinkedIsKept /\ SucceededIsKept
    /\ NamesAreLeft /\ PublishedIsWhole
=============================================================================
