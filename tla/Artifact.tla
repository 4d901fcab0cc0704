------------------------------ MODULE Artifact ------------------------------
(***************************************************************************)
(* pycloudstack's artifacts.py: calls of Artifact.get() for one remote     *)
(* artifact, one after another.  A call checks the file in cache_dir       *)
(* against the published checksum, downloads it again up to five times,    *)
(* unpacks an archive and copies the result to dest_dir.  The server may   *)
(* publish a new version at any time, and a call may fail or be killed at  *)
(* any step; the three files stay.                                         *)
(***************************************************************************)
EXTENDS Naturals

CONSTANT MaxVer   \* bound: versions the server publishes

ASSUME MaxVerAssumption == MaxVer \in Nat \ {0}

VARIABLES
  archive,   \* the source is a tar.xz
  pinned,    \* the version whose checksum is given or in a local file; 0 for a URL
  remote,    \* the version the server has now
  cache,     \* cache_file
  ext,       \* the file the archive unpacks to, in cache_dir
  dest,      \* dest_file
  newer,     \* the file that is copied has changed after dest has
  pc, retries, is_download_new,
  response,  \* the version that is being downloaded
  since,     \* history: the server's version when the call began
  verified,  \* history: the checksum of cache_file was right in this call
  spoiled,   \* history: a call that failed left files that do not agree
  outcome    \* how the last call ended

disk  == <<cache, ext, dest, newer>>
self  == <<archive, pinned>>
vars  == <<self, remote, disk, pc, retries, is_download_new, response, since,
           verified, spoiled, outcome>>

MaxRetries == 5
Versions   == 1..MaxVer

File       == [kind : {"none", "partial", "full"}, ver : 0..MaxVer]
Missing    == [kind |-> "none", ver |-> 0]
Partial(v) == [kind |-> "partial", ver |-> v]
Full(v)    == [kind |-> "full", ver |-> v]

TypeOK ==
  /\ archive \in BOOLEAN /\ pinned \in 0..MaxVer
  /\ remote \in Versions
  /\ cache \in File /\ ext \in File /\ dest \in File /\ newer \in BOOLEAN
  /\ pc \in {"idle", "check", "request", "save", "extract", "copy"}
  /\ retries \in 0..MaxRetries
  /\ pc \in {"request", "save"} => retries < MaxRetries
  /\ is_download_new \in BOOLEAN
  /\ response \in 0..MaxVer /\ since \in 0..MaxVer
  /\ verified \in BOOLEAN /\ spoiled \in BOOLEAN
  /\ outcome \in {"none", "returned", "raised", "killed"}

Init ==
  /\ archive \in BOOLEAN /\ pinned \in 0..MaxVer /\ remote = 1
  /\ cache = Missing /\ ext = Missing /\ dest = Missing /\ newer = FALSE
  /\ pc = "idle" /\ retries = 0 /\ is_download_new = FALSE /\ response = 0
  /\ since = 0 /\ verified = FALSE /\ spoiled = FALSE /\ outcome = "none"

-----------------------------------------------------------------------------
\* The file that is copied to dest_dir.
Source == IF archive THEN ext ELSE cache

\* The version whose checksum the sha256sum property finds.
Wanted == IF pinned = 0 THEN remote ELSE pinned

\* A call that raises or dies leaves an unpacked file that is not the one of the
\* archive beside it, or a piece of dest_file that looks up to date.
Spoils ==
  \/ archive /\ ext'.kind # "none" /\ cache'.kind = "full" /\ ext' # cache'
  \/ dest'.kind = "partial" /\ ~newer' /\ dest' # (IF archive THEN ext' ELSE cache')

Abort(how) ==
  /\ pc' = "idle" /\ outcome' = how
  /\ spoiled' = (spoiled \/ Spoils)
  /\ UNCHANGED <<self, remote, retries, is_download_new, response, since, verified>>

Raise == Abort("raised")

get ==
  /\ pc = "idle"
  /\ pc' = "check" /\ retries' = 0 /\ is_download_new' = FALSE
  /\ since' = remote /\ verified' = FALSE /\ outcome' = "none"
  /\ UNCHANGED <<self, remote, disk, response, spoiled>>

\* The loop of download() is over.
Leave(ok) ==
  /\ pc' = (IF archive THEN "extract" ELSE "copy") /\ verified' = ok
  /\ UNCHANGED <<self, remote, disk, retries, is_download_new, response, since, spoiled, outcome>>

Exhausted == pc = "check" /\ retries = MaxRetries /\ Leave(FALSE)

\* Mutant: a missing file is fetched before the retries are counted.
NotCachedFirst ==
  /\ pc = "check" /\ cache.kind = "none"
  /\ pc' = "request"
  /\ UNCHANGED <<self, remote, disk, retries, is_download_new, response, since, verified, spoiled, outcome>>

NotCached ==
  /\ pc = "check" /\ retries < MaxRetries /\ cache.kind = "none"
  /\ pc' = "request"
  /\ UNCHANGED <<self, remote, disk, retries, is_download_new, response, since, verified, spoiled, outcome>>

Valid ==
  /\ pc = "check" /\ retries < MaxRetries
  /\ cache = Full(Wanted)
  /\ Leave(TRUE)

\* The checksum is another one, or the download of the checksum file was cut
\* off, which nobody is told, and the file name is not found in it.
Invalid ==
  /\ pc = "check" /\ retries < MaxRetries /\ cache.kind # "none"
  /\ cache # Full(Wanted) \/ pinned = 0
  /\ cache' = Missing /\ pc' = "request"
  /\ UNCHANGED <<self, remote, ext, dest, newer, retries, is_download_new, response, since, verified, spoiled, outcome>>

\* The checksum file cannot be had.
SumFails ==
  /\ pc = "check" /\ retries < MaxRetries /\ cache.kind # "none" /\ pinned = 0
  /\ UNCHANGED disk /\ Raise

Request ==
  /\ pc = "request"
  /\ response' = remote /\ pc' = "save"
  /\ UNCHANGED <<self, remote, disk, retries, is_download_new, since, verified, spoiled, outcome>>

RequestFails == pc = "request" /\ UNCHANGED disk /\ Raise

\* DownloadExecutor.run has returned and the loop begins again.
Again(f) ==
  /\ cache' = f /\ newer' = (newer \/ ~archive)
  /\ pc' = "check" /\ retries' = retries + 1 /\ is_download_new' = TRUE
  /\ UNCHANGED <<self, remote, ext, dest, response, since, verified, spoiled, outcome>>

Save == pc = "save" /\ Again(Full(response))

\* Mutant: a download that failed is not counted.
SaveFailsUncounted ==
  /\ pc = "save"
  /\ cache' = Missing /\ pc' = "check"
  /\ UNCHANGED <<self, remote, ext, dest, newer, retries, is_download_new, response, since, verified, spoiled, outcome>>

\* run() swallows an error of the file or of the connection.
SaveFails == pc = "save" /\ \E f \in {Missing, Partial(response)} : Again(f)

\* Without a Content-Length the progress message divides by zero.
SaveRaises ==
  /\ pc = "save"
  /\ cache' \in {Partial(response), Full(response)} /\ newer' = (newer \/ ~archive)
  /\ UNCHANGED <<ext, dest>>
  /\ Raise

\* Mutant: an archive is unpacked only once.
NeedExtractOnce == ext.kind = "none"

\* "if download new file, then need decompress it to overwrite existing one"
NeedExtract == is_download_new \/ ext.kind = "none"

Extracted ==
  /\ pc = "extract" /\ ~NeedExtract
  /\ pc' = "copy"
  /\ UNCHANGED <<self, remote, disk, retries, is_download_new, response, since, verified, spoiled, outcome>>

Extract ==
  /\ pc = "extract" /\ NeedExtract /\ cache.kind = "full"
  /\ ext' = cache /\ newer' = TRUE
  /\ pc' = "copy"
  /\ UNCHANGED <<self, remote, cache, dest, retries, is_download_new, response, since, verified, spoiled, outcome>>

\* The archive is missing or cut off, or the disk is full.
PartOfExt ==
  \/ UNCHANGED <<ext, newer>>
  \/ cache.kind # "none" /\ ext' = Partial(cache.ver) /\ newer' = TRUE

ExtractFails ==
  /\ pc = "extract" /\ NeedExtract
  /\ PartOfExt /\ UNCHANGED <<cache, dest>>
  /\ Raise

need_copy == dest.kind = "none" \/ newer

Return ==
  /\ pc' = "idle" /\ outcome' = "returned"
  /\ UNCHANGED <<self, remote, cache, ext, retries, is_download_new, response, since, verified, spoiled>>

Copy ==
  /\ pc = "copy" /\ Source.kind # "none" /\ need_copy
  /\ dest' = Source /\ newer' = FALSE
  /\ Return

UpToDate ==
  /\ pc = "copy" /\ Source.kind # "none" /\ ~need_copy
  /\ Return /\ UNCHANGED <<dest, newer>>

\* getctime or copyfile finds no file.
NoSource == pc = "copy" /\ Source.kind = "none" /\ UNCHANGED disk /\ Raise

\* The copy is cut off before dest_file was opened or half way.
PartOfDest ==
  /\ Source.kind # "none" /\ need_copy
  /\ \/ UNCHANGED disk
     \/ dest' = Partial(Source.ver) /\ newer' = FALSE /\ UNCHANGED <<cache, ext>>

CopyFails == pc = "copy" /\ PartOfDest /\ Raise

\* The process dies: what it was writing is cut off or just complete.
Kill ==
  /\ pc # "idle"
  /\ \/ UNCHANGED disk
     \/ /\ pc = "save" /\ cache' \in {Partial(response), Full(response)}
        /\ newer' = (newer \/ ~archive) /\ UNCHANGED <<ext, dest>>
     \/ pc = "extract" /\ NeedExtract /\ PartOfExt /\ UNCHANGED <<cache, dest>>
     \/ pc = "copy" /\ PartOfDest
  /\ Abort("killed")

Publish ==
  /\ remote < MaxVer /\ remote' = remote + 1
  /\ UNCHANGED <<self, disk, pc, retries, is_download_new, response, since, verified, spoiled, outcome>>

Step ==
  \/ Exhausted \/ NotCached \/ Valid \/ Invalid \/ SumFails
  \/ Request \/ RequestFails \/ Save \/ SaveFails \/ SaveRaises
  \/ Extracted \/ Extract \/ ExtractFails
  \/ Copy \/ UpToDate \/ NoSource \/ CopyFails

Next == get \/ Step \/ Kill \/ Publish

\* A call that has begun goes on.
Spec == Init /\ [][Next]_vars /\ WF_vars(Step)

-----------------------------------------------------------------------------
(* Properties                                                              *)

\* A version that is good enough for the call.
Good(v) == IF pinned = 0 THEN v >= since ELSE v = pinned

\* When download() returns after the checksum was right, dest_file is a complete
\* file of a version no older than the server had when the call began (or the
\* pinned one), whatever earlier calls, failed or killed, left in the cache:
\* the checks of time stamps and is_download_new make up for them, unless one
\* died after replacing an archive or while copying.
ReturnedFresh ==
  outcome = "returned" /\ verified /\ ~spoiled =>
    dest.kind = "full" /\ Good(dest.ver)

\* The unpacked file is the one of the archive in the cache, but for an archive
\* that was downloaded in this call and is not unpacked yet.
ExtMatches ==
  archive /\ ~spoiled =>
    /\ ext.kind # "none" /\ cache.kind = "full" =>
         ext = cache \/ (is_download_new /\ pc \in {"check", "request", "save", "extract"})
    /\ pc = "copy" /\ verified => ext = cache

\* dest_file is what it was copied from, unless that has changed since.
DestMatches ==
  ~spoiled /\ dest.kind # "none" /\ ~newer /\ Source.kind # "none" => dest = Source

\* What was checked is what is there, until the call ends.
CheckHolds ==
  /\ since <= remote
  /\ verified => pc \in {"idle", "extract", "copy"}
  /\ verified /\ pc \in {"extract", "copy"} => cache.kind = "full" /\ Good(cache.ver)

\* The inductive invariant.
IInv ==
  /\ TypeOK /\ (outcome = "returned" => pc = "idle")
  /\ CheckHolds /\ ExtMatches /\ DestMatches /\ ReturnedFresh

\* A call ends, even if the network fails for ever: five downloads at most.
GetEnds == (pc # "idle") ~> (pc = "idle")

=============================================================================
