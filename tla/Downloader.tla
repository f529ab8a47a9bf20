----------------------------- MODULE Downloader -----------------------------
(***************************************************************************)
(* src/downloader/downloader.py: the download cache that every AlphaGSM    *)
(* process of a host shares.  getpath looks the request up in the database *)
(* file without a lock, re-runs itself through sudo when the caller is not *)
(* the owner of the cache, takes the lock file, looks again, downloads     *)
(* into a fresh directory and publishes the new line by renaming a copy of *)
(* the database over it.  One action per system call that another process  *)
(* can observe; a crash may come between any two of them.                  *)
(*                                                                         *)
(* A database line is its key (module and quoted arguments) and its        *)
(* directory; dates, and the active flag that nothing in src/ ever clears, *)
(* are left out.  Lines are a set: no two of them share a directory.       *)
(***************************************************************************)
EXTENDS Integers, FiniteSets

CONSTANTS Procs,        \* CLI processes
          Keys,         \* requests: a downloader module and its arguments
          Paths,        \* the directories generatepath can draw
          NoPath,       \* no directory drawn, no answer yet
          OtherUsers,   \* the processes not run by the cache's owner
          Faults,       \* what may go wrong, a subset of FaultKinds
          MaxRequests   \* getpath calls per process

FaultKinds == {"crash", "fetch", "write", "denied"}

ASSUME NoPathAssumption == NoPath \notin Paths \cup Keys
ASSUME UsersAssumption == OtherUsers \subseteq Procs
ASSUME FaultsAssumption == Faults \subseteq FaultKinds
ASSUME RequestsAssumption == MaxRequests \in Nat

VARIABLES
  dbExists,     \* DB_PATH exists
  db,           \* the lines of DB_PATH
  update,       \* the lines of UPDATE_PATH (nothing reads it unless renamed)
  lock,         \* LOCK_PATH exists
  dirs,         \* directory -> "none", "partial", "complete"
  pc,           \* the next system call of each process
  asOwner,      \* the process runs as the owner (itself, or its sudo child)
  key,          \* the request being served
  path,         \* the directory this process has drawn
  outcome,      \* how the current or last getpath call ended
  asked,        \* getpath calls begun
  answer        \* the last path handed to the caller, with its request

files == <<dbExists, db, update, lock, dirs>>
request == <<asOwner, key, path, asked>>
reply == <<outcome, answer>>
vars == <<files, pc, request, reply>>

Line == [key : Keys, path : Paths]
NoAnswer == [key |-> NoPath, path |-> NoPath]

\* Program points, in the order of getpath.  From recheck to unlock the
\* process owns the lock file it created.
Unlocked == {"idle", "lookup", "makedb", "trylock", "crashed"}
Locked == {"recheck", "generatepath", "fetch", "openupdate",
           "write", "rename", "unlock"}
Outcomes == {"none", "path", "NameError", "error"}

Init ==
  /\ dbExists \in BOOLEAN
  /\ db = {} /\ update = {}
  /\ lock = FALSE
  /\ dirs = [d \in Paths |-> "none"]
  /\ pc = [p \in Procs |-> "idle"]
  /\ asOwner = [p \in Procs |-> p \notin OtherUsers]
  /\ key \in [Procs -> Keys]
  /\ path = [p \in Procs |-> NoPath]
  /\ outcome = [p \in Procs |-> "none"]
  /\ asked = [p \in Procs |-> 0]
  /\ answer = [p \in Procs |-> NoAnswer]

-----------------------------------------------------------------------------
Cached(k) == \E l \in db : l.key = k
LineOf(k) == CHOOSE l \in db : l.key = k

\* What decides between processes, each with the mutant that a wrong mode,
\* flag or missing second look would make of it: open(DB_PATH, "a") keeps the
\* lines, open(LOCK_PATH, "x") needs the file to be missing, the second lookup
\* asks the database again, os.mkdir needs a new name.
AppendingMutant == {}
Appending == db

AcquirableMutant == TRUE
Acquirable == ~lock

FoundMeanwhile(p) == Cached(key[p])

FreshMutant(d) == TRUE
Fresh(d) == dirs[d] = "none"

Goto(p, label) == pc' = [pc EXCEPT ![p] = label]
Finish(p, how) == outcome' = [outcome EXCEPT ![p] = how]

\* A caller invokes getpath.
Begin(p) ==
  /\ pc[p] = "idle"
  /\ asked[p] < MaxRequests
  /\ \E k \in Keys : key' = [key EXCEPT ![p] = k]
  /\ asked' = [asked EXCEPT ![p] = @ + 1]
  /\ asOwner' = [asOwner EXCEPT ![p] = p \notin OtherUsers]
  /\ path' = [path EXCEPT ![p] = NoPath]
  /\ Finish(p, "none")
  /\ Goto(p, "lookup")
  /\ UNCHANGED <<files, answer>>

\* The path is returned to the caller.
Return(p, d) ==
  /\ Finish(p, "path")
  /\ answer' = [answer EXCEPT ![p] = [key |-> key[p], path |-> d]]
  /\ Goto(p, "idle")

\* After an unlocked miss: the owner goes on to the lock, another user
\* starts the whole of getpath again as the owner.
Miss(p) ==
  /\ asOwner' = [asOwner EXCEPT ![p] = TRUE]
  /\ Goto(p, IF asOwner[p] THEN "trylock" ELSE "lookup")

\* getpathifexists on an existing database: one snapshot of the file, since
\* the file is only ever replaced by rename.
Lookup(p) ==
  /\ pc[p] = "lookup"
  /\ dbExists
  /\ \/ /\ Cached(key[p])
        /\ Return(p, LineOf(key[p]).path)
        /\ UNCHANGED asOwner
     \/ /\ ~Cached(key[p])
        /\ Miss(p)
        /\ UNCHANGED reply
  /\ UNCHANGED <<files, key, path, asked>>

\* os.path.exists(DB_PATH) was false ...
LookupNoFile(p) ==
  /\ pc[p] = "lookup"
  /\ ~dbExists
  /\ Goto(p, "makedb")
  /\ UNCHANGED <<files, request, reply>>

\* ... so open it for appending, by which time it may exist after all: then
\* its lines stay.  The miss stands either way.
MakeDb(p) ==
  /\ pc[p] = "makedb"
  /\ dbExists' = TRUE
  /\ db' = Appending
  /\ Miss(p)
  /\ UNCHANGED <<update, lock, dirs, key, path, asked, reply>>

\* Another user may not be allowed to create it.
MakeDbDenied(p) ==
  /\ "denied" \in Faults
  /\ pc[p] = "makedb"
  /\ ~asOwner[p]
  /\ Finish(p, "error")
  /\ Goto(p, "idle")
  /\ UNCHANGED <<files, answer, request>>

-----------------------------------------------------------------------------
\* open(LOCK_PATH, "x") succeeds; while the file exists the process sleeps
\* and tries again.
TryLock(p) ==
  /\ pc[p] = "trylock"
  /\ Acquirable
  /\ lock' = TRUE
  /\ Goto(p, "recheck")
  /\ UNCHANGED <<dbExists, db, update, dirs, request, reply>>

\* The second lookup, under the lock.  A hit runs `return Path`, a name the
\* module does not define: the call fails and the finally clause unlocks.
\* (The database exists by now: the first lookup made it.)
Recheck(p) ==
  /\ pc[p] = "recheck"
  /\ \/ /\ FoundMeanwhile(p)
        /\ Finish(p, "NameError")
        /\ Goto(p, "unlock")
     \/ /\ ~FoundMeanwhile(p)
        /\ Goto(p, "generatepath")
        /\ UNCHANGED outcome
  /\ UNCHANGED <<files, answer, request>>

\* os.mkdir of a name nobody has.
GeneratePath(p) ==
  /\ pc[p] = "generatepath"
  /\ \E d \in Paths :
       /\ Fresh(d)
       /\ dirs' = [dirs EXCEPT ![d] = "partial"]
       /\ path' = [path EXCEPT ![p] = d]
  /\ Goto(p, "fetch")
  /\ UNCHANGED <<dbExists, db, update, lock, asOwner, key, asked, reply>>

\* Each of the MAX_TRIES draws hit an existing directory.
GeneratePathFails(p) ==
  /\ pc[p] = "generatepath"
  /\ \A d \in Paths : ~Fresh(d)
  /\ Finish(p, "error")
  /\ Goto(p, "unlock")
  /\ UNCHANGED <<files, answer, request>>

\* The downloader module fills the directory.
Fetch(p) ==
  /\ pc[p] = "fetch"
  /\ dirs' = [dirs EXCEPT ![path[p]] = "complete"]
  /\ Goto(p, "openupdate")
  /\ UNCHANGED <<dbExists, db, update, lock, request, reply>>

\* It raises instead: the half-filled directory stays behind.
FetchFails(p) ==
  /\ "fetch" \in Faults
  /\ pc[p] = "fetch"
  /\ Finish(p, "error")
  /\ Goto(p, "unlock")
  /\ UNCHANGED <<files, answer, request>>

-----------------------------------------------------------------------------
\* Mutant of OpenUpdate: no removal, and opened with "a".
OpenUpdateAppends(p) ==
  /\ pc[p] = "openupdate"
  /\ Goto(p, "write")
  /\ UNCHANGED <<files, request, reply>>

\* Remove what a crashed or failed predecessor left, and open UPDATE_PATH
\* for writing.
OpenUpdate(p) ==
  /\ pc[p] = "openupdate"
  /\ update' = {}
  /\ Goto(p, "write")
  /\ UNCHANGED <<dbExists, db, lock, dirs, request, reply>>

\* Copy the database's lines and add the new one.
WriteUpdate(p) ==
  /\ pc[p] = "write"
  /\ update' = update \cup db \cup {[key |-> key[p], path |-> path[p]]}
  /\ Goto(p, "rename")
  /\ UNCHANGED <<dbExists, db, lock, dirs, request, reply>>

\* The file system refuses one of those writes, or the rename: some of the
\* lines are there.
WriteFails(p) ==
  /\ "write" \in Faults
  /\ pc[p] \in {"openupdate", "write", "rename"}
  /\ update' \in SUBSET (update \cup db \cup {[key |-> key[p], path |-> path[p]]})
  /\ Finish(p, "error")
  /\ Goto(p, "unlock")
  /\ UNCHANGED <<dbExists, db, lock, dirs, answer, request>>

\* os.rename(UPDATE_PATH, DB_PATH) publishes the line.
Rename(p) ==
  /\ pc[p] = "rename"
  /\ db' = update
  /\ dbExists' = TRUE
  /\ update' = {}
  /\ Goto(p, "unlock")
  /\ UNCHANGED <<lock, dirs, request, reply>>

\* Mutants of Unlock: the lock is removed on success only; the path is
\* returned whatever happened.
UnlockOnSuccess(p) ==
  /\ pc[p] = "unlock"
  /\ lock' = (outcome[p] # "none")
  /\ \/ outcome[p] = "none" /\ Return(p, path[p])
     \/ outcome[p] # "none" /\ Goto(p, "idle") /\ UNCHANGED reply
  /\ UNCHANGED <<dbExists, db, update, dirs, request>>

UnlockReturnsAnyway(p) ==
  /\ pc[p] = "unlock"
  /\ lock' = FALSE
  /\ Return(p, path[p])
  /\ UNCHANGED <<dbExists, db, update, dirs, request>>

\* finally: os.remove(LOCK_PATH), then the result or the exception.
Unlock(p) ==
  /\ pc[p] = "unlock"
  /\ lock' = FALSE
  /\ \/ /\ outcome[p] = "none"
        /\ Return(p, path[p])
     \/ /\ outcome[p] # "none"
        /\ Goto(p, "idle")
        /\ UNCHANGED reply
  /\ UNCHANGED <<dbExists, db, update, dirs, request>>

\* The process is killed: no finally clause runs, files stay as they are.
Crash(p) ==
  /\ "crash" \in Faults
  /\ pc[p] \notin {"idle", "crashed"}
  /\ Goto(p, "crashed")
  /\ UNCHANGED <<files, request, reply>>

-----------------------------------------------------------------------------
\* What getpath itself does once called.
Step(p) ==
  \/ Lookup(p) \/ LookupNoFile(p) \/ MakeDb(p) \/ MakeDbDenied(p)
  \/ TryLock(p) \/ Recheck(p)
  \/ GeneratePath(p) \/ GeneratePathFails(p) \/ Fetch(p) \/ FetchFails(p)
  \/ OpenUpdate(p) \/ WriteUpdate(p)
  \/ WriteFails(p) \/ Rename(p) \/ Unlock(p)

Next == \E p \in Procs : Begin(p) \/ Step(p) \/ Crash(p)

Spec == Init /\ [][Next]_vars

\* A process that can take its next system call takes it: the loops of
\* getpath sleep, they never wait on a user.
FairSpec == Spec /\ \A p \in Procs : WF_vars(Step(p))

-----------------------------------------------------------------------------
(* Properties *)

TypeOK ==
  /\ dbExists \in BOOLEAN
  /\ db \in SUBSET Line
  /\ update \in SUBSET Line
  /\ lock \in BOOLEAN
  /\ dirs \in [Paths -> {"none", "partial", "complete"}]
  /\ pc \in [Procs -> Unlocked \cup Locked]
  /\ asOwner \in [Procs -> BOOLEAN]
  /\ key \in [Procs -> Keys]
  /\ path \in [Procs -> Paths \cup {NoPath}]
  /\ outcome \in [Procs -> Outcomes]
  /\ asked \in [Procs -> Nat]
  /\ answer \in [Procs -> Line \cup {NoAnswer}]

Holders == {p \in Procs : pc[p] \in Locked}

\* "This will always run while the DB is locked" (download, getpath): at most
\* one process is between creating the lock file and removing it, and the
\* file is there as long as one is -- also when another one fails, is killed
\* or runs through sudo.
MutualExclusion ==
  /\ \A p, q \in Holders : p = q
  /\ Holders # {} => lock

\* The cache is a function: one line per request, no directory twice.  Two
\* processes that both missed without the lock must not both download.
OneLinePerRequest ==
  \A l, m \in db : (l.key = m.key \/ l.path = m.path) => l = m

\* Only finished downloads are published, whichever write, download or
\* process failed on the way.
PublishedAreComplete == \A l \in db : dirs[l.path] = "complete"

\* Whatever a caller was told, the database still says: a path once answered
\* stays the path of that request for ever.
AnswersStayTrue == \A p \in Procs : answer[p] # NoAnswer => answer[p] \in db

\* The three together: the file that all processes share without being able to
\* trust each other's copies of it stays a sound answer to every request.
DatabaseSound == OneLinePerRequest /\ PublishedAreComplete /\ AnswersStayTrue

\* No step loses a published line: not the copy and rename, not the creation
\* of a missing database, not a failed write, not a crash between them.
LinesAreDurable == [][db \subseteq db']_vars

\* A directory has one writer: it is given to one process, which alone fills
\* it, and no process touches a directory that is published.
DirectoriesHaveOneWriter ==
  [][\A d \in Paths : dirs'[d] # dirs[d] =>
        /\ \A l \in db : l.path # d
        /\ \E p \in Procs : /\ pc[p] \in {"generatepath", "fetch"}
                           /\ path'[p] = d
                           /\ pc'[p] # pc[p]
        /\ \A p, q \in Procs : path'[p] = d /\ path'[q] = d => p = q]_vars

\* A killed holder leaves the lock file, and nothing in the code removes a
\* lock file it did not create: from then on nobody gets in.
StaleLockIsForever ==
  [][(lock /\ Holders = {}) => (lock' /\ Holders' = {})]_vars

\* Unless a holder is killed, every call of getpath ends, although waiters only
\* poll the lock file and others may be killed.
EveryCallEnds ==
  \/ <>(lock /\ Holders = {} /\ \E p \in Procs : pc[p] = "crashed")
  \/ \A p \in Procs : pc[p] \notin {"idle", "crashed"} ~> pc[p] \in {"idle", "crashed"}

\* The cache of DownloadCache.tla, read off the database file.
PathOf(k) == IF Cached(k) THEN LineOf(k).path ELSE NoPath
cacheBar == [k \in Keys |-> PathOf(k)]

Cache == INSTANCE DownloadCache WITH cache <- cacheBar

\* getpath implements the abstract cache: every step is a fill, a reply or
\* invisible to callers.
ImplementsCache == Cache!CacheSpec

=============================================================================
