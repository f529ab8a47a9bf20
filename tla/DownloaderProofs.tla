--------------------------- MODULE DownloaderProofs ---------------------------
(***************************************************************************)
(* Theorems about Downloader.tla for every number of processes, requests   *)
(* and directories and every set of faults: the lock excludes, the         *)
(* database stays a function whose lines are never lost, and getpath       *)
(* implements the abstract cache of DownloadCache.tla.                     *)
(***************************************************************************)
EXTENDS Downloader, TLAPS

USE NoPathAssumption, UsersAssumption, FaultsAssumption, RequestsAssumption
USE DEF Appending, Acquirable, FoundMeanwhile, Fresh

\* The points between a miss under the lock and the end of getpath.
Downloading == {"generatepath", "fetch", "openupdate", "write", "rename"}
Publishing == {"openupdate", "write", "rename"}

NewLine(p) == [key |-> key[p], path |-> path[p]]

\* What the holder of the lock may rely on.
HolderInv ==
  \A p \in Procs :
    /\ pc[p] \in Downloading => ~Cached(key[p])
    /\ pc[p] \in {"fetch"} \cup Publishing =>
         /\ path[p] \in Paths
         /\ \A l \in db : l.path # path[p]
    /\ pc[p] = "fetch" => dirs[path[p]] = "partial"
    /\ pc[p] \in Publishing => dirs[path[p]] = "complete"
    /\ pc[p] = "write" => update = {}
    /\ pc[p] = "rename" => update = db \cup {NewLine(p)}
    /\ pc[p] = "unlock" /\ outcome[p] = "none" => NewLine(p) \in db

Safe ==
  /\ MutualExclusion
  /\ HolderInv
  /\ OneLinePerRequest
  /\ PublishedAreComplete
  /\ AnswersStayTrue

-----------------------------------------------------------------------------
(* The variables keep their types, and who is past generatepath has a path. *)
HasPath(p) ==
  \/ pc[p] \in {"fetch"} \cup Publishing
  \/ pc[p] = "unlock" /\ outcome[p] = "none"

TInv == TypeOK /\ \A p \in Procs : HasPath(p) => path[p] \in Paths

LEMMA TypeInit == Init => TInv
  <1> SUFFICES ASSUME Init PROVE TInv
    OBVIOUS
  <1>1. asOwner \in [Procs -> BOOLEAN]
    BY Zenon DEF Init
  <1>2. TypeOK
    BY <1>1 DEF Init, TypeOK, Unlocked, Outcomes
  <1>3. QED
    BY <1>2 DEF TInv, HasPath, Publishing, Init

\* A request found in the database has a line, and it is a line.
LEMMA LineOfCached ==
  ASSUME TypeOK, NEW k \in Keys, Cached(k)
  PROVE  LineOf(k) \in db /\ LineOf(k).key = k /\ LineOf(k) \in Line
         /\ LineOf(k) = [key |-> k, path |-> LineOf(k).path]
  <1>1. LineOf(k) \in db /\ LineOf(k).key = k
    BY DEF Cached, LineOf
  <1>2. LineOf(k) \in Line
    BY <1>1 DEF TypeOK
  <1>3. QED
    BY <1>1, <1>2 DEF Line

LEMMA TypeStep == TInv /\ [Next]_vars => TInv'
  <1> SUFFICES ASSUME TInv, [Next]_vars PROVE TInv'
    OBVIOUS
  <1> USE DEF TInv, HasPath, Publishing, TypeOK, Goto, Finish, Unlocked, Locked, Outcomes, files, request,
              reply, vars
  <1>1. ASSUME NEW p \in Procs, Begin(p) PROVE TInv'
    BY <1>1 DEF Begin
  <1>2. ASSUME NEW p \in Procs, Lookup(p) PROVE TInv'
    <2>1. CASE Cached(key[p]) /\ Return(p, LineOf(key[p]).path)
                 /\ UNCHANGED asOwner
      <3>1. key[p] \in Keys
        OBVIOUS
      <3>2. LineOf(key[p]) \in Line
        BY <2>1, <3>1, LineOfCached
      <3>3. [key |-> key[p], path |-> LineOf(key[p]).path] \in Line
        BY <3>1, <3>2 DEF Line
      <3>4. QED
        BY <1>2, <2>1, <3>3 DEF Lookup, Return
    <2>2. CASE Miss(p) /\ UNCHANGED reply
      BY <1>2, <2>2 DEF Lookup, Miss
    <2>3. QED
      BY <1>2, <2>1, <2>2 DEF Lookup
  <1>3. ASSUME NEW p \in Procs, LookupNoFile(p) PROVE TInv'
    BY <1>3, ZenonT(20) DEF LookupNoFile
  <1>4. ASSUME NEW p \in Procs, MakeDb(p) \/ MakeDbDenied(p) PROVE TInv'
    BY <1>4, ZenonT(20) DEF MakeDb, MakeDbDenied, Miss
  <1>5. ASSUME NEW p \in Procs, TryLock(p) \/ Recheck(p) PROVE TInv'
    BY <1>5 DEF TryLock, Recheck
  <1>6. ASSUME NEW p \in Procs, GeneratePath(p) \/ GeneratePathFails(p)
        PROVE TInv'
    BY <1>6 DEF GeneratePath, GeneratePathFails
  <1>7. ASSUME NEW p \in Procs, Fetch(p) \/ FetchFails(p) PROVE TInv'
    BY <1>7 DEF Fetch, FetchFails
  <1>8. ASSUME NEW p \in Procs, OpenUpdate(p) \/ WriteFails(p) PROVE TInv'
    <2>1. pc[p] \in Publishing => NewLine(p) \in Line
      BY DEF NewLine, Line
    <2>2. QED
      BY <1>8, <2>1 DEF OpenUpdate, WriteFails, NewLine
  <1>8b. ASSUME NEW p \in Procs, Rename(p) PROVE TInv'
    BY <1>8b DEF Rename
  <1>9. ASSUME NEW p \in Procs, WriteUpdate(p) PROVE TInv'
    BY <1>9 DEF WriteUpdate, Line
  <1>10. ASSUME NEW p \in Procs, Unlock(p) PROVE TInv'
    <2>1. CASE outcome[p] = "none" /\ Return(p, path[p])
      <3>1. path[p] \in Paths
        BY <1>10, <2>1 DEF Unlock
      <3>2. NewLine(p) \in Line
        BY <3>1 DEF NewLine, Line
      <3>3. answer' \in [Procs -> Line \cup {NoAnswer}]
        BY <2>1, <3>2 DEF Return, NewLine
      <3>4. QED
        BY <1>10, <2>1, <3>3 DEF Unlock, Return
    <2>2. CASE Goto(p, "idle") /\ UNCHANGED reply
      BY <1>10, <2>2 DEF Unlock
    <2>3. QED
      BY <1>10, <2>1, <2>2 DEF Unlock
  <1>11. ASSUME NEW p \in Procs, Crash(p) PROVE TInv'
    BY <1>11 DEF Crash
  <1>12. CASE UNCHANGED vars
    BY <1>12
  <1>13. QED
    BY <1>1, <1>2, <1>3, <1>4, <1>5, <1>6, <1>7, <1>8, <1>9, <1>10, <1>11,
       <1>12, <1>8b DEF Next, Step

-----------------------------------------------------------------------------
(* The inductive invariant.  MutualExclusion alone is not inductive: the    *)
(* lock file has to be tied to its holder's program point, and the holder   *)
(* to what it has put into the directory and the copy of the database.      *)
IInv == TInv /\ Safe

LEMMA SafeInit == Init => Safe
  BY DEF Init, Safe, MutualExclusion, Holders, Locked, HolderInv, Downloading,
         Publishing, OneLinePerRequest, PublishedAreComplete, AnswersStayTrue

\* A step of a process that is not at a locked point, and leaves the files
\* alone except for creating an empty database, disturbs no holder.
LEMMA OutsiderStep ==
  ASSUME IInv, NEW p \in Procs, pc[p] \notin Locked,
         UNCHANGED <<db, update, lock, dirs>>,
         \A q \in Procs \ {p} : /\ pc'[q] = pc[q] /\ key'[q] = key[q]
                               /\ path'[q] = path[q] /\ outcome'[q] = outcome[q],
         pc'[p] \notin Locked
  PROVE  MutualExclusion' /\ HolderInv' /\ OneLinePerRequest'
         /\ PublishedAreComplete'
  <1> USE DEF IInv, Safe
  <1>1. Holders' = Holders
    BY DEF Holders
  <1>2. MutualExclusion'
    BY <1>1 DEF MutualExclusion
  <1>3. HolderInv'
    BY DEF HolderInv, Downloading, Publishing, Locked, Cached, NewLine
  <1>4. QED
    BY <1>2, <1>3 DEF OneLinePerRequest, PublishedAreComplete

\* A step of the holder that stays at locked points: the others are not there.
LEMMA Alone ==
  ASSUME IInv, NEW p \in Procs, pc[p] \in Locked
  PROVE  lock = TRUE /\ \A q \in Procs : pc[q] \in Locked => q = p
  BY DEF IInv, Safe, MutualExclusion, Holders, TInv, TypeOK

LEMMA HolderStep ==
  ASSUME IInv, NEW p \in Procs, pc[p] \in Locked, lock' = lock,
         \A q \in Procs \ {p} : pc'[q] = pc[q],
         pc'[p] \in Locked
  PROVE  MutualExclusion'
  <1>1. Holders' = {p}
    BY Alone DEF Holders
  <1>2. QED
    BY <1>1, Alone DEF MutualExclusion

LEMMA SafeStep == IInv /\ TInv' /\ [Next]_vars => Safe'
  <1> SUFFICES ASSUME IInv, TInv', [Next]_vars PROVE Safe'
    OBVIOUS
  <1> USE DEF Safe, Goto, Finish, files, request, reply
  <1>a. TypeOK /\ TypeOK'
    BY DEF IInv, TInv
  <1>1. ASSUME NEW p \in Procs,
               \/ Begin(p) \/ LookupNoFile(p) \/ MakeDb(p) \/ MakeDbDenied(p)
               \/ Lookup(p) /\ Miss(p) /\ UNCHANGED reply
        PROVE Safe'
    <2>1. /\ pc[p] \notin Locked /\ pc'[p] \notin Locked
          /\ UNCHANGED <<db, update, lock, dirs, answer>>
          /\ \A q \in Procs \ {p} :
               /\ pc'[q] = pc[q] /\ key'[q] = key[q]
               /\ path'[q] = path[q] /\ outcome'[q] = outcome[q]
      BY <1>a, <1>1 DEF Begin, LookupNoFile, MakeDb, MakeDbDenied, Lookup, Miss,
                        Locked, TypeOK
    <2>2. AnswersStayTrue'
      BY <2>1 DEF AnswersStayTrue, IInv
    <2>3. QED
      BY <2>1, <2>2, OutsiderStep
  <1>2. ASSUME NEW p \in Procs, Lookup(p), Cached(key[p]),
               Return(p, LineOf(key[p]).path)
        PROVE Safe'
    <2>1. /\ pc[p] \notin Locked /\ pc'[p] \notin Locked
          /\ UNCHANGED <<db, update, lock, dirs>>
          /\ \A q \in Procs \ {p} :
               /\ pc'[q] = pc[q] /\ key'[q] = key[q]
               /\ path'[q] = path[q] /\ outcome'[q] = outcome[q]
      BY <1>a, <1>2 DEF Lookup, Return, Locked, TypeOK
    <2>2. [key |-> key[p], path |-> LineOf(key[p]).path] \in db
      BY <1>a, <1>2, LineOfCached DEF TypeOK
    <2>3. AnswersStayTrue'
      BY <1>a, <1>2, <2>1, <2>2 DEF AnswersStayTrue, IInv, Return, TypeOK
    <2>4. QED
      BY <2>1, <2>3, OutsiderStep
  <1>3. ASSUME NEW p \in Procs, TryLock(p) PROVE Safe'
    <2>1. Holders = {}
      BY <1>3 DEF TryLock, IInv, MutualExclusion
    <2>2. Holders' = {p}
      BY <1>a, <1>3, <2>1 DEF TryLock, Holders, Locked, TypeOK
    <2>3. MutualExclusion'
      BY <1>3, <2>2 DEF TryLock, MutualExclusion
    <2>4. HolderInv'
      BY <1>a, <1>3, <2>1 DEF TryLock, Holders, HolderInv, Downloading,
                              Publishing, Locked, TypeOK
    <2>5. QED
      BY <1>3, <2>3, <2>4 DEF TryLock, IInv, OneLinePerRequest,
                              PublishedAreComplete, AnswersStayTrue
  <1>4. ASSUME NEW p \in Procs,
               Recheck(p) \/ GeneratePathFails(p) \/ FetchFails(p)
        PROVE Safe'
    <2>1. /\ pc[p] \in Locked /\ pc'[p] \in Locked
          /\ UNCHANGED <<db, update, lock, dirs, answer, key, path>>
          /\ \A q \in Procs \ {p} : pc'[q] = pc[q] /\ outcome'[q] = outcome[q]
      BY <1>a, <1>4 DEF Recheck, GeneratePathFails, FetchFails, Locked, TypeOK
    <2>2. pc'[p] = "generatepath" => ~Cached(key[p])
      BY <1>a, <1>4 DEF Recheck, GeneratePathFails, FetchFails, TypeOK
    <2>2b. /\ pc'[p] \in {"generatepath", "unlock"}
           /\ pc'[p] = "unlock" => outcome'[p] # "none"
      BY <1>a, <1>4 DEF Recheck, GeneratePathFails, FetchFails, TypeOK
    <2>3. HolderInv'
      BY <2>1, <2>2, <2>2b DEF IInv, HolderInv, Downloading, Publishing, Cached,
                               NewLine
    <2>4. QED
      BY <2>1, <2>3, HolderStep DEF IInv, OneLinePerRequest,
                                    PublishedAreComplete, AnswersStayTrue
  <1>5. ASSUME NEW p \in Procs, GeneratePath(p) PROVE Safe'
    <2>1. PICK d \in Paths : /\ dirs[d] = "none"
                             /\ dirs' = [dirs EXCEPT ![d] = "partial"]
                             /\ path' = [path EXCEPT ![p] = d]
      BY <1>5 DEF GeneratePath
    <2>2. \A l \in db : l.path # d
      BY <2>1 DEF IInv, PublishedAreComplete
    <2>3. \A q \in Procs : q # p => pc[q] \notin Locked /\ pc'[q] = pc[q]
      <3>1. pc[p] \in Locked /\ \A q \in Procs : q # p => pc'[q] = pc[q]
        BY <1>a, <1>5 DEF GeneratePath, Locked, TypeOK
      <3>2. QED
        BY <3>1, Alone
    <2>4. HolderInv'
      <3>1. /\ pc'[p] = "fetch" /\ path'[p] = d /\ dirs'[d] = "partial"
            /\ UNCHANGED <<db, key>>
        BY <1>a, <1>5, <2>1 DEF GeneratePath, TypeOK
      <3>2. ~Cached(key[p])
        BY <1>5 DEF GeneratePath, IInv, HolderInv, Downloading
      <3>3. QED
        BY <2>2, <2>3, <3>1, <3>2 DEF HolderInv, Downloading, Publishing, Locked,
                                      Cached
    <2>5. MutualExclusion'
      BY <1>a, <1>5, <2>3, HolderStep DEF GeneratePath, Locked, TypeOK
    <2>6. PublishedAreComplete'
      BY <1>a, <1>5, <2>1, <2>2 DEF GeneratePath, IInv, PublishedAreComplete,
                                    TypeOK, Line
    <2>7. QED
      BY <1>5, <2>4, <2>5, <2>6 DEF GeneratePath, IInv, OneLinePerRequest,
                                    AnswersStayTrue
  <1>6. ASSUME NEW p \in Procs, Fetch(p) PROVE Safe'
    <2>1. path[p] \in Paths /\ \A l \in db : l.path # path[p]
      BY <1>6 DEF Fetch, IInv, HolderInv
    <2>2. \A q \in Procs : q # p => pc[q] \notin Locked /\ pc'[q] = pc[q]
      <3>1. pc[p] \in Locked /\ \A q \in Procs : q # p => pc'[q] = pc[q]
        BY <1>a, <1>6 DEF Fetch, Locked, TypeOK
      <3>2. QED
        BY <3>1, Alone
    <2>3. HolderInv'
      <3>1. /\ pc'[p] = "openupdate" /\ dirs'[path[p]] = "complete"
            /\ UNCHANGED <<db, key, path>>
        BY <1>a, <1>6, <2>1 DEF Fetch, TypeOK
      <3>2. ~Cached(key[p])
        BY <1>6 DEF Fetch, IInv, HolderInv, Downloading
      <3>3. QED
        BY <2>1, <2>2, <3>1, <3>2 DEF HolderInv, Downloading, Publishing, Locked,
                                      Cached
    <2>4. MutualExclusion'
      BY <1>a, <1>6, <2>2, HolderStep DEF Fetch, Locked, TypeOK
    <2>5. PublishedAreComplete'
      BY <1>a, <1>6, <2>1 DEF Fetch, IInv, PublishedAreComplete, TypeOK, Line
    <2>6. QED
      BY <1>6, <2>3, <2>4, <2>5 DEF Fetch, IInv, OneLinePerRequest,
                                    AnswersStayTrue
  <1>7. ASSUME NEW p \in Procs, OpenUpdate(p) \/ WriteUpdate(p) \/ WriteFails(p)
        PROVE Safe'
    <2>1. /\ pc[p] \in Locked /\ pc'[p] \in Locked
          /\ UNCHANGED <<db, lock, dirs, answer, key, path>>
          /\ \A q \in Procs \ {p} : pc'[q] = pc[q]
      BY <1>a, <1>7 DEF OpenUpdate, WriteUpdate, WriteFails, Locked, TypeOK
    <2>2. \A q \in Procs : q # p => pc[q] \notin Locked
      BY <2>1, Alone
    <2>3. HolderInv'
      BY <1>a, <1>7, <2>1, <2>2
      DEF OpenUpdate, WriteUpdate, WriteFails, IInv, HolderInv, Downloading,
          Publishing, Locked, Cached, NewLine, TypeOK
    <2>4. QED
      BY <2>1, <2>3, HolderStep DEF IInv, OneLinePerRequest,
                                    PublishedAreComplete, AnswersStayTrue
  <1>8. ASSUME NEW p \in Procs, Rename(p) PROVE Safe'
    <2>1. /\ db' = db \cup {NewLine(p)}
          /\ ~Cached(key[p]) /\ \A l \in db : l.path # path[p]
          /\ path[p] \in Paths /\ dirs[path[p]] = "complete"
      BY <1>8 DEF Rename, IInv, HolderInv, Downloading, Publishing
    <2>2. /\ pc[p] \in Locked /\ pc'[p] \in Locked /\ pc'[p] = "unlock"
          /\ UNCHANGED <<lock, dirs, answer, key, path, outcome>>
          /\ \A q \in Procs \ {p} : pc'[q] = pc[q]
      BY <1>a, <1>8 DEF Rename, Locked, TypeOK
    <2>3. \A q \in Procs : q # p => pc[q] \notin Locked
      BY <2>2, Alone
    <2>4. HolderInv'
      BY <2>1, <2>2, <2>3 DEF HolderInv, Downloading, Publishing, Locked, NewLine
    <2>5. MutualExclusion'
      BY <2>2, HolderStep
    <2>6. OneLinePerRequest'
      BY <2>1 DEF IInv, OneLinePerRequest, Cached, NewLine
    <2>7. PublishedAreComplete' /\ AnswersStayTrue'
      BY <2>1, <2>2 DEF IInv, PublishedAreComplete, AnswersStayTrue, NewLine
    <2>8. QED
      BY <2>4, <2>5, <2>6, <2>7
  <1>9. ASSUME NEW p \in Procs, Unlock(p) PROVE Safe'
    <2>1. /\ pc[p] \in Locked /\ pc'[p] = "idle"
          /\ UNCHANGED <<db, dirs, update, key, path>>
          /\ \A q \in Procs \ {p} : pc'[q] = pc[q] /\ outcome'[q] = outcome[q]
      BY <1>a, <1>9 DEF Unlock, Return, Locked, TypeOK
    <2>2. \A q \in Procs : pc'[q] \notin Locked
      BY <2>1, Alone DEF Locked
    <2>3. HolderInv' /\ MutualExclusion'
      BY <2>2 DEF HolderInv, MutualExclusion, Holders, Downloading, Publishing,
                  Locked
    <2>4. AnswersStayTrue'
      <3>1. CASE outcome[p] = "none" /\ Return(p, path[p])
        <4>1. NewLine(p) \in db
          BY <1>9, <3>1 DEF Unlock, IInv, HolderInv
        <4>2. QED
          BY <1>a, <2>1, <3>1, <4>1 DEF Return, IInv, AnswersStayTrue, NewLine,
                                        TypeOK
      <3>2. CASE UNCHANGED reply
        BY <2>1, <3>2 DEF IInv, AnswersStayTrue
      <3>3. QED
        BY <1>9, <3>1, <3>2 DEF Unlock
    <2>5. QED
      BY <2>1, <2>3, <2>4 DEF IInv, OneLinePerRequest, PublishedAreComplete
  <1>10. ASSUME NEW p \in Procs, Crash(p) PROVE Safe'
    <2>1. /\ pc'[p] = "crashed" /\ UNCHANGED <<files, request, reply>>
          /\ \A q \in Procs \ {p} : pc'[q] = pc[q]
      BY <1>a, <1>10 DEF Crash, TypeOK
    <2>2. HolderInv'
      BY <2>1 DEF IInv, HolderInv, Downloading, Publishing, Cached, NewLine
    <2>3. Holders' \subseteq Holders
      BY <2>1 DEF Holders, Locked
    <2>4. MutualExclusion'
      BY <2>1, <2>3 DEF IInv, MutualExclusion
    <2>5. QED
      BY <2>1, <2>2, <2>4 DEF IInv, OneLinePerRequest, PublishedAreComplete,
                              AnswersStayTrue
  <1>11. CASE UNCHANGED vars
    BY <1>11 DEF vars, IInv, MutualExclusion, Holders, HolderInv, Cached, NewLine,
                 OneLinePerRequest, PublishedAreComplete, AnswersStayTrue
  <1>12. QED
    <2>1. ASSUME NEW p \in Procs, Lookup(p) PROVE Safe'
      BY <1>1, <1>2, <2>1 DEF Lookup
    <2>2. QED
      BY <1>1, <1>3, <1>4, <1>5, <1>6, <1>7, <1>8, <1>9, <1>10, <1>11, <2>1
      DEF Next, Step

-----------------------------------------------------------------------------
(* The theorems. *)

\* The inductive invariant holds in every reachable state.
THEOREM Invariance == Spec => []IInv
  <1>1. Init => IInv
    BY TypeInit, SafeInit DEF IInv
  <1>2. IInv /\ [Next]_vars => IInv'
    BY TypeStep, SafeStep DEF IInv
  <1>3. QED
    BY <1>1, <1>2, PTL DEF Spec

\* Every variable keeps its type: the files, and each process's program point,
\* request, directory and answer.
THEOREM TypeCorrect == Spec => []TypeOK
  <1>1. IInv => TypeOK
    BY DEF IInv, TInv
  <1>2. QED
    BY <1>1, Invariance, PTL

\* At most one process is between creating and removing the lock file, however
\* many run, fail or are killed.
THEOREM LockExcludes == Spec => []MutualExclusion
  <1>1. IInv => MutualExclusion
    BY DEF IInv, Safe
  <1>2. QED
    BY <1>1, Invariance, PTL

\* The database is a function from requests to finished downloads, and agrees
\* with everything a caller was ever told.
THEOREM DatabaseIsSound == Spec => []DatabaseSound
  <1>1. IInv => DatabaseSound
    BY DEF IInv, Safe, DatabaseSound
  <1>2. QED
    BY <1>1, Invariance, PTL

\* No step loses a published line.
THEOREM Durability == Spec => LinesAreDurable
  <1>1. IInv /\ [Next]_vars => [db \subseteq db']_vars
    <2> SUFFICES ASSUME IInv, [Next]_vars PROVE db \subseteq db'
      OBVIOUS
    <2>1. ASSUME NEW p \in Procs, Rename(p) PROVE db \subseteq db'
      BY <2>1 DEF Rename, IInv, Safe, HolderInv
    <2>2. ASSUME NEW p \in Procs, Step(p), ~Rename(p) PROVE db' = db
      BY <2>2 DEF Step, files, Lookup, LookupNoFile, MakeDb, MakeDbDenied,
                  TryLock, Recheck, GeneratePath, GeneratePathFails, Fetch,
                  FetchFails, OpenUpdate, WriteUpdate, WriteFails, Unlock
    <2>3. QED
      BY <2>1, <2>2 DEF Next, Begin, Crash, files, vars
  <1>2. QED
    BY <1>1, Invariance, PTL DEF Spec, LinesAreDurable

\* Once a holder was killed, the lock file stays and nobody gets in again.
THEOREM StaleLock == Spec => StaleLockIsForever
  <1>1. IInv /\ [Next]_vars
        => [(lock /\ Holders = {}) => (lock' /\ Holders' = {})]_vars
    <2> SUFFICES ASSUME IInv, [Next]_vars, lock, Holders = {}
                 PROVE lock' /\ Holders' = {}
      OBVIOUS
    <2> USE DEF Holders
    <2>1. \A q \in Procs : pc[q] \notin Locked
      OBVIOUS
    <2>2. ASSUME NEW p \in Procs, Begin(p) \/ Step(p) \/ Crash(p),
                 pc[p] \notin Locked
          PROVE lock' = lock /\ \A q \in Procs : pc'[q] \notin Locked
      <3> DEFINE Outside == lock' = lock
                   /\ \E l : l \notin Locked /\ pc' = [pc EXCEPT ![p] = l]
      <3>1. {"idle", "lookup", "trylock", "crashed", "makedb"} \cap Locked = {}
        BY DEF Locked
      <3>2. ASSUME Begin(p) PROVE Outside
        BY <3>1, <3>2 DEF Begin, Goto, files
      <3>2a. ASSUME Crash(p) PROVE Outside
        BY <3>1, <3>2a DEF Crash, Goto, files
      <3>3. ASSUME Lookup(p) PROVE Outside
        <4>1. CASE Return(p, LineOf(key[p]).path)
          BY <3>1, <3>3, <4>1 DEF Lookup, Return, Goto, files
        <4>2. CASE Miss(p)
          BY <3>1, <3>3, <4>2 DEF Lookup, Miss, Goto, files
        <4>3. QED
          BY <3>3, <4>1, <4>2 DEF Lookup
      <3>4. ASSUME LookupNoFile(p) PROVE Outside
        BY <3>1, <3>4 DEF LookupNoFile, Goto, files
      <3>5. ASSUME MakeDb(p) PROVE Outside
        BY <3>1, <3>5 DEF MakeDb, Miss, Goto
      <3>6. ASSUME MakeDbDenied(p) PROVE Outside
        BY <3>1, <3>6 DEF MakeDbDenied, Goto, files
      <3>7. ~TryLock(p)
        BY DEF TryLock, Acquirable
      <3>8. ~(Recheck(p) \/ GeneratePath(p) \/ GeneratePathFails(p) \/ Fetch(p) \/ FetchFails(p)
                \/ OpenUpdate(p) \/ WriteUpdate(p) \/ WriteFails(p) \/ Rename(p) \/ Unlock(p))
        <4>1. pc[p] \notin Locked
          BY <2>2
        <4>2. QED
          BY <4>1 DEF Recheck, GeneratePath, GeneratePathFails, Fetch, FetchFails, OpenUpdate,
            WriteUpdate, WriteFails, Rename, Unlock, Locked
      <3>9. Outside
        BY <2>2, <3>2, <3>2a, <3>3, <3>4, <3>5, <3>6, <3>7, <3>8 DEF Step
      <3>10. pc \in [Procs -> {pc[q] : q \in Procs}]
        BY DEF IInv, TInv, TypeOK
      <3>11. QED
        BY <2>1, <3>9, <3>10
    <2>3. QED
      BY <2>1, <2>2 DEF Next, vars, files
  <1>2. QED
    BY <1>1, Invariance, PTL DEF Spec, StaleLockIsForever

-----------------------------------------------------------------------------
(* Directories. *)

\* A directory that was ever drawn stays drawn, and no two processes hold the
\* same one, also long after the call that drew it.
Drawn ==
  /\ \A p \in Procs : path[p] # NoPath => path[p] \in Paths /\ dirs[path[p]] # "none"
  /\ \A p, q \in Procs : path[p] # NoPath /\ path[p] = path[q] => p = q

LEMMA DrawnStep == TInv /\ Drawn /\ [Next]_vars => Drawn'
  <1> SUFFICES ASSUME TInv, Drawn, [Next]_vars PROVE Drawn'
    OBVIOUS
  <1> USE DEF TInv, TypeOK, HasPath
  <1>1. ASSUME NEW p \in Procs, Begin(p) PROVE Drawn'
    BY <1>1 DEF Begin, Drawn, files
  <1>2. ASSUME NEW p \in Procs, GeneratePath(p) PROVE Drawn'
    BY <1>2 DEF GeneratePath, Drawn
  <1>3. ASSUME NEW p \in Procs, Fetch(p) PROVE Drawn'
    BY <1>3 DEF Fetch, Drawn, request
  <1>4. ASSUME UNCHANGED <<dirs, path>> PROVE Drawn'
    BY <1>4 DEF Drawn
  <1>5. ASSUME NEW p \in Procs, Step(p), ~GeneratePath(p), ~Fetch(p)
        PROVE UNCHANGED <<dirs, path>>
    BY <1>5 DEF Step, files, request, Lookup, LookupNoFile, MakeDb, MakeDbDenied, TryLock, Recheck,
                GeneratePathFails, FetchFails, OpenUpdate, WriteUpdate, WriteFails, Rename, Unlock
  <1>6. ASSUME NEW p \in Procs, Crash(p) PROVE UNCHANGED <<dirs, path>>
    BY <1>6 DEF Crash, files, request
  <1>7. CASE UNCHANGED vars
    BY <1>4, <1>7 DEF vars, files, request
  <1>8. QED
    BY <1>1, <1>2, <1>3, <1>4, <1>5, <1>6, <1>7 DEF Next

\* A directory changes only in the hands of the one process that drew it, and
\* never once a line names it.
THEOREM OneWriter == Spec => DirectoriesHaveOneWriter
  <1> DEFINE Written(d) ==
        /\ \A l \in db : l.path # d
        /\ \E p \in Procs : /\ pc[p] \in {"generatepath", "fetch"}
                           /\ path'[p] = d
                           /\ pc'[p] # pc[p]
        /\ \A p, q \in Procs : path'[p] = d /\ path'[q] = d => p = q
  <1>1. Init => Drawn
    BY DEF Init, Drawn
  <1>2. IInv /\ Drawn /\ [Next]_vars => Drawn'
    BY DrawnStep DEF IInv
  <1>3. IInv /\ Drawn /\ Drawn' /\ [Next]_vars
        => [\A d \in Paths : dirs'[d] # dirs[d] => Written(d)]_vars
    <2> SUFFICES ASSUME IInv, Drawn, Drawn', Next, NEW d \in Paths, dirs'[d] # dirs[d]
                 PROVE  Written(d)
      OBVIOUS
    <2> USE DEF IInv, TInv, TypeOK
    <2>1. \A p, q \in Procs : path'[p] = d /\ path'[q] = d => p = q
      BY NoPathAssumption DEF Drawn
    <2>2. ASSUME NEW p \in Procs, GeneratePath(p) PROVE Written(d)
      <3>1. path'[p] = d /\ dirs[d] = "none"
        BY <2>2 DEF GeneratePath
      <3>2. \A l \in db : l.path # d
        BY <3>1 DEF Safe, PublishedAreComplete
      <3>3. pc[p] = "generatepath" /\ pc'[p] = "fetch"
        BY <2>2 DEF GeneratePath, Goto
      <3>4. QED
        BY <2>1, <3>1, <3>2, <3>3
    <2>3. ASSUME NEW p \in Procs, Fetch(p) PROVE Written(d)
      <3>1. pc[p] = "fetch" /\ pc'[p] = "openupdate" /\ path' = path
        BY <2>3 DEF Fetch, Goto, request
      <3>2. path[p] = d
        BY <2>3 DEF Fetch
      <3>3. \A l \in db : l.path # d
        BY <3>1, <3>2 DEF Safe, HolderInv
      <3>4. QED
        BY <2>1, <3>1, <3>2, <3>3
    <2>4. ASSUME NEW p \in Procs, Step(p), ~GeneratePath(p), ~Fetch(p) PROVE dirs' = dirs
      BY <2>4 DEF Step, files, Lookup, LookupNoFile, MakeDb, MakeDbDenied, TryLock, Recheck,
                  GeneratePathFails, FetchFails, OpenUpdate, WriteUpdate, WriteFails, Rename, Unlock
    <2>5. ASSUME NEW p \in Procs, Begin(p) \/ Crash(p) PROVE dirs' = dirs
      BY <2>5 DEF Begin, Crash, files
    <2>6. QED
      BY <2>2, <2>3, <2>4, <2>5 DEF Next
  <1>4. QED
    BY <1>1, <1>2, <1>3, Invariance, PTL DEF Spec, DirectoriesHaveOneWriter

-----------------------------------------------------------------------------
(* getpath implements the abstract cache. *)

\* What the database says of a request.
LEMMA CachedPath ==
  ASSUME IInv, NEW k \in Keys
  PROVE  /\ \A l \in db : l.key = k => PathOf(k) = l.path
         /\ ~Cached(k) => PathOf(k) = NoPath
         /\ Cached(k) => [key |-> k, path |-> PathOf(k)] \in db
         /\ Cached(k) => PathOf(k) \in Paths
  <1> USE DEF IInv, TInv, Safe
  <1>1. CASE Cached(k)
    BY <1>1, LineOfCached DEF OneLinePerRequest, PathOf, Line
  <1>2. CASE ~Cached(k)
    BY <1>2 DEF PathOf, Cached
  <1>3. QED
    BY <1>1, <1>2

\* While the lines stay, so does the abstract cache.
LEMMA SameLines == db' = db => cacheBar' = cacheBar
  BY DEF cacheBar, PathOf, Cached, LineOf

LEMMA InitImplements == Init => Cache!CacheInit
  BY DEF Init, Cache!CacheInit, cacheBar, PathOf, Cached, NoAnswer,
         Cache!NoAnswer

LEMMA StepImplements ==
  IInv /\ IInv' /\ [Next]_vars => [Cache!CacheNext]_<<cacheBar, answer>>
  <1> SUFFICES ASSUME IInv, IInv', [Next]_vars
               PROVE [Cache!CacheNext]_<<cacheBar, answer>>
    OBVIOUS
  <1>a. TypeOK
    BY DEF IInv, TInv
  \* Publishing a line fills the request's entry.
  <1>1. ASSUME NEW p \in Procs, Rename(p) PROVE Cache!CacheNext
    <2>1. PICK k \in Keys, d \in Paths : k = key[p] /\ d = path[p]
      BY <1>1, <1>a DEF Rename, IInv, Safe, HolderInv, Publishing, TypeOK
    <2> DEFINE new == [key |-> k, path |-> d]
    <2>2. /\ db' = db \cup {new}
          /\ ~Cached(k) /\ \A l \in db : l.path # d
          /\ UNCHANGED answer
      BY <1>1, <2>1 DEF Rename, IInv, Safe, HolderInv, Downloading, Publishing,
                        NewLine, reply
    <2>3. PathOf(k) = NoPath /\ \A j \in Keys : PathOf(j) # d
      BY <2>1, <2>2, CachedPath, NoPathAssumption
    <2>4. PathOf(k)' = d
      <3>1. new \in db' /\ new.key = k /\ new.path = d
        BY <2>2
      <3>2. \A l \in db' : l.key = k => l = new
        BY <2>2 DEF Cached
      <3>3. QED
        BY <3>1, <3>2 DEF PathOf, LineOf, Cached
    <2>5. ASSUME NEW j \in Keys, j # k PROVE PathOf(j)' = PathOf(j)
      <3>1. \A l : l \in db' /\ l.key = j <=> l \in db /\ l.key = j
        BY <2>2, <2>5
      <3>2. QED
        BY <3>1 DEF PathOf, LineOf, Cached
    <2>6. cacheBar' = [cacheBar EXCEPT ![k] = d]
      BY <2>4, <2>5 DEF cacheBar
    <2>7. Cache!Fill(k, d)
      BY <2>2, <2>3, <2>6 DEF Cache!Fill, cacheBar
    <2>8. QED
      BY <2>7 DEF Cache!CacheNext
  \* A hit without the lock, or the end of a download, answers the caller.
  <1>2. ASSUME NEW p \in Procs, NEW d, Return(p, d), db' = db,
               [key |-> key[p], path |-> d] \in db
        PROVE Cache!CacheNext
    <2>1. key[p] \in Keys
      BY <1>a DEF TypeOK
    <2>2. PathOf(key[p]) = d /\ d # NoPath
      <3>1. Cached(key[p])
        BY <1>2 DEF Cached
      <3>2. QED
        BY <1>2, <2>1, <3>1, CachedPath, NoPathAssumption
    <2>3. Cache!Reply(p, key[p])
      BY <1>2, <2>1, <2>2, SameLines DEF Return, Cache!Reply, cacheBar
    <2>4. QED
      BY <2>1, <2>3 DEF Cache!CacheNext
  <1>3. ASSUME NEW p \in Procs, Lookup(p)
        PROVE Cache!CacheNext \/ UNCHANGED <<cacheBar, answer>>
    <2>1. CASE Cached(key[p]) /\ Return(p, LineOf(key[p]).path)
      <3>1. [key |-> key[p], path |-> LineOf(key[p]).path] \in db
        BY <1>a, <2>1, LineOfCached DEF TypeOK
      <3>2. db' = db
        BY <1>3 DEF Lookup, files
      <3>3. QED
        BY <1>2, <2>1, <3>1, <3>2
    <2>2. CASE UNCHANGED reply
      BY <1>3, <2>2, SameLines DEF Lookup, files, reply
    <2>3. QED
      BY <1>3, <2>1, <2>2 DEF Lookup
  <1>4. ASSUME NEW p \in Procs, Unlock(p)
        PROVE Cache!CacheNext \/ UNCHANGED <<cacheBar, answer>>
    <2>1. CASE outcome[p] = "none" /\ Return(p, path[p])
      <3>1. [key |-> key[p], path |-> path[p]] \in db
        BY <1>4, <2>1 DEF Unlock, IInv, Safe, HolderInv, NewLine
      <3>2. db' = db
        BY <1>4 DEF Unlock
      <3>3. QED
        BY <1>2, <2>1, <3>1, <3>2
    <2>2. CASE UNCHANGED reply
      BY <1>4, <2>2, SameLines DEF Unlock, reply
    <2>3. QED
      BY <1>4, <2>1, <2>2 DEF Unlock
  <1>5. ASSUME NEW p \in Procs, Begin(p) \/ Crash(p) \/ Step(p),
               ~Rename(p), ~Lookup(p), ~Unlock(p)
        PROVE UNCHANGED <<cacheBar, answer>>
    <2>1. db' = db /\ answer' = answer
      BY <1>5
      DEF Begin, Crash, Step, files, reply, LookupNoFile, MakeDb, MakeDbDenied,
          TryLock, Recheck, GeneratePath, GeneratePathFails, Fetch, FetchFails,
          OpenUpdate, WriteUpdate, WriteFails
    <2>2. QED
      BY <2>1, SameLines
  <1>6. CASE UNCHANGED vars
    BY <1>6, SameLines DEF vars, files, reply
  <1>7. QED
    BY <1>1, <1>3, <1>4, <1>5, <1>6 DEF Next

\* Seen through the database file, concurrent getpath calls with their lock,
\* their failures and their crashes are fills and replies of one shared cache.
THEOREM GetpathImplementsCache == Spec => ImplementsCache
  <1>1. Init => Cache!CacheInit
    BY InitImplements
  <1>2. IInv /\ IInv' /\ [Next]_vars => [Cache!CacheNext]_<<cacheBar, answer>>
    BY StepImplements
  <1>3. QED
    BY <1>1, <1>2, Invariance, PTL DEF Spec, ImplementsCache, Cache!CacheSpec
=============================================================================
