--------------------------- MODULE DownloadCache ---------------------------
(***************************************************************************)
(* What the shared download cache promises its callers: a table from       *)
(* requests (a downloader module with its arguments) to directories, which *)
(* only grows, never gives one directory to two requests, and out of which *)
(* every path handed to a caller comes.  Locks, files, users and crashes   *)
(* do not appear here: Downloader.tla has them and implements this module. *)
(***************************************************************************)
CONSTANTS Procs,        \* the processes that call getpath
          Keys,         \* the requests: a module and its quoted arguments
          Paths,        \* directories below TARGET_PATH
          NoPath        \* "no directory yet"

VARIABLES cache,        \* [Keys -> Paths or NoPath]
          answer        \* [Procs -> the request and path of the last answer]

NoAnswer == [key |-> NoPath, path |-> NoPath]

CacheInit ==
  /\ cache = [k \in Keys |-> NoPath]
  /\ answer = [p \in Procs |-> NoAnswer]

Fill(k, d) ==
  /\ cache[k] = NoPath
  /\ \A j \in Keys : cache[j] # d
  /\ cache' = [cache EXCEPT ![k] = d]
  /\ UNCHANGED answer

Reply(p, k) ==
  /\ cache[k] # NoPath
  /\ answer' = [answer EXCEPT ![p] = [key |-> k, path |-> cache[k]]]
  /\ UNCHANGED cache

CacheNext ==
  \/ \E k \in Keys, d \in Paths : Fill(k, d)
  \/ \E p \in Procs, k \in Keys : Reply(p, k)
  
CacheSpec == CacheInit /\ [][CacheNext]_<<cache, answer>>
=============================================================================
