----------------------------- MODULE Multiplexer -----------------------------
(***************************************************************************)
(* One command run for several servers (run_multi of core/main.py).  Every *)
(* server gets a child process of its own, whose output comes through a    *)
(* pipe.  A child is first watched by a multiplexer of its own, "tmp",     *)
(* until it writes the ready marker, and is then transferred to the common *)
(* one, "multi" (addtomultiafter).  The parent is a single thread; the     *)
(* children write, close their pipe and die on their own.                  *)
(*                                                                         *)
(* Output is a sequence of tokens: the text of the k-th line, the marker,  *)
(* a newline.  A child has one pipe, since run_multi sends both of its     *)
(* outputs to it.                                                          *)
(***************************************************************************)
EXTENDS Integers, Sequences, FiniteSetsExt, SequencesExt

CONSTANTS Servers,     \* the servers named on the command line, each once
          Codes,       \* the statuses of commands that fail
          Scripts,     \* the outputs a command can have
          Capacity,    \* tokens a pipe holds
          Chunk        \* tokens one read1(1000) returns at most

NL      == 0           \* a newline
Marker  == -1          \* the text of the ready marker
NoCode  == -1          \* no status collected
Mixed   == 10          \* the status of a run whose failures differ

Tokens   == Nat \cup {Marker}
Statuses == Codes \cup {0}
Muxes    == {"tmp", "multi"}

ASSUME CodesAssumption == Codes \subseteq Nat \ {0}
ASSUME ScriptsAssumption == Scripts \subseteq Seq(Tokens)
ASSUME BoundsAssumption == Capacity \in Nat \ {0} /\ Chunk \in Nat \ {0}

VARIABLES
  life,       \* per server: "unborn", "alive", "closed" (its pipe), "zombie", "reaped"
  script,     \* per server: all that its command will write
  status,     \* per server: the status its command will exit with
  sent,       \* per server: tokens written to the pipe
  got,        \* per server: tokens read from the pipe
  data,       \* per server: StreamData.data
  linecheck,  \* per server: StreamData.linecheck looks for the marker
  printed,    \* per server: its tokens on the terminal
  mux,        \* per multiplexer: its procs, streams, streamlessprocs, checkdata
  returns,    \* per multiplexer and server: returnvalues
  stage,      \* which call of process() this is
  at,         \* where in it the parent is
  ready,      \* the streams the selector reported and that are still to be read
  left,       \* the streamless processes still to be polled
  hit,        \* a linecheck found its line in this call
  result,     \* the status of the run
  warned      \* "Not all servers have returned" was printed

child  == <<life, script, status, sent>>
stream == <<got, data, linecheck, printed>>
call   == <<stage, at, ready, left, hit>>
answer == <<result, warned>>
vars   == <<child, stream, mux, returns, call, answer>>

Pipe(s) == SubSeq(script[s], got[s] + 1, sent[s])

(* The tokens that one read takes from the pipe.                           *)
Taken(s) == Min({Len(Pipe(s)), Chunk})

Current == IF stage = "await" THEN "tmp" ELSE "multi"

Empty == [procs |-> {}, streams |-> {}, streamless |-> {}, checkdata |-> {}]

-----------------------------------------------------------------------------
(* Lines in the buffered data.                                             *)

LineEnds(d) == {i \in DOMAIN d : d[i] = NL}

(* Where a marker stands alone on a complete line.                         *)
MarkerLines(d) ==
  {i \in DOMAIN d : /\ d[i] = Marker
                    /\ i + 1 \in LineEnds(d)
                    /\ (i = 1 \/ i - 1 \in LineEnds(d))}

(* What is left of the data, and what is printed of it, when its complete  *)
(* lines are consumed.  The marker's line stops the loop and is not        *)
(* printed.                                                                *)
Consumed(d, check) ==
  IF check /\ MarkerLines(d) # {}
  THEN LET i == Min(MarkerLines(d))
       IN  [out |-> SubSeq(d, 1, i - 1), data |-> SubSeq(d, i + 2, Len(d)), hit |-> TRUE]
  ELSE LET n == Max(LineEnds(d) \cup {0})
       IN  [out |-> SubSeq(d, 1, n), data |-> SubSeq(d, n + 1, Len(d)), hit |-> FALSE]

(* The part line that is printed at the end of a stream.                   *)
PartLine(d) == IF d = <<>> THEN <<>> ELSE Append(d, NL)

-----------------------------------------------------------------------------
(* The stores of a multiplexer.                                            *)

AddBareProc(m, s) == [m EXCEPT !.procs = @ \cup {s}, !.streamless = @ \cup {s}]

AddStreamUnchecked(m, s, withData) ==
  [m EXCEPT !.streams = @ \cup {s}, !.streamless = @ \ {s}]
AddStream(m, s, withData) ==
  [m EXCEPT !.streams = @ \cup {s}, !.streamless = @ \ {s},
            !.checkdata = IF withData THEN @ \cup {s} ELSE @]

RemoveStreamAndProc(m, s) ==
  [m EXCEPT !.streams = @ \ {s}, !.streamless = @ \ {s}, !.procs = @ \ {s}]
RemoveStreamOnly(m, s) == [m EXCEPT !.streams = @ \ {s}]
RemoveStream(m, s) == [m EXCEPT !.streams = @ \ {s}, !.streamless = @ \cup {s}]

RemoveProc(m, s) == [m EXCEPT !.procs = @ \ {s}, !.streamless = @ \ {s}]

-----------------------------------------------------------------------------
Init ==
  /\ life = [s \in Servers |-> "unborn"]
  /\ script \in [Servers -> Scripts]
  /\ status \in [Servers -> Statuses]
  /\ sent = [s \in Servers |-> 0]
  /\ got = [s \in Servers |-> 0]
  /\ data = [s \in Servers |-> <<>>]
  /\ linecheck = [s \in Servers |-> FALSE]
  /\ printed = [s \in Servers |-> <<>>]
  /\ mux = [m \in Muxes |-> Empty]
  /\ returns = [m \in Muxes |-> [s \in Servers |-> NoCode]]
  /\ stage = "second" /\ at = "next"
  /\ ready = {} /\ left = {} /\ hit = FALSE
  /\ result = NoCode /\ warned = FALSE

(* The next server's command is started under a multiplexer of its own.    *)
Spawn(s) ==
  /\ at = "next" /\ life[s] = "unborn"
  /\ life' = [life EXCEPT ![s] = "alive"]
  /\ mux' = [mux EXCEPT !["tmp"] = AddStream(AddBareProc(Empty, s), s, FALSE)]
  /\ returns' = [returns EXCEPT !["tmp"] = [t \in Servers |-> NoCode]]
  /\ linecheck' = [linecheck EXCEPT ![s] = TRUE]
  /\ stage' = "await" /\ at' = "check"
  /\ UNCHANGED <<script, status, sent, got, data, printed, ready, left, hit, answer>>

(* All are started: processall of the common multiplexer.                  *)
ProcessAll ==
  /\ at = "next"
  /\ \A s \in Servers : life[s] # "unborn"
  /\ stage' = "all" /\ at' = "check"
  /\ UNCHANGED <<child, stream, mux, returns, ready, left, hit, answer>>

(* Back from a call of process() that had nothing to do.  In await the     *)
(* child has finished early: tmp and the status it holds are dropped.      *)
Nothing ==
  /\ at = "check" /\ stage # "all" /\ mux[Current].procs = {}
  /\ stage' = CASE stage = "await" -> "first" [] stage = "first" -> "second" [] OTHER -> stage
  /\ at' = IF stage = "second" THEN "next" ELSE at
  /\ UNCHANGED <<child, stream, mux, returns, ready, left, hit, answer>>

(* The buffered data of transferred streams, and then the wait for events. *)
Check ==
  LET m == mux[Current]
      Line(s) == Consumed(data[s], linecheck[s])
  IN
  /\ at = "check" /\ m.procs # {}
  /\ data' = [s \in Servers |-> IF s \in m.checkdata THEN Line(s).data ELSE data[s]]
  /\ printed' = [s \in Servers |-> IF s \in m.checkdata THEN printed[s] \o Line(s).out ELSE printed[s]]
  /\ linecheck' = [s \in Servers |-> linecheck[s] /\ ~(s \in m.checkdata /\ Line(s).hit)]
  /\ hit' = \E s \in m.checkdata : Line(s).hit
  /\ mux' = [mux EXCEPT ![Current].checkdata = {}]
  /\ at' = IF m.streams = {} THEN "wait" ELSE "select"
  /\ UNCHANGED <<child, got, returns, stage, ready, left, answer>>

(* The streams with data or at their end.  Only the calls with a timeout   *)
(* return without any.                                                     *)
ReadableData(s) == Pipe(s) # <<>>
Readable(s) == Pipe(s) # <<>> \/ life[s] \in {"closed", "zombie", "reaped"}

Select ==
  LET m == mux[Current]
      S == {s \in m.streams : Readable(s)}
  IN
  /\ at = "select"
  /\ (S # {} \/ stage \in {"first", "second"})
  /\ ready' = S
  /\ left' = m.streamless
  /\ at' = "read"
  /\ UNCHANGED <<child, stream, mux, returns, stage, hit, answer>>

(* One reported stream: its lines, or its end.                             *)
Read(s) ==
  LET new == SubSeq(Pipe(s), 1, Taken(s))
      c   == Consumed(data[s] \o new, linecheck[s])
  IN
  /\ at = "read" /\ s \in ready
  /\ ready' = ready \ {s}
  /\ got' = [got EXCEPT ![s] = @ + Taken(s)]
  /\ linecheck' = [linecheck EXCEPT ![s] = @ /\ ~c.hit]
  /\ hit' = (hit \/ c.hit)
  /\ IF new # <<>>
     THEN /\ data' = [data EXCEPT ![s] = c.data]
          /\ printed' = [printed EXCEPT ![s] = @ \o c.out]
          /\ UNCHANGED <<mux, left>>
     ELSE /\ data' = [data EXCEPT ![s] = <<>>]
          /\ printed' = [printed EXCEPT ![s] = @ \o PartLine(data[s])]
          /\ mux' = [mux EXCEPT ![Current] = RemoveStream(@, s)]
          /\ left' = left \cup {s}
  /\ UNCHANGED <<child, returns, stage, at, answer>>

(* Without streams the parent waits for whichever child dies first, and    *)
(* takes its status, unless it has no child any more.                      *)
Children == {s \in Servers : life[s] \in {"alive", "closed", "zombie"}}

WaitPid ==
  /\ at = "wait"
  /\ IF Children = {}
     THEN at' = "crashed" /\ UNCHANGED <<life, left>>
     ELSE /\ \E s \in Children : life[s] = "zombie" /\ life' = [life EXCEPT ![s] = "reaped"]
          /\ left' = mux[Current].streamless
          /\ at' = "read"
  /\ UNCHANGED <<script, status, sent, stream, mux, returns, stage, ready, hit, answer>>

(* What poll() returns of a process that is gone: subprocess cannot ask    *)
(* for the status of a child that has been reaped, and takes 0.            *)
Polled(s) == IF life[s] = "zombie" THEN status[s] ELSE 0

(* One streamless process is polled.                                       *)
Poll(s) ==
  /\ at = "read" /\ ready = {} /\ s \in left
  /\ left' = left \ {s}
  /\ IF life[s] \in {"zombie", "reaped"}
     THEN /\ life' = [life EXCEPT ![s] = "reaped"]
          /\ returns' = [returns EXCEPT ![Current][s] = Polled(s)]
          /\ mux' = [mux EXCEPT ![Current] = RemoveProc(@, s)]
     ELSE UNCHANGED <<life, returns, mux>>
  /\ UNCHANGED <<script, status, sent, stream, stage, at, ready, hit, answer>>

(* The call of process() returns and the next one begins.                  *)
Return ==
  /\ at = "read" /\ ready = {} /\ left = {} /\ ~hit
  /\ stage' = IF stage = "first" THEN "second" ELSE stage
  /\ at' = IF stage = "second" THEN "next" ELSE "check"
  /\ UNCHANGED <<child, stream, mux, returns, ready, left, hit, answer>>

(* The marker was found: the process and its stream, with the data that    *)
(* follows the marker, go from tmp to multi.                               *)
Transfer(s) ==
  /\ at = "read" /\ ready = {} /\ left = {} /\ hit
  /\ s \in mux["tmp"].procs
  /\ mux' = [mux EXCEPT !["multi"] = AddStream(AddBareProc(@, s), s, TRUE),
                        !["tmp"] = RemoveProc(RemoveStream(@, s), s)]
  /\ hit' = FALSE
  /\ stage' = "first" /\ at' = "check"
  /\ UNCHANGED <<child, stream, returns, ready, left, answer>>

(* No process is left: the statuses are merged.                            *)
Values == {returns["multi"][s] : s \in Servers} \ {NoCode}

MergedAlike(V) == IF V \subseteq {0} THEN 0
                  ELSE IF \E v \in V : V = {v} THEN CHOOSE v \in V : TRUE
                  ELSE Mixed
Merged(V) == IF V \subseteq {0} THEN 0
             ELSE IF \E v \in V : V \subseteq {0, v} THEN CHOOSE v \in V \ {0} : TRUE
             ELSE Mixed

(* The servers whose end the common multiplexer has not seen.              *)
UnreturnedAnywhere == {s \in Servers : \A m \in Muxes : returns[m][s] = NoCode}
Unreturned == {s \in Servers : returns["multi"][s] = NoCode}

Finish ==
  /\ at = "check" /\ stage = "all" /\ mux["multi"].procs = {}
  /\ result' = Merged(Values)
  /\ warned' = (Unreturned # {})
  /\ at' = "over"
  /\ UNCHANGED <<child, stream, mux, returns, stage, ready, left, hit>>

-----------------------------------------------------------------------------
(* The children.                                                           *)

Write(s) ==
  /\ life[s] = "alive"
  /\ sent[s] < Len(script[s])
  /\ Len(Pipe(s)) < Capacity
  /\ sent' = [sent EXCEPT ![s] = @ + 1]
  /\ UNCHANGED <<life, script, status, stream, mux, returns, call, answer>>

(* A process that exits closes its files first and is a zombie later.      *)
Close(s) ==
  /\ life[s] = "alive" /\ sent[s] = Len(script[s])
  /\ life' = [life EXCEPT ![s] = "closed"]
  /\ UNCHANGED <<script, status, sent, stream, mux, returns, call, answer>>

Die(s) ==
  /\ life[s] = "closed"
  /\ life' = [life EXCEPT ![s] = "zombie"]
  /\ UNCHANGED <<script, status, sent, stream, mux, returns, call, answer>>

Child(s) == Write(s) \/ Close(s) \/ Die(s)

Parent ==
  \/ ProcessAll \/ Nothing \/ Check \/ Select \/ WaitPid \/ Return \/ Finish
  \/ \E s \in Servers : Spawn(s) \/ Read(s) \/ Poll(s) \/ Transfer(s)

Stopped == at \in {"over", "crashed"}

Next == Parent \/ \E s \in Servers : Child(s)

Spec == Init /\ [][Next]_vars

(* The parent runs whenever it can, and every command ends once its output *)
(* is taken.                                                               *)
FairSpec == Spec /\ WF_vars(Parent) /\ \A s \in Servers : WF_vars(Child(s))

-----------------------------------------------------------------------------
(* The variables have the types that the code gives them.                  *)
MuxType == [procs : SUBSET Servers, streams : SUBSET Servers,
            streamless : SUBSET Servers, checkdata : SUBSET Servers]

ControlType ==
  /\ life \in [Servers -> {"unborn", "alive", "closed", "zombie", "reaped"}]
  /\ script \in [Servers -> Scripts]
  /\ status \in [Servers -> Statuses]
  /\ linecheck \in [Servers -> BOOLEAN]
  /\ mux \in [Muxes -> MuxType]
  /\ returns \in [Muxes -> [Servers -> Statuses \cup {NoCode}]]
  /\ stage \in {"await", "first", "second", "all"}
  /\ at \in {"next", "check", "select", "read", "wait", "over", "crashed"}
  /\ ready \subseteq Servers /\ left \subseteq Servers
  /\ hit \in BOOLEAN /\ warned \in BOOLEAN
  /\ result \in Statuses \cup {NoCode, Mixed}

TextType ==
  /\ sent \in [Servers -> Nat] /\ got \in [Servers -> Nat]
  /\ \A s \in Servers : got[s] <= sent[s] /\ sent[s] <= Len(script[s])
  /\ data \in [Servers -> Seq(Tokens)] /\ printed \in [Servers -> Seq(Tokens)]

TypeOK == ControlType /\ TextType

(* What the first n tokens of an output should show: all but the marker's  *)
(* line, which is the first that stands alone.                             *)
MarkerBefore(w, n) == \E i \in MarkerLines(w) : i + 1 <= n

Cut(w, n) ==
  IF MarkerBefore(w, n)
  THEN LET m == Min(MarkerLines(w)) IN SubSeq(w, 1, m - 1) \o SubSeq(w, m + 2, n)
  ELSE SubSeq(w, 1, n)

(* What a reader of the terminal should see of a server: its whole output, *)
(* in order and once, without the marker and with its last line ended.     *)
Ended(text) == IF text = <<>> \/ text[Len(text)] = NL THEN text ELSE Append(text, NL)

Shown(s) == Ended(Cut(script[s], Len(script[s])))

(* However the chunks cut the lines, and whatever was buffered when the    *)
(* stream was transferred, the terminal has a prefix of that output, and   *)
(* all of it when the process has been taken off both multiplexers.        *)
OutputIsWhole ==
  \A s \in Servers :
    /\ IsPrefix(printed[s], Shown(s))
    /\ life[s] # "unborn" /\ (\A m \in Muxes : s \notin mux[m].procs) => printed[s] = Shown(s)

(* What the parent has read of the command holds its marker's line.        *)
MarkerRead(s) == MarkerBefore(script[s], got[s])

(* A run that is over leaves neither a running command nor a zombie.       *)
NobodyLeftBehind == at = "over" => \A s \in Servers : life[s] = "reaped"

(* A failure the run reports is one of its commands' own, and the status   *)
(* for mixed failures stands for commands that failed differently.         *)
FailuresAreReal ==
  /\ result \in Codes \ {Mixed} => \E s \in Servers : status[s] = result
  /\ result = Mixed => \E s \in Servers : status[s] = Mixed \/
                         \E t \in Servers : {status[s], status[t]} \subseteq Codes /\ status[s] # status[t]

(* A run that is over without the warning has collected the end of every   *)
(* command that showed its marker, and every command did.                  *)
SilenceMeansReady ==
  at = "over" /\ ~warned => \A s \in Servers : MarkerRead(s)

(* "Return and clear the collected subprocess exit codes" (the docstring   *)
(* of checkreturnvalues): a collected status is the one that the command   *)
(* exited with.                                                            *)
ReturnsAreTrue ==
  \A s \in Servers : returns["multi"][s] \in {NoCode, status[s]}

(* Parent and children never wait for each other.  Where select blocks, a  *)
(* stream that it asks for is readable, or its command can write or close  *)
(* it; where waitpid blocks, a child has closed its pipe and will die,     *)
(* whatever other children are blocked on pipes that nobody reads then.    *)
Busy(s) == life[s] = "alive" /\ (sent[s] = Len(script[s]) \/ Len(Pipe(s)) < Capacity)

WaitsAreAnswered ==
  /\ at = "select" => \E s \in mux[Current].streams : Readable(s) \/ Busy(s)
  /\ at = "wait" /\ Children # {} => \E s \in Children : life[s] \in {"closed", "zombie"}

(* However small the pipes are against the output, no command is left      *)
(* blocked on its pipe and the run comes to an end.                        *)
RunEnds == <>Stopped
=============================================================================
