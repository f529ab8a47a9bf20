-------------------------- MODULE MultiplexerProofs --------------------------
(***************************************************************************)
(* Theorems about Multiplexer.tla, for any set of servers, any output of   *)
(* their commands, pipes and chunks of any size.  The control comes first, *)
(* then what an output is cut into, and then the text that each step of    *)
(* the parent and of the children moves.                                   *)
(***************************************************************************)
EXTENDS Multiplexer, SequenceTheorems, WellFoundedInduction, TLAPS

USE CodesAssumption

(* Every child that is not reaped is known to one of the multiplexers, and *)
(* tmp has at most one, while its marker is awaited.                       *)
Known ==
  \A s \in Servers : life[s] \in {"alive", "closed", "zombie"} =>
                       s \in mux["tmp"].procs \cup mux["multi"].procs

Awaited ==
  /\ stage # "await" => mux["tmp"].procs = {}
  /\ \A s, t \in mux["tmp"].procs : s = t

(* Where the parent is, and what it has done by then.                      *)
Phase ==
  /\ at = "next" => stage = "second"
  /\ stage = "all" => \A s \in Servers : life[s] # "unborn"
  /\ at = "over" => stage = "all" /\ mux["multi"].procs = {}

(* A collected status is the command's own, or the 0 of a reaped child.    *)
Collected ==
  \A m \in Muxes, s \in Servers : returns[m][s] \in {NoCode, 0, status[s]}

IInv == ControlType /\ Known /\ Awaited /\ Phase /\ Collected /\ FailuresAreReal

(* The stores of a multiplexer keep their types.                           *)
LEMMA StoreTypes ==
  ASSUME NEW m \in MuxType, NEW s \in Servers, NEW b \in BOOLEAN
  PROVE  /\ AddBareProc(m, s) \in MuxType /\ AddStream(m, s, b) \in MuxType
         /\ RemoveStream(m, s) \in MuxType /\ RemoveProc(m, s) \in MuxType
         /\ Empty \in MuxType
  BY DEF MuxType, AddBareProc, AddStream, RemoveStream, RemoveProc, Empty

(* Which processes a store has after each operation.                       *)
LEMMA StoreProcs ==
  ASSUME NEW m \in MuxType, NEW s \in Servers, NEW b \in BOOLEAN
  PROVE  /\ AddBareProc(m, s).procs = m.procs \cup {s}
         /\ AddStream(m, s, b).procs = m.procs
         /\ RemoveStream(m, s).procs = m.procs
         /\ RemoveProc(m, s).procs = m.procs \ {s}
         /\ Empty.procs = {}
  BY DEF MuxType, AddBareProc, AddStream, RemoveStream, RemoveProc, Empty

(* The two halves of a transfer.                                           *)
LEMMA TransferStores ==
  ASSUME NEW m \in MuxType, NEW s \in Servers
  PROVE  /\ AddStream(AddBareProc(m, s), s, TRUE) \in MuxType
         /\ AddStream(AddBareProc(m, s), s, TRUE).procs = m.procs \cup {s}
         /\ RemoveProc(RemoveStream(m, s), s) \in MuxType
         /\ RemoveProc(RemoveStream(m, s), s).procs = m.procs \ {s}
  <1>1. PICK a : a = AddBareProc(m, s)
    OBVIOUS
  <1>2. PICK r : r = RemoveStream(m, s)
    OBVIOUS
  <1>3. a \in MuxType /\ a.procs = m.procs \cup {s}
    BY <1>1, StoreTypes, StoreProcs
  <1>4. r \in MuxType /\ r.procs = m.procs
    BY <1>2, StoreTypes, StoreProcs
  <1>5. AddStream(a, s, TRUE) \in MuxType /\ AddStream(a, s, TRUE).procs = a.procs
    BY <1>3, StoreTypes, StoreProcs
  <1>6. RemoveProc(r, s) \in MuxType /\ RemoveProc(r, s).procs = r.procs \ {s}
    BY <1>4, StoreTypes, StoreProcs
  <1>7. QED
    BY <1>1, <1>2, <1>3, <1>4, <1>5, <1>6

(* Replacing the store of one multiplexer.                                 *)
LEMMA OneStore ==
  ASSUME mux \in [Muxes -> MuxType], NEW n \in Muxes, NEW m \in MuxType,
         mux' = [mux EXCEPT ![n] = m]
  PROVE  /\ mux' \in [Muxes -> MuxType] /\ mux'[n] = m
         /\ \A k \in Muxes \ {n} : mux'[k] = mux[k]
  OBVIOUS

LEMMA CurrentMux == Current \in Muxes
  BY DEF Current, Muxes

(* Merging: the merged status is 0, a failure that occurred, or Mixed for  *)
(* two different failures.                                                 *)
LEMMA MergedIsReal ==
  ASSUME NEW V, V \subseteq Statuses
  PROVE  \/ Merged(V) = 0
         \/ Merged(V) \in V \ {0}
         \/ Merged(V) = Mixed /\ \E v, w \in V \ {0} : v # w
  <1>1. CASE V \subseteq {0}
    BY <1>1 DEF Merged
  <1>2. CASE ~(V \subseteq {0}) /\ \E v \in V : V \subseteq {0, v}
    <2>1. \E v \in V \ {0} : TRUE
      BY <1>2
    <2>2. Merged(V) = CHOOSE v \in V \ {0} : TRUE
      BY <1>2 DEF Merged
    <2>3. (CHOOSE v \in V \ {0} : TRUE) \in V \ {0}
      BY <2>1
    <2>4. QED
      BY <2>2, <2>3
  <1>3. CASE ~(V \subseteq {0}) /\ ~\E v \in V : V \subseteq {0, v}
    <2>1. PICK v \in V : v # 0
      BY <1>3
    <2>2. PICK w \in V : w # 0 /\ w # v
      BY <1>3, <2>1
    <2>3. Merged(V) = Mixed
      BY <1>3 DEF Merged
    <2>4. QED
      BY <2>1, <2>2, <2>3
  <1>4. QED
    BY <1>1, <1>2, <1>3

LEMMA InitOK == Init => IInv
  <1> SUFFICES ASSUME Init PROVE IInv
    OBVIOUS
  <1>1. Empty \in MuxType /\ Empty.procs = {}
    BY DEF Empty, MuxType
  <1>2. ControlType
    BY <1>1 DEF Init, ControlType, Statuses
  <1>3. Known /\ Awaited /\ Phase /\ Collected
    BY <1>1 DEF Init, Known, Awaited, Phase, Collected, Muxes
  <1>4. FailuresAreReal
    BY DEF Init, FailuresAreReal, NoCode, Mixed
  <1>5. QED
    BY <1>2, <1>3, <1>4 DEF IInv

-----------------------------------------------------------------------------
(* Each action.  Facts about the status and the result that no action but  *)
(* Finish touches.                                                         *)
LEMMA ResultKept ==
  ASSUME FailuresAreReal, UNCHANGED <<status, result>>
  PROVE  FailuresAreReal'
  BY DEF FailuresAreReal

LEMMA ReturnsKept ==
  ASSUME Collected, UNCHANGED <<status, returns>>
  PROVE  Collected'
  BY DEF Collected

LEMMA SpawnOK == ASSUME IInv, NEW s \in Servers, Spawn(s) PROVE IInv'
  <1> USE DEF IInv, Spawn
  <1> DEFINE m == AddStream(AddBareProc(Empty, s), s, FALSE)
  <1>1. m \in MuxType /\ m.procs = {s}
    BY DEF AddStream, AddBareProc, Empty, MuxType
  <1> HIDE DEF m
  <1>2. mux' = [mux EXCEPT !["tmp"] = m]
    BY DEF m
  <1>3. /\ mux'["tmp"] = m /\ mux'["multi"] = mux["multi"]
        /\ mux' \in [Muxes -> MuxType]
    <2>1. mux \in [Muxes -> MuxType] /\ "tmp" \in Muxes /\ "multi" \in Muxes \ {"tmp"}
      BY DEF ControlType, Muxes
    <2>2. QED
      BY <1>1, <1>2, <2>1, OneStore
  <1>4. mux["tmp"].procs = {}
    BY DEF Awaited, Phase
  <1>5. ControlType'
    BY <1>3 DEF ControlType, answer
  <1>6. Known'
    BY <1>1, <1>3, <1>4 DEF Known, ControlType
  <1>7. Awaited'
    BY <1>1, <1>3 DEF Awaited
  <1>8. Phase'
    BY DEF Phase
  <1>9. Collected'
    BY DEF Collected, ControlType, Muxes
  <1>10. FailuresAreReal'
    BY ResultKept DEF answer
  <1>11. QED
    BY <1>5, <1>6, <1>7, <1>8, <1>9, <1>10

LEMMA ProcessAllOK == ASSUME IInv, ProcessAll PROVE IInv'
  <1> USE DEF IInv, ProcessAll, child, stream, answer
  <1>1. ControlType' /\ Known' /\ Awaited' /\ Phase'
    BY DEF ControlType, Known, Awaited, Phase
  <1>2. QED
    BY <1>1, ResultKept, ReturnsKept

LEMMA NothingOK == ASSUME IInv, Nothing PROVE IInv'
  <1> USE DEF IInv, Nothing, child, stream, answer
  <1>1. ControlType'
    BY DEF ControlType
  <1>2. Known' /\ Awaited' /\ Phase'
    BY DEF ControlType, Known, Awaited, Phase, Current
  <1>3. QED
    BY <1>1, <1>2, ResultKept, ReturnsKept

LEMMA CheckOK == ASSUME IInv, Check PROVE IInv'
  <1> USE DEF IInv, child, answer
  <1>1. /\ at = "check" /\ at' \in {"wait", "select"}
        /\ linecheck' \in [Servers -> BOOLEAN]
        /\ hit' \in BOOLEAN
        /\ mux' = [mux EXCEPT ![Current].checkdata = {}]
        /\ UNCHANGED <<child, returns, stage, ready, left, answer>>
    BY DEF Check
  <1>2. /\ mux' \in [Muxes -> MuxType]
        /\ \A m \in Muxes : mux'[m].procs = mux[m].procs
    <2>1. mux \in [Muxes -> MuxType] /\ mux[Current] \in MuxType
      BY CurrentMux DEF ControlType
    <2>2. /\ [mux[Current] EXCEPT !.checkdata = {}] \in MuxType
          /\ [mux[Current] EXCEPT !.checkdata = {}].procs = mux[Current].procs
      BY <2>1 DEF MuxType
    <2>3. mux' = [mux EXCEPT ![Current] = [mux[Current] EXCEPT !.checkdata = {}]]
      BY <1>1
    <2>4. QED
      BY <2>1, <2>2, <2>3, CurrentMux
  <1>3. mux'["tmp"].procs = mux["tmp"].procs /\ mux'["multi"].procs = mux["multi"].procs
    BY <1>2 DEF Muxes
  <1>4. ControlType' /\ Known' /\ Awaited'
    BY <1>1, <1>2, <1>3 DEF ControlType, Known, Awaited
  <1>5. Phase'
    BY <1>1, <1>3 DEF Phase, Check
  <1>6. QED
    BY <1>1, <1>4, <1>5, ResultKept, ReturnsKept

LEMMA SelectOK == ASSUME IInv, Select PROVE IInv'
  <1> USE DEF IInv, child, stream, answer
  <1>1. /\ at = "select" /\ at' = "read"
        /\ ready' \subseteq mux[Current].streams /\ left' = mux[Current].streamless
        /\ UNCHANGED <<child, stream, mux, returns, stage, hit, answer>>
    BY DEF Select
  <1>2. mux[Current].streams \subseteq Servers /\ mux[Current].streamless \subseteq Servers
    BY CurrentMux DEF ControlType, MuxType
  <1>3. ControlType'
    BY <1>1, <1>2 DEF ControlType
  <1>4. Known' /\ Awaited' /\ Phase'
    BY <1>1 DEF Known, Awaited, Phase
  <1>5. QED
    BY <1>1, <1>3, <1>4, ResultKept, ReturnsKept

(* At the end of a stream the process stays where it is.                   *)
LEMMA ReadOK == ASSUME IInv, NEW s \in Servers, Read(s) PROVE IInv'
  <1> USE DEF IInv, child, answer
  <1>1. /\ ready' \subseteq ready /\ left' \in {left, left \cup {s}}
        /\ hit' \in BOOLEAN /\ linecheck' \in [Servers -> BOOLEAN]
        /\ mux' = mux \/ mux' = [mux EXCEPT ![Current] = RemoveStream(@, s)]
        /\ UNCHANGED <<child, returns, stage, at, answer>>
        /\ at = "read"
    <2>1. ready' = ready \ {s} /\ at = "read" /\ UNCHANGED <<child, returns, stage, at, answer>>
      BY DEF Read
    <2>2. \E c \in BOOLEAN : /\ hit' = (hit \/ c)
                             /\ linecheck' = [linecheck EXCEPT ![s] = @ /\ ~c]
      BY DEF Read, Consumed
    <2>3. hit' \in BOOLEAN /\ linecheck' \in [Servers -> BOOLEAN]
      BY <2>2 DEF ControlType
    <2>4. \/ mux' = mux /\ left' = left
          \/ mux' = [mux EXCEPT ![Current] = RemoveStream(@, s)] /\ left' = left \cup {s}
      BY DEF Read
    <2>5. QED
      BY <2>1, <2>3, <2>4
  <1>2. mux' \in [Muxes -> MuxType] /\ \A m \in Muxes : mux'[m].procs = mux[m].procs
    <2>1. CASE mux' = mux
      BY <2>1 DEF ControlType
    <2>2. CASE mux' = [mux EXCEPT ![Current] = RemoveStream(@, s)]
      <3>1. mux \in [Muxes -> MuxType] /\ mux[Current] \in MuxType
        BY CurrentMux DEF ControlType
      <3>2. /\ RemoveStream(mux[Current], s) \in MuxType
            /\ RemoveStream(mux[Current], s).procs = mux[Current].procs
        BY <3>1, StoreTypes, StoreProcs
      <3>3. QED
        BY <2>2, <3>1, <3>2, CurrentMux
    <2>3. QED
      BY <1>1, <2>1, <2>2
  <1>3. mux'["tmp"].procs = mux["tmp"].procs /\ mux'["multi"].procs = mux["multi"].procs
    BY <1>2 DEF Muxes
  <1>4. ControlType'
    BY <1>1, <1>2 DEF ControlType
  <1>5. Known' /\ Awaited' /\ Phase'
    BY <1>1, <1>3 DEF Known, Awaited, Phase
  <1>6. QED
    BY <1>1, <1>4, <1>5, ResultKept, ReturnsKept

LEMMA WaitPidOK == ASSUME IInv, WaitPid PROVE IInv'
  <1> USE DEF IInv, stream, answer
  <1>1. /\ at = "wait" /\ at' \in {"crashed", "read"}
        /\ left' \in {left, mux[Current].streamless}
        /\ life' = life \/ \E s \in Servers : life[s] = "zombie" /\ life' = [life EXCEPT ![s] = "reaped"]
        /\ UNCHANGED <<script, status, sent, stream, mux, returns, stage, ready, hit, answer>>
    BY DEF WaitPid, Children
  <1>2. mux[Current].streamless \subseteq Servers
    BY CurrentMux DEF ControlType, MuxType
  <1>3. /\ life' \in [Servers -> {"unborn", "alive", "closed", "zombie", "reaped"}]
        /\ \A s \in Servers : life'[s] = life[s] \/ life'[s] = "reaped"
    BY <1>1 DEF ControlType
  <1>4. ControlType'
    BY <1>1, <1>2, <1>3 DEF ControlType
  <1>5. Known' /\ Awaited'
    BY <1>1, <1>3 DEF Known, Awaited
  <1>6. Phase'
    BY <1>1, <1>3 DEF Phase
  <1>7. QED
    BY <1>1, <1>4, <1>5, <1>6, ResultKept, ReturnsKept

(* A process is dropped when it has been reaped.                           *)
LEMMA PollOK == ASSUME IInv, NEW s \in Servers, Poll(s) PROVE IInv'
  <1> USE DEF IInv, stream, answer
  <1>1. /\ at = "read" /\ left' \subseteq left
        /\ UNCHANGED <<script, status, sent, stream, stage, at, ready, hit, answer>>
    BY DEF Poll
  <1>2. CASE UNCHANGED <<life, returns, mux>>
    <2>1. ControlType' /\ Known' /\ Awaited' /\ Phase'
      BY <1>1, <1>2 DEF ControlType, Known, Awaited, Phase
    <2>2. QED
      BY <1>1, <1>2, <2>1, ResultKept, ReturnsKept
  <1>3. CASE /\ life[s] \in {"zombie", "reaped"}
             /\ life' = [life EXCEPT ![s] = "reaped"]
             /\ returns' = [returns EXCEPT ![Current][s] = Polled(s)]
             /\ mux' = [mux EXCEPT ![Current] = RemoveProc(@, s)]
    <2>1. mux \in [Muxes -> MuxType] /\ mux[Current] \in MuxType /\ Current \in Muxes
      BY CurrentMux DEF ControlType
    <2>2. /\ RemoveProc(mux[Current], s) \in MuxType
          /\ RemoveProc(mux[Current], s).procs = mux[Current].procs \ {s}
      BY <2>1, StoreTypes, StoreProcs
    <2>3. /\ mux' \in [Muxes -> MuxType]
          /\ \A m \in Muxes : mux[m].procs \ {s} \subseteq mux'[m].procs
          /\ \A m \in Muxes : mux'[m].procs \subseteq mux[m].procs
      BY <1>3, <2>1, <2>2
    <2>4. /\ mux["tmp"].procs \ {s} \subseteq mux'["tmp"].procs
          /\ mux["multi"].procs \ {s} \subseteq mux'["multi"].procs
          /\ mux'["tmp"].procs \subseteq mux["tmp"].procs
      BY <2>3 DEF Muxes
    <2>5. life' \in [Servers -> {"unborn", "alive", "closed", "zombie", "reaped"}]
          /\ life'[s] = "reaped" /\ \A t \in Servers \ {s} : life'[t] = life[t]
      BY <1>3 DEF ControlType
    <2>6. Polled(s) \in {0, status[s]} /\ Polled(s) \in Statuses
      BY DEF Polled, ControlType, Statuses
    <2>7. /\ returns' \in [Muxes -> [Servers -> Statuses \cup {NoCode}]]
          /\ \A m \in Muxes, t \in Servers : returns'[m][t] \in {returns[m][t]} \cup {Polled(u) : u \in {s} \cap {t}}
      BY <1>3, <2>1, <2>6 DEF ControlType
    <2>8. ControlType'
      BY <1>1, <2>3, <2>5, <2>7 DEF ControlType
    <2>9. Known'
      BY <2>4, <2>5 DEF Known
    <2>10. Awaited' /\ Phase'
      BY <1>1, <2>4, <2>5 DEF Awaited, Phase
    <2>11. Collected'
      BY <1>1, <2>6, <2>7 DEF Collected
    <2>12. QED
      BY <1>1, <2>8, <2>9, <2>10, <2>11, ResultKept
  <1>4. QED
    BY <1>2, <1>3 DEF Poll

LEMMA ReturnOK == ASSUME IInv, Return PROVE IInv'
  <1> USE DEF IInv, Return, child, stream, answer
  <1>1. ControlType' /\ Known' /\ Awaited' /\ Phase'
    BY DEF ControlType, Known, Awaited, Phase
  <1>2. QED
    BY <1>1, ResultKept, ReturnsKept

(* The awaited process is tmp's only one, so tmp is left without any.      *)
LEMMA TransferOK == ASSUME IInv, NEW s \in Servers, Transfer(s) PROVE IInv'
  <1> USE DEF IInv, child, stream, answer
  <1> DEFINE to   == AddStream(AddBareProc(mux["multi"], s), s, TRUE)
             from == RemoveProc(RemoveStream(mux["tmp"], s), s)
  <1>1. mux["tmp"] \in MuxType /\ mux["multi"] \in MuxType /\ mux \in [Muxes -> MuxType]
    BY DEF ControlType, Muxes
  <1>2. to \in MuxType /\ to.procs = mux["multi"].procs \cup {s}
    BY <1>1, TransferStores
  <1>3. from \in MuxType /\ from.procs = mux["tmp"].procs \ {s}
    BY <1>1, TransferStores
  <1>4. mux' = [mux EXCEPT !["multi"] = to, !["tmp"] = from]
    BY DEF Transfer
  <1> HIDE DEF to, from
  <1>5. mux' \in [Muxes -> MuxType] /\ mux'["tmp"] = from /\ mux'["multi"] = to
    BY <1>1, <1>2, <1>3, <1>4 DEF Muxes
  <1>6. /\ s \in mux["tmp"].procs /\ hit' = FALSE /\ stage' = "first" /\ at' = "check"
        /\ UNCHANGED <<child, stream, returns, ready, left, answer>>
    BY DEF Transfer
  <1>7. ControlType'
    BY <1>5, <1>6 DEF ControlType
  <1>8. Known'
    BY <1>2, <1>3, <1>5, <1>6 DEF Known
  <1>9. Awaited'
    BY <1>3, <1>5, <1>6 DEF Awaited
  <1>10. Phase'
    BY <1>6 DEF Phase
  <1>11. QED
    BY <1>6, <1>7, <1>8, <1>9, <1>10, ResultKept, ReturnsKept

(* The merged status comes from the statuses of commands.                  *)
LEMMA FinishOK == ASSUME IInv, Finish PROVE IInv'
  <1> USE DEF IInv, child, stream
  <1>1. Values \subseteq Statuses
    BY DEF Values, ControlType, Muxes
  <1>2. \A v \in Values \ {0} : \E s \in Servers : v = status[s] /\ v \in Codes
    BY <1>1 DEF Values, Collected, Muxes, Statuses
  <1>3. /\ at' = "over" /\ stage = "all" /\ mux["multi"].procs = {}
        /\ result' = Merged(Values) /\ warned' \in BOOLEAN
        /\ UNCHANGED <<child, stream, mux, returns, stage, ready, left, hit>>
    BY DEF Finish
  <1>4. \/ Merged(Values) = 0
        \/ Merged(Values) \in Values \ {0}
        \/ Merged(Values) = Mixed /\ \E v, w \in Values \ {0} : v # w
    BY <1>1, MergedIsReal
  <1>5. ControlType'
    BY <1>1, <1>3, <1>4 DEF ControlType, Statuses
  <1>6. Known' /\ Awaited' /\ Phase'
    BY <1>3 DEF Known, Awaited, Phase
  <1>7. FailuresAreReal'
    <2>1. CASE Merged(Values) = 0
      BY <1>3, <2>1 DEF FailuresAreReal, Mixed
    <2>2. CASE Merged(Values) \in Values \ {0}
      <3>1. PICK s \in Servers : Merged(Values) = status[s]
        BY <1>2, <2>2
      <3>2. result' = status'[s] /\ s \in Servers
        BY <1>3, <3>1
      <3>3. QED
        BY <3>2 DEF FailuresAreReal
    <2>3. CASE Merged(Values) = Mixed /\ \E v, w \in Values \ {0} : v # w
      <3>1. PICK v, w \in Values \ {0} : v # w
        BY <2>3
      <3>2. PICK s \in Servers : v = status[s] /\ v \in Codes
        BY <1>2, <3>1
      <3>3. PICK t \in Servers : w = status[t] /\ w \in Codes
        BY <1>2, <3>1
      <3>4. {status'[s], status'[t]} \subseteq Codes /\ status'[s] # status'[t]
        BY <1>3, <3>1, <3>2, <3>3
      <3>5. result' = Mixed
        BY <1>3, <2>3
      <3>6. QED
        BY <3>4, <3>5 DEF FailuresAreReal
    <2>4. QED
      BY <1>4, <2>1, <2>2, <2>3
  <1>8. QED
    BY <1>3, <1>5, <1>6, <1>7, ReturnsKept

LEMMA ChildOK == ASSUME IInv, NEW s \in Servers, Child(s) PROVE IInv'
  <1> USE DEF IInv, stream, call, answer
  <1>1. /\ UNCHANGED <<script, status, stream, mux, returns, call, answer>>
        /\ \/ life' = life
           \/ life[s] = "alive" /\ life' = [life EXCEPT ![s] = "closed"]
           \/ life[s] = "closed" /\ life' = [life EXCEPT ![s] = "zombie"]
    BY DEF Child, Write, Close, Die
  <1>2. ControlType' /\ Known' /\ Awaited'
    BY <1>1 DEF ControlType, Known, Awaited
  <1>3. Phase'
    BY <1>1 DEF Phase, ControlType
  <1>4. QED
    BY <1>1, <1>2, <1>3, ResultKept, ReturnsKept

LEMMA StepOK == IInv /\ [Next]_vars => IInv'
  <1> SUFFICES ASSUME IInv, [Next]_vars PROVE IInv'
    OBVIOUS
  <1>1. CASE Next
    BY <1>1, ProcessAllOK, NothingOK, CheckOK, SelectOK, WaitPidOK, ReturnOK, FinishOK,
       SpawnOK, ReadOK, PollOK, TransferOK, ChildOK DEF Next, Parent
  <1>2. CASE UNCHANGED vars
    BY <1>2 DEF vars, child, stream, call, answer, IInv, ControlType, Known, Awaited,
                Phase, Collected, FailuresAreReal
  <1>3. QED
    BY <1>1, <1>2

LEMMA Invariant == Spec => []IInv
  BY InitOK, StepOK, PTL DEF Spec

-----------------------------------------------------------------------------
(* An output and its parts.  A position is at a line when a line begins    *)
(* behind it.                                                              *)
AtLine(w, n) == n = 0 \/ w[n] = NL

LEMMA Smallest == ASSUME NEW T, T \subseteq Nat, T # {} PROVE \E x \in T : \A y \in T : x <= y
  <1>1. PICK R : R = OpToRel(<, Nat)
    OBVIOUS
  <1>2. \A a, b \in Nat : a < b => <<a, b>> \in R
    BY <1>1 DEF OpToRel
  <1>3. IsWellFoundedOn(R, Nat)
    BY <1>1, NatLessThanWellFounded
  <1>4. PICK x \in T : \A y \in T : ~(<<y, x>> \in R)
    BY <1>3, WFMin
  <1>5. ASSUME NEW y \in T PROVE x <= y
    <2>1. x \in Nat /\ y \in Nat
      OBVIOUS
    <2>2. ~(y < x)
      BY <1>2, <1>4, <2>1
    <2>3. QED
      BY <2>1, <2>2
  <1>6. QED
    BY <1>5

LEMMA MinOf ==
  ASSUME NEW T, T \subseteq Nat, T # {}
  PROVE  Min(T) \in T /\ \A y \in T : Min(T) <= y
  BY Smallest DEF Min

LEMMA MaxOf ==
  ASSUME NEW n \in Nat, NEW T, T \subseteq 0..n, T # {}
  PROVE  Max(T) \in T /\ \A y \in T : y <= Max(T)
  <1> DEFINE U == {n - x : x \in T}
  <1>1. U \subseteq Nat /\ U # {}
    <2>1. \A x \in T : n - x \in Nat
      OBVIOUS
    <2>2. QED
      BY <2>1
  <1>2. PICK u \in U : \A v \in U : u <= v
    BY <1>1, Smallest
  <1>3. PICK x \in T : u = n - x
    BY <1>2
  <1>4. ASSUME NEW y \in T PROVE x >= y
    <2>1. n - y \in U
      OBVIOUS
    <2>2. n - x <= n - y
      BY <1>2, <1>3, <2>1
    <2>3. x \in Int /\ y \in Int
      OBVIOUS
    <2>4. QED
      BY <2>2, <2>3
  <1>5. Max(T) \in T /\ \A y \in T : Max(T) >= y
    BY <1>4 DEF Max
  <1>6. \A y \in T : y \in Int /\ (Max(T) >= y <=> y <= Max(T))
    BY <1>5
  <1>7. QED
    BY <1>5, <1>6

LEMMA Associates == \A x, y, z \in Seq(Tokens) : (x \o y) \o z = x \o (y \o z)
  BY ConcatAssociative

(* Parts of an output.                                                     *)
LEMMA Part ==
  ASSUME NEW w \in Seq(Tokens), NEW n \in Nat, NEW k \in Nat, n <= k, k <= Len(w)
  PROVE  /\ SubSeq(w, n + 1, k) \in Seq(Tokens) /\ Len(SubSeq(w, n + 1, k)) = k - n
         /\ \A i \in 1..(k - n) : SubSeq(w, n + 1, k)[i] = w[n + i]
  <1>1. PICK m \in Int : m = n + 1
    OBVIOUS
  <1>2. \A i \in m..k : w[i] \in Tokens
    BY <1>1, ElementOfSeq
  <1>3. /\ SubSeq(w, m, k) \in Seq(Tokens)
        /\ Len(SubSeq(w, m, k)) = IF m <= k THEN k - m + 1 ELSE 0
        /\ \A i \in 1..(k - m + 1) : SubSeq(w, m, k)[i] = w[m + i - 1]
    BY <1>2, SubSeqProperties
  <1>4. ASSUME NEW i \in 1..(k - n) PROVE SubSeq(w, m, k)[i] = w[n + i]
    <2>1. k - n = k - m + 1 /\ m + i - 1 = n + i
      BY <1>1
    <2>2. QED
      BY <1>3, <2>1
  <1>5. Len(SubSeq(w, m, k)) = k - n
    BY <1>1, <1>3
  <1>6. QED
    BY <1>1, <1>3, <1>4, <1>5

LEMMA PartOfPart ==
  ASSUME NEW w \in Seq(Tokens), NEW n \in Nat, NEW k \in Nat, n <= k, k <= Len(w),
         NEW a \in Nat, NEW b \in Nat, a <= b, b <= k - n
  PROVE  SubSeq(SubSeq(w, n + 1, k), a + 1, b) = SubSeq(w, (n + a) + 1, n + b)
  <1>1. PICK d : d = SubSeq(w, n + 1, k)
    OBVIOUS
  <1>2. d \in Seq(Tokens) /\ Len(d) = k - n /\ \A i \in 1..(k - n) : d[i] = w[n + i]
    BY <1>1, Part
  <1>3. PICK e : e = SubSeq(d, a + 1, b)
    OBVIOUS
  <1>4. e \in Seq(Tokens) /\ Len(e) = b - a /\ \A i \in 1..(b - a) : e[i] = d[a + i]
    BY <1>2, <1>3, Part
  <1>5. PICK p \in Nat, q \in Nat : p = n + a /\ q = n + b
    OBVIOUS
  <1>6. PICK f : f = SubSeq(w, p + 1, q)
    OBVIOUS
  <1>7. p <= q /\ q <= Len(w) /\ q - p = b - a
    <2>1. Len(w) \in Nat
      BY LenProperties
    <2>2. QED
      BY <1>5, <2>1
  <1>8. f \in Seq(Tokens) /\ Len(f) = b - a /\ \A i \in 1..(b - a) : f[i] = w[p + i]
    BY <1>6, <1>7, Part
  <1>9. ASSUME NEW i \in 1..(b - a) PROVE e[i] = f[i]
    <2>1. a + i \in 1..(k - n) /\ n + (a + i) = p + i
      BY <1>5
    <2>2. QED
      BY <1>2, <1>4, <1>8, <2>1
  <1>10. e = f
    BY <1>4, <1>8, <1>9, SeqEqual
  <1>11. QED
    BY <1>1, <1>3, <1>5, <1>6, <1>10

LEMMA PartsJoin ==
  ASSUME NEW w \in Seq(Tokens), NEW n \in Nat, NEW j \in Nat, NEW k \in Nat, n <= j, j <= k, k <= Len(w)
  PROVE  SubSeq(w, n + 1, j) \o SubSeq(w, j + 1, k) = SubSeq(w, n + 1, k)
  <1>1. Len(w) \in Nat
    BY LenProperties
  <1>2. PICK m \in Int : m = n + 1
    OBVIOUS
  <1>3. m \in 1..Len(w) + 1 /\ j \in m - 1..Len(w) /\ k \in j..Len(w)
    BY <1>1, <1>2
  <1>4. QED
    BY <1>2, <1>3, ConcatAdjacentSubSeq

(* The lines of a part that begins where a line does are those of the      *)
(* output.                                                                 *)
SameLines(w, n, k, d) ==
  /\ \A i \in Int : i \in LineEnds(d) <=> i \in 1..(k - n) /\ w[n + i] = NL
  /\ \A i \in 1..Len(w) : i \in MarkerLines(d) <=> n + i \in MarkerLines(w) /\ n + i + 1 <= k
  /\ MarkerLines(d) \subseteq 1..Len(w) /\ LineEnds(d) \subseteq 1..(k - n)

LEMMA PartLines ==
  ASSUME NEW w \in Seq(Tokens), NEW n \in Nat, NEW k \in Nat, n <= k, k <= Len(w), AtLine(w, n),
         NEW d, d = SubSeq(w, n + 1, k)
  PROVE  SameLines(w, n, k, d)
  <1>1. d \in Seq(Tokens) /\ Len(d) = k - n /\ \A i \in 1..(k - n) : d[i] = w[n + i]
    BY Part
  <1>2. DOMAIN d = 1..(k - n) /\ DOMAIN w = 1..Len(w) /\ Len(w) \in Nat
    BY <1>1, LenProperties
  <1>3. \A i \in Int : i \in LineEnds(d) <=> i \in 1..(k - n) /\ w[n + i] = NL
    BY <1>1, <1>2 DEF LineEnds
  <1>4. ASSUME NEW i \in 1..Len(w)
        PROVE  i \in MarkerLines(d) <=> n + i \in MarkerLines(w) /\ n + i + 1 <= k
    <2>1. PICK j \in Nat : j = n + i
      OBVIOUS
    <2>2. i + 1 \in LineEnds(d) <=> j + 1 <= k /\ w[j + 1] = NL
      <3>1. n + (i + 1) = j + 1 /\ (i + 1 \in 1..(k - n) <=> j + 1 <= k)
        BY <2>1
      <3>2. QED
        BY <1>3, <3>1
    <2>3. j + 1 \in LineEnds(w) <=> j + 1 <= Len(w) /\ w[j + 1] = NL
      BY <1>2 DEF LineEnds
    <2>4. i - 1 \in LineEnds(d) <=> i - 1 >= 1 /\ i - 1 <= k - n /\ w[j - 1] = NL
      <3>1. n + (i - 1) = j - 1
        BY <2>1
      <3>2. QED
        BY <1>3, <3>1
    <2>5. j - 1 \in LineEnds(w) <=> j - 1 >= 1 /\ j - 1 <= Len(w) /\ w[j - 1] = NL
      BY <1>2 DEF LineEnds
    <2>6. i <= k - n => d[i] = w[j]
      BY <1>1, <2>1
    <2>7. ASSUME j + 1 <= k
          PROVE  (i = 1 \/ i - 1 \in LineEnds(d)) <=> (j = 1 \/ j - 1 \in LineEnds(w))
      <3>1. CASE i = 1
        <4>1. j - 1 = n /\ n <= Len(w)
          BY <2>1, <3>1
        <4>2. j = 1 \/ j - 1 \in LineEnds(w)
          BY <2>1, <2>5, <4>1 DEF AtLine
        <4>3. QED
          BY <3>1, <4>2
      <3>2. CASE i # 1
        BY <1>2, <2>1, <2>4, <2>5, <2>7, <3>2
      <3>3. QED
        BY <3>1, <3>2
    <2>8. CASE j + 1 <= k
      <3>1. i \in DOMAIN d /\ j \in DOMAIN w /\ n + i + 1 <= k
        BY <1>2, <2>1, <2>8
      <3>2. j + 1 <= Len(w)
        BY <1>2, <2>8
      <3>3. i \in MarkerLines(d) <=> /\ d[i] = Marker /\ i + 1 \in LineEnds(d)
                                     /\ (i = 1 \/ i - 1 \in LineEnds(d))
        BY <3>1 DEF MarkerLines
      <3>4. j \in MarkerLines(w) <=> /\ w[j] = Marker /\ j + 1 \in LineEnds(w)
                                     /\ (j = 1 \/ j - 1 \in LineEnds(w))
        BY <3>1 DEF MarkerLines
      <3>5. d[i] = w[j]
        BY <1>2, <2>6, <3>1
      <3>6. QED
        BY <2>1, <2>2, <2>3, <2>7, <2>8, <3>1, <3>2, <3>3, <3>4, <3>5
    <2>9. CASE ~(j + 1 <= k)
      <3>1. i \notin MarkerLines(d)
        BY <2>2, <2>9 DEF MarkerLines
      <3>2. ~(n + i + 1 <= k)
        BY <2>1, <2>9
      <3>3. QED
        BY <3>1, <3>2
    <2>10. QED
      BY <2>8, <2>9
  <1>5. MarkerLines(d) \subseteq 1..Len(w)
    <2>1. MarkerLines(d) \subseteq 1..(k - n)
      BY <1>2 DEF MarkerLines
    <2>2. QED
      BY <1>2, <2>1
  <1>6. LineEnds(d) \subseteq 1..(k - n)
    BY <1>2 DEF LineEnds
  <1>7. QED
    BY <1>3, <1>4, <1>5, <1>6 DEF SameLines

(* Where markers are.                                                      *)
LEMMA MarkerPlace ==
  ASSUME NEW w \in Seq(Tokens), NEW i \in MarkerLines(w)
  PROVE  /\ i \in Nat /\ 1 <= i /\ i + 1 <= Len(w) /\ w[i + 1] = NL /\ w[i] = Marker
         /\ i = 1 \/ w[i - 1] = NL
  <1>1. DOMAIN w = 1..Len(w) /\ Len(w) \in Nat
    BY LenProperties
  <1>2. QED
    BY <1>1 DEF MarkerLines, LineEnds

(* A line's beginning is not within a marker's line.                       *)
LEMMA MarkerApart ==
  ASSUME NEW w \in Seq(Tokens), NEW n \in Nat, AtLine(w, n), NEW i \in MarkerLines(w)
  PROVE  i + 1 <= n \/ n < i
  <1>1. i \in Nat /\ 1 <= i /\ w[i] = Marker
    BY MarkerPlace
  <1>2. n # i
    BY <1>1 DEF AtLine, NL, Marker
  <1>3. QED
    BY <1>1, <1>2

LEMMA FirstMarker ==
  ASSUME NEW w \in Seq(Tokens), MarkerLines(w) # {}, NEW m, m = Min(MarkerLines(w))
  PROVE  m \in MarkerLines(w) /\ \A i \in MarkerLines(w) : m <= i
  <1>1. MarkerLines(w) \subseteq Nat
    BY MarkerPlace
  <1>2. QED
    BY <1>1, MinOf

(* Cut of all but the marker, in two cases.                                *)
LEMMA CutBefore ==
  ASSUME NEW w \in Seq(Tokens), NEW n \in Nat, n <= Len(w), ~MarkerBefore(w, n)
  PROVE  /\ Cut(w, n) = SubSeq(w, 0 + 1, n)
         /\ Cut(w, n) \in Seq(Tokens) /\ Len(Cut(w, n)) = n
         /\ \A i \in 1..n : Cut(w, n)[i] = w[i]
  <1>1. Cut(w, n) = SubSeq(w, 0 + 1, n)
    BY DEF Cut
  <1>2. /\ SubSeq(w, 0 + 1, n) \in Seq(Tokens) /\ Len(SubSeq(w, 0 + 1, n)) = n - 0
        /\ \A i \in 1..(n - 0) : SubSeq(w, 0 + 1, n)[i] = w[0 + i]
    BY Part
  <1>3. n - 0 = n /\ \A i \in 1..n : 0 + i = i
    OBVIOUS
  <1>4. QED
    BY <1>1, <1>2, <1>3

Split(w, n, m, a, b) ==
  /\ m = Min(MarkerLines(w)) /\ a = m - 1 /\ b = m + 1 /\ b <= n /\ a <= Len(w)
  /\ Cut(w, n) = SubSeq(w, 0 + 1, a) \o SubSeq(w, b + 1, n)
  /\ SubSeq(w, 0 + 1, a) \in Seq(Tokens)
  /\ SubSeq(w, b + 1, n) \in Seq(Tokens)

LEMMA CutAfter ==
  ASSUME NEW w \in Seq(Tokens), NEW n \in Nat, n <= Len(w), MarkerBefore(w, n)
  PROVE  \E m \in MarkerLines(w), a \in Nat, b \in Nat : Split(w, n, m, a, b)
  <1>1. PICK m : m = Min(MarkerLines(w))
    OBVIOUS
  <1>2. m \in MarkerLines(w) /\ \A i \in MarkerLines(w) : m <= i
    BY <1>1, FirstMarker DEF MarkerBefore
  <1>3. m \in Nat /\ 1 <= m /\ m + 1 <= Len(w) /\ Len(w) \in Nat
    BY <1>2, MarkerPlace, LenProperties
  <1>4. m + 1 <= n
    <2>1. PICK i \in MarkerLines(w) : i + 1 <= n
      BY DEF MarkerBefore
    <2>2. i \in Nat /\ m <= i
      BY <1>2, <2>1, MarkerPlace
    <2>3. QED
      BY <1>3, <2>1, <2>2
  <1>5. PICK a \in Nat, b \in Nat : a = m - 1 /\ b = m + 1
    BY <1>3
  <1>6. m + 2 = b + 1 /\ 1 = 0 + 1
    BY <1>3, <1>5
  <1>7. Cut(w, n) = SubSeq(w, 0 + 1, a) \o SubSeq(w, b + 1, n)
    BY <1>1, <1>5, <1>6 DEF Cut
  <1>8. a <= Len(w) /\ b <= n
    BY <1>3, <1>4, <1>5
  <1>9. SubSeq(w, 0 + 1, a) \in Seq(Tokens) /\ SubSeq(w, b + 1, n) \in Seq(Tokens)
    BY <1>8, Part
  <1>10. Split(w, n, m, a, b)
    BY <1>1, <1>5, <1>7, <1>8, <1>9 DEF Split
  <1>11. QED
    BY <1>2, <1>10

LEMMA CutIsSeq ==
  ASSUME NEW w \in Seq(Tokens), NEW n \in Nat, n <= Len(w)
  PROVE  Cut(w, n) \in Seq(Tokens)
  <1>1. CASE ~MarkerBefore(w, n)
    BY <1>1, CutBefore
  <1>2. CASE MarkerBefore(w, n)
    <2>1. PICK m \in MarkerLines(w), a \in Nat, b \in Nat : Split(w, n, m, a, b)
      BY <1>2, CutAfter
    <2>2. PICK s \in Seq(Tokens), t \in Seq(Tokens) : Cut(w, n) = s \o t
      BY <2>1 DEF Split
    <2>3. QED
      BY <2>2, ConcatProperties
  <1>3. QED
    BY <1>1, <1>2

(* Between markers the cut grows by what is read.                          *)
LEMMA CutGrows ==
  ASSUME NEW w \in Seq(Tokens), NEW n \in Nat, NEW k \in Nat, n <= k, k <= Len(w),
         MarkerBefore(w, n) <=> MarkerBefore(w, k)
  PROVE  Cut(w, n) \o SubSeq(w, n + 1, k) = Cut(w, k)
  <1>1. n <= Len(w) /\ Len(w) \in Nat
    BY LenProperties
  <1>2. SubSeq(w, n + 1, k) \in Seq(Tokens)
    BY Part
  <1>3. CASE ~MarkerBefore(w, n)
    <2>1. Cut(w, n) = SubSeq(w, 0 + 1, n) /\ Cut(w, k) = SubSeq(w, 0 + 1, k)
      BY <1>1, <1>3, CutBefore
    <2>2. SubSeq(w, 0 + 1, n) \o SubSeq(w, n + 1, k) = SubSeq(w, 0 + 1, k)
      BY PartsJoin
    <2>3. QED
      BY <2>1, <2>2
  <1>4. CASE MarkerBefore(w, n)
    <2>1. PICK m \in MarkerLines(w), a \in Nat, b \in Nat : Split(w, n, m, a, b)
      BY <1>1, <1>4, CutAfter
    <2>2. PICK x \in MarkerLines(w), y \in Nat, z \in Nat : Split(w, k, x, y, z)
      BY <1>4, CutAfter
    <2>3. x = m /\ y = a /\ z = b
      BY <2>1, <2>2 DEF Split
    <2>4. b <= n /\ Cut(w, n) = SubSeq(w, 0 + 1, a) \o SubSeq(w, b + 1, n)
      BY <2>1 DEF Split
    <2>5. SubSeq(w, 0 + 1, a) \in Seq(Tokens) /\ SubSeq(w, b + 1, n) \in Seq(Tokens)
      BY <2>1 DEF Split
    <2>6. Cut(w, k) = SubSeq(w, 0 + 1, a) \o SubSeq(w, b + 1, k)
      BY <2>2, <2>3 DEF Split
    <2>7. SubSeq(w, b + 1, n) \o SubSeq(w, n + 1, k) = SubSeq(w, b + 1, k)
      BY <2>4, PartsJoin
    <2>8. PICK p, q, r : p = SubSeq(w, 0 + 1, a) /\ q = SubSeq(w, b + 1, n) /\ r = SubSeq(w, n + 1, k)
      OBVIOUS
    <2>9. (p \o q) \o r = p \o (q \o r)
      <3>1. p \in Seq(Tokens) /\ q \in Seq(Tokens) /\ r \in Seq(Tokens)
        BY <1>2, <2>5, <2>8
      <3>2. QED
        BY <3>1, ConcatAssociative
    <2>10. Cut(w, n) = p \o q /\ Cut(w, k) = p \o (q \o r)
      BY <2>4, <2>6, <2>7, <2>8
    <2>11. QED
      BY <2>8, <2>9, <2>10
  <1>5. QED
    BY <1>3, <1>4

(* Over the marker it grows by what stands before it.                      *)
LEMMA CutMarker ==
  ASSUME NEW w \in Seq(Tokens), NEW n \in Nat, n <= Len(w), AtLine(w, n), ~MarkerBefore(w, n),
         MarkerLines(w) # {}, NEW m, m = Min(MarkerLines(w))
  PROVE  /\ m \in MarkerLines(w) /\ m \in Nat /\ n < m /\ m + 1 <= Len(w)
         /\ MarkerBefore(w, m + 1) /\ AtLine(w, m + 1)
         /\ Cut(w, n) \o SubSeq(w, n + 1, m - 1) = Cut(w, m + 1)
  <1>1. m \in MarkerLines(w)
    BY FirstMarker
  <1>2. m \in Nat /\ 1 <= m /\ m + 1 <= Len(w) /\ w[m + 1] = NL /\ Len(w) \in Nat
    BY <1>1, MarkerPlace, LenProperties
  <1>3. n < m
    BY <1>1, MarkerApart DEF MarkerBefore
  <1>4. PICK a \in Nat, b \in Nat : a = m - 1 /\ b = m + 1
    BY <1>2
  <1>5. MarkerBefore(w, b) /\ AtLine(w, b)
    <2>1. m + 1 <= b
      BY <1>2, <1>4
    <2>2. QED
      BY <1>1, <1>2, <1>4, <2>1 DEF MarkerBefore, AtLine
  <1>6. Cut(w, b) = SubSeq(w, 0 + 1, a) \o SubSeq(w, b + 1, b) /\ SubSeq(w, 0 + 1, a) \in Seq(Tokens)
    <2>1. b <= Len(w)
      BY <1>2, <1>4
    <2>2. PICK x \in MarkerLines(w), y \in Nat, z \in Nat : Split(w, b, x, y, z)
      BY <1>5, <2>1, CutAfter
    <2>3. y = a /\ z = b
      BY <1>4, <2>2 DEF Split
    <2>4. QED
      BY <2>2, <2>3 DEF Split
  <1>7. SubSeq(w, b + 1, b) = <<>>
    <2>1. PICK c \in Int : c = b + 1
      OBVIOUS
    <2>2. SubSeq(w, c, b) = <<>>
      BY <2>1, SubSeqEmpty
    <2>3. QED
      BY <2>1, <2>2
  <1>8. Cut(w, b) = SubSeq(w, 0 + 1, a)
    BY <1>6, <1>7, ConcatEmptySeq
  <1>9. Cut(w, n) = SubSeq(w, 0 + 1, n)
    BY CutBefore
  <1>10. n <= a /\ a <= Len(w)
    BY <1>2, <1>3, <1>4
  <1>11. SubSeq(w, 0 + 1, n) \o SubSeq(w, n + 1, a) = SubSeq(w, 0 + 1, a)
    BY <1>10, PartsJoin
  <1>12. QED
    BY <1>1, <1>2, <1>3, <1>4, <1>5, <1>8, <1>9, <1>11

(* What is printed at the beginning of a line is whole lines.              *)
LEMMA CutLines ==
  ASSUME NEW w \in Seq(Tokens), NEW n \in Nat, n <= Len(w), AtLine(w, n), NEW c, c = Cut(w, n)
  PROVE  c = <<>> \/ c[Len(c)] = NL
  <1>1. c \in Seq(Tokens)
    BY CutIsSeq
  <1>2. CASE ~MarkerBefore(w, n)
    <2>1. Len(c) = n /\ \A i \in 1..n : c[i] = w[i]
      BY <1>2, CutBefore
    <2>2. CASE n = 0
      BY <1>1, <2>1, <2>2, EmptySeq
    <2>3. CASE n # 0
      BY <2>1, <2>3 DEF AtLine
    <2>4. QED
      BY <2>2, <2>3
  <1>3. CASE MarkerBefore(w, n)
    <2>0. PICK m \in MarkerLines(w), a \in Nat, b \in Nat : Split(w, n, m, a, b)
      BY <1>3, CutAfter
    <2>1. a = m - 1 /\ b = m + 1 /\ b <= n /\ a <= Len(w)
      BY <2>0 DEF Split
    <2>2. PICK s, t : s = SubSeq(w, 0 + 1, a) /\ t = SubSeq(w, b + 1, n) /\ c = s \o t
      BY <2>0 DEF Split
    <2>3. s \in Seq(Tokens) /\ Len(s) = a - 0 /\ \A i \in 1..(a - 0) : s[i] = w[0 + i]
      BY <2>1, <2>2, Part
    <2>4. t \in Seq(Tokens) /\ Len(t) = n - b /\ \A i \in 1..(n - b) : t[i] = w[b + i]
      BY <2>1, <2>2, Part
    <2>5. m \in Nat /\ 1 <= m /\ (m = 1 \/ w[m - 1] = NL)
      BY <2>1, MarkerPlace
    <2>6. Len(s) = a /\ (a = 0 \/ s[a] = NL)
      BY <2>1, <2>3, <2>5
    <2>7. /\ Len(c) = Len(s) + Len(t)
          /\ \A i \in 1..Len(s) + Len(t) : c[i] = IF i <= Len(s) THEN s[i] ELSE t[i - Len(s)]
      BY <2>2, <2>3, <2>4, ConcatProperties
    <2>8. CASE n = b
      <3>1. Len(t) = 0 /\ Len(c) = a
        BY <2>4, <2>6, <2>7, <2>8
      <3>2. CASE a = 0
        BY <1>1, <3>1, <3>2, EmptySeq
      <3>3. CASE a # 0
        <4>1. a \in 1..Len(s) + Len(t) /\ a <= Len(s)
          BY <2>6, <3>1, <3>3
        <4>2. c[a] = s[a]
          BY <2>7, <4>1
        <4>3. QED
          BY <2>6, <3>1, <3>3, <4>2
      <3>4. QED
        BY <3>2, <3>3
    <2>9. CASE n # b
      <3>1. PICK l \in Nat : l = n - b
        BY <2>1
      <3>2. l \in 1..(n - b) /\ b + l = n /\ n # 0
        BY <2>1, <2>9, <3>1
      <3>3. t[l] = NL
        BY <2>4, <3>2 DEF AtLine
      <3>4. PICK e \in Int : e = Len(c)
        BY <2>4, <2>6, <2>7
      <3>5. e \in 1..Len(s) + Len(t) /\ ~(e <= Len(s)) /\ e - Len(s) = l
        BY <2>4, <2>6, <2>7, <3>1, <3>2, <3>4
      <3>6. c[e] = t[l]
        BY <2>7, <3>5
      <3>7. QED
        BY <3>3, <3>4, <3>6
    <2>10. QED
      BY <2>8, <2>9
  <1>4. QED
    BY <1>2, <1>3

(* Longer cuts continue shorter ones.                                      *)
LEMMA PrefixOfConcat ==
  ASSUME NEW s \in Seq(Tokens), NEW t \in Seq(Tokens), NEW u \in Seq(Tokens), t = s \o u
  PROVE  IsPrefix(s, t)
  <1>1. /\ Len(t) = Len(s) + Len(u)
        /\ \A i \in 1..Len(s) + Len(u) : t[i] = IF i <= Len(s) THEN s[i] ELSE u[i - Len(s)]
    BY ConcatProperties
  <1>2. PICK n \in Nat : n = Len(s)
    BY LenProperties
  <1>3. Len(u) \in Nat /\ n <= Len(t)
    BY <1>1, <1>2, LenProperties
  <1>4. SubSeq(s, 0 + 1, n) \in Seq(Tokens) /\ Len(SubSeq(s, 0 + 1, n)) = n - 0
        /\ \A i \in 1..(n - 0) : SubSeq(s, 0 + 1, n)[i] = s[0 + i]
    BY <1>2, Part
  <1>5. SubSeq(t, 0 + 1, n) \in Seq(Tokens) /\ Len(SubSeq(t, 0 + 1, n)) = n - 0
        /\ \A i \in 1..(n - 0) : SubSeq(t, 0 + 1, n)[i] = t[0 + i]
    BY <1>3, Part
  <1>6. \A i \in 1..(n - 0) : s[0 + i] = t[0 + i]
    BY <1>1, <1>2, <1>3
  <1>7. SubSeq(s, 0 + 1, n) = SubSeq(t, 0 + 1, n)
    <2>1. PICK a, b : a = SubSeq(s, 0 + 1, n) /\ b = SubSeq(t, 0 + 1, n)
      OBVIOUS
    <2>2. a \in Seq(Tokens) /\ b \in Seq(Tokens) /\ Len(a) = n - 0 /\ Len(b) = n - 0
      BY <1>4, <1>5, <2>1
    <2>3. \A i \in 1..(n - 0) : a[i] = b[i]
      BY <1>4, <1>5, <1>6, <2>1
    <2>4. QED
      BY <2>1, <2>2, <2>3, SeqEqual
  <1>8. QED
    BY <1>2, <1>3, <1>7 DEF IsPrefix

LEMMA CutContinues ==
  ASSUME NEW w \in Seq(Tokens), NEW n \in Nat, NEW k \in Nat, n <= k, k <= Len(w), AtLine(w, n)
  PROVE  \E u \in Seq(Tokens) : Cut(w, k) = Cut(w, n) \o u
  <1>1. n <= Len(w) /\ Len(w) \in Nat
    BY LenProperties
  <1>2. CASE MarkerBefore(w, n) <=> MarkerBefore(w, k)
    BY <1>2, CutGrows, Part
  <1>3. CASE ~MarkerBefore(w, n) /\ MarkerBefore(w, k)
    <2>1. PICK m : m = Min(MarkerLines(w))
      OBVIOUS
    <2>2. /\ m \in MarkerLines(w) /\ m \in Nat /\ n < m /\ m + 1 <= Len(w)
          /\ MarkerBefore(w, m + 1)
          /\ Cut(w, n) \o SubSeq(w, n + 1, m - 1) = Cut(w, m + 1)
      BY <1>1, <1>3, <2>1, CutMarker DEF MarkerBefore
    <2>3. m + 1 <= k
      <3>1. PICK i \in MarkerLines(w) : i + 1 <= k
        BY <1>3 DEF MarkerBefore
      <3>2. m <= i /\ i \in Nat
        BY <2>1, <3>1, FirstMarker, MarkerPlace
      <3>3. QED
        BY <2>2, <3>1, <3>2
    <2>4. PICK a \in Nat, b \in Nat : a = m - 1 /\ b = m + 1
      BY <2>2
    <2>5. PICK x, y : x = SubSeq(w, n + 1, a) /\ y = SubSeq(w, b + 1, k)
      OBVIOUS
    <2>6. x \in Seq(Tokens)
      <3>1. n <= a /\ a <= Len(w)
        BY <1>1, <2>2, <2>4
      <3>2. QED
        BY <2>5, <3>1, Part
    <2>7. y \in Seq(Tokens)
      BY <2>3, <2>4, <2>5, Part
    <2>8. Cut(w, b) \o y = Cut(w, k)
      BY <1>3, <2>2, <2>3, <2>4, <2>5, CutGrows
    <2>9. Cut(w, b) = Cut(w, n) \o x
      BY <2>2, <2>4, <2>5
    <2>10. PICK c \in Seq(Tokens) : c = Cut(w, n)
      BY <1>1, CutIsSeq
    <2>11. (c \o x) \o y = c \o (x \o y) /\ x \o y \in Seq(Tokens)
      BY <2>6, <2>7, ConcatAssociative, ConcatProperties
    <2>12. QED
      BY <2>8, <2>9, <2>10, <2>11
  <1>4. MarkerBefore(w, n) => MarkerBefore(w, k)
    <2>1. \A i \in MarkerLines(w) : i + 1 <= n => i + 1 <= k
      BY MarkerPlace
    <2>2. QED
      BY <2>1 DEF MarkerBefore
  <1>5. QED
    BY <1>2, <1>3, <1>4

(* How far the complete lines of the tokens from n to k take the reader,   *)
(* and what is printed up to there.                                        *)
Reached(w, n, k, p, c, check) ==
  /\ n <= p /\ p <= k /\ AtLine(w, p)
  /\ c.data = SubSeq(w, p + 1, k)
  /\ Cut(w, n) \o c.out = Cut(w, p)
  /\ check /\ ~c.hit <=> ~MarkerBefore(w, p)
  /\ c.hit \/ LineEnds(c.data) = {}

LEMMA ConsumedMarker ==
  ASSUME NEW w \in Seq(Tokens), NEW n \in Nat, NEW k \in Nat, n <= k, k <= Len(w), AtLine(w, n),
         NEW d, d = SubSeq(w, n + 1, k), ~MarkerBefore(w, n), MarkerLines(d) # {}
  PROVE  \E p \in Nat : Reached(w, n, k, p, Consumed(d, TRUE), TRUE)
  <1>1. d \in Seq(Tokens) /\ Len(d) = k - n /\ Len(w) \in Nat /\ n <= Len(w)
    BY Part, LenProperties
  <1>2. PICK i : i = Min(MarkerLines(d))
    OBVIOUS
  <1>3. i \in MarkerLines(d) /\ \A j \in MarkerLines(d) : i <= j
    BY <1>1, <1>2, FirstMarker
  <1>4. /\ \A j \in 1..Len(w) : j \in MarkerLines(d) <=> n + j \in MarkerLines(w) /\ n + j + 1 <= k
        /\ MarkerLines(d) \subseteq 1..Len(w)
    <2>1. SameLines(w, n, k, d)
      BY PartLines
    <2>2. QED
      BY <2>1 DEF SameLines
  <1>5. i \in 1..Len(w) /\ n + i \in MarkerLines(w) /\ n + i + 1 <= k
    BY <1>3, <1>4
  <1>6. PICK m : m = Min(MarkerLines(w))
    OBVIOUS
  <1>7. /\ m \in MarkerLines(w) /\ m \in Nat /\ n < m /\ m + 1 <= Len(w)
        /\ MarkerBefore(w, m + 1) /\ AtLine(w, m + 1)
        /\ Cut(w, n) \o SubSeq(w, n + 1, m - 1) = Cut(w, m + 1)
    BY <1>1, <1>5, <1>6, CutMarker
  <1>8. m = n + i
    <2>1. m <= n + i
      BY <1>5, <1>6, FirstMarker
    <2>2. PICK j \in Int : j = m - n
      BY <1>7
    <2>3. j \in 1..Len(w) /\ n + j = m /\ n + j + 1 <= k
      BY <1>1, <1>5, <1>7, <2>1, <2>2
    <2>4. i <= j
      BY <1>3, <1>4, <1>7, <2>3
    <2>5. QED
      BY <1>5, <1>7, <2>1, <2>2, <2>4
  <1>9. PICK a \in Nat, b \in Nat, e \in Nat, l \in Nat, p \in Nat :
          a = i - 1 /\ b = i + 1 /\ e = m - 1 /\ l = k - n /\ p = m + 1
    BY <1>5, <1>7
  <1>10. SubSeq(d, 0 + 1, a) = SubSeq(w, n + 1, e)
    <2>1. a <= k - n /\ 0 <= a /\ 0 \in Nat
      BY <1>5, <1>9
    <2>2. SubSeq(d, 0 + 1, a) = SubSeq(w, (n + 0) + 1, n + a)
      BY <2>1, PartOfPart
    <2>3. n + 0 = n /\ n + a = e
      BY <1>5, <1>7, <1>8, <1>9
    <2>4. QED
      BY <2>2, <2>3
  <1>11. SubSeq(d, b + 1, l) = SubSeq(w, p + 1, k)
    <2>1. b <= l /\ l <= k - n
      BY <1>5, <1>9
    <2>2. SubSeq(d, b + 1, l) = SubSeq(w, (n + b) + 1, n + l)
      BY <2>1, PartOfPart
    <2>3. n + b = p /\ n + l = k
      BY <1>5, <1>7, <1>8, <1>9
    <2>4. QED
      BY <2>2, <2>3
  <1>12. PICK c : c = Consumed(d, TRUE)
    OBVIOUS
  <1>13. c = [out |-> SubSeq(d, 1, i - 1), data |-> SubSeq(d, i + 2, Len(d)), hit |-> TRUE]
    BY <1>2, <1>12 DEF Consumed
  <1>14. 1 = 0 + 1 /\ i + 2 = b + 1
    BY <1>5, <1>9
  <1>15. c.out = SubSeq(d, 0 + 1, a) /\ c.data = SubSeq(d, b + 1, l) /\ c.hit = TRUE
    BY <1>1, <1>9, <1>13, <1>14
  <1>16. n <= p /\ p <= k
    BY <1>5, <1>7, <1>8, <1>9
  <1>17. Cut(w, n) \o c.out = Cut(w, p) /\ MarkerBefore(w, p) /\ AtLine(w, p)
    BY <1>7, <1>9, <1>10, <1>15
  <1>18. Reached(w, n, k, p, c, TRUE)
    BY <1>11, <1>15, <1>16, <1>17 DEF Reached
  <1>19. QED
    BY <1>12, <1>18

LEMMA ConsumedLines ==
  ASSUME NEW w \in Seq(Tokens), NEW n \in Nat, NEW k \in Nat, n <= k, k <= Len(w), AtLine(w, n),
         NEW d, d = SubSeq(w, n + 1, k), NEW check \in BOOLEAN, check <=> ~MarkerBefore(w, n),
         ~(check /\ MarkerLines(d) # {})
  PROVE  \E p \in Nat : Reached(w, n, k, p, Consumed(d, check), check)
  <1>1. d \in Seq(Tokens) /\ Len(d) = k - n /\ Len(w) \in Nat /\ n <= Len(w)
    BY Part, LenProperties
  <1>2. /\ \A i \in Int : i \in LineEnds(d) <=> i \in 1..(k - n) /\ w[n + i] = NL
        /\ \A i \in 1..Len(w) : i \in MarkerLines(d) <=> n + i \in MarkerLines(w) /\ n + i + 1 <= k
        /\ LineEnds(d) \subseteq 1..(k - n)
    <2>1. SameLines(w, n, k, d)
      BY PartLines
    <2>2. QED
      BY <2>1 DEF SameLines
  <1>3. PICK l \in Nat : l = k - n
    OBVIOUS
  <1>4. PICK j : j = Max(LineEnds(d) \cup {0})
    OBVIOUS
  <1>5. j \in LineEnds(d) \cup {0} /\ \A i \in LineEnds(d) \cup {0} : i <= j
    <2>1. LineEnds(d) \cup {0} \subseteq 0..l /\ LineEnds(d) \cup {0} # {}
      BY <1>2, <1>3
    <2>2. QED
      BY <1>4, <2>1, MaxOf
  <1>6. j \in Nat /\ j <= l
    BY <1>2, <1>3, <1>5
  <1>7. PICK p \in Nat : p = n + j
    BY <1>6
  <1>8. n <= p /\ p <= k
    BY <1>3, <1>6, <1>7
  <1>9. AtLine(w, p)
    <2>1. CASE j = 0
      BY <1>7, <2>1
    <2>2. CASE j # 0
      BY <1>2, <1>5, <1>6, <1>7, <2>2 DEF AtLine
    <2>3. QED
      BY <2>1, <2>2
  <1>10. SubSeq(d, 0 + 1, j) = SubSeq(w, n + 1, p)
    <2>1. SubSeq(d, 0 + 1, j) = SubSeq(w, (n + 0) + 1, n + j)
      BY <1>3, <1>6, PartOfPart
    <2>2. n + 0 = n
      OBVIOUS
    <2>3. QED
      BY <1>7, <2>1, <2>2
  <1>11. SubSeq(d, j + 1, l) = SubSeq(w, p + 1, k)
    <2>1. SubSeq(d, j + 1, l) = SubSeq(w, (n + j) + 1, n + l)
      BY <1>3, <1>6, PartOfPart
    <2>2. n + l = k
      BY <1>3
    <2>3. QED
      BY <1>7, <2>1, <2>2
  <1>12. PICK c : c = Consumed(d, check)
    OBVIOUS
  <1>13. c = [out |-> SubSeq(d, 1, j), data |-> SubSeq(d, j + 1, Len(d)), hit |-> FALSE]
    BY <1>4, <1>12 DEF Consumed
  <1>14. 1 = 0 + 1
    OBVIOUS
  <1>15. c.out = SubSeq(w, n + 1, p) /\ c.data = SubSeq(w, p + 1, k) /\ c.hit = FALSE
    BY <1>1, <1>3, <1>10, <1>11, <1>13, <1>14
  <1>16. MarkerBefore(w, n) <=> MarkerBefore(w, p)
    <2>1. ASSUME NEW i \in MarkerLines(w), i + 1 <= n PROVE i + 1 <= p
      BY <1>8, <2>1, MarkerPlace
    <2>2. ASSUME NEW i \in MarkerLines(w), i + 1 <= p PROVE MarkerBefore(w, n)
      <3>1. i \in Nat /\ i + 1 <= Len(w) /\ (i + 1 <= n \/ n < i)
        BY MarkerPlace, MarkerApart
      <3>2. CASE i + 1 <= n
        BY <3>2 DEF MarkerBefore
      <3>3. CASE n < i
        <4>1. PICK h \in Nat : h = i - n
          BY <3>1, <3>3
        <4>2. h \in 1..Len(w) /\ n + h = i /\ n + h + 1 <= k
          BY <1>1, <1>8, <2>2, <3>1, <3>3, <4>1
        <4>3. h \in MarkerLines(d)
          BY <1>2, <4>2
        <4>4. QED
          BY <4>3
      <3>4. QED
        BY <3>1, <3>2, <3>3
    <2>3. QED
      BY <2>1, <2>2 DEF MarkerBefore
  <1>17. Cut(w, n) \o c.out = Cut(w, p)
    <2>1. p <= Len(w)
      BY <1>1, <1>8
    <2>2. QED
      BY <1>8, <1>15, <1>16, <2>1, CutGrows
  <1>18. LineEnds(c.data) = {}
    <2>1. SameLines(w, p, k, c.data)
      BY <1>8, <1>9, <1>15, PartLines
    <2>2. ASSUME NEW i \in LineEnds(c.data) PROVE FALSE
      <3>1. i \in 1..(k - p) /\ w[p + i] = NL
        BY <2>1 DEF SameLines
      <3>2. PICK h \in Int : h = j + i
        BY <1>6, <3>1
      <3>3. h \in 1..(k - n) /\ n + h = p + i /\ ~(h <= j)
        BY <1>6, <1>7, <1>8, <3>1, <3>2
      <3>4. h \in LineEnds(d)
        BY <1>2, <3>1, <3>3
      <3>5. QED
        BY <1>5, <3>3, <3>4
    <2>3. QED
      BY <2>2
  <1>19. Reached(w, n, k, p, c, check)
    BY <1>8, <1>9, <1>15, <1>16, <1>17, <1>18 DEF Reached
  <1>20. QED
    BY <1>12, <1>19

(* Consuming the complete lines of what has been read.                     *)
Advances(w, n, k, d, c, check) ==
  /\ c.hit \in BOOLEAN /\ (c.hit => check) /\ (LineEnds(d) = {} => ~c.hit)
  /\ \E p \in Nat : Reached(w, n, k, p, c, check)

LEMMA ConsumedReaches ==
  ASSUME NEW w \in Seq(Tokens), NEW n \in Nat, NEW k \in Nat, n <= k, k <= Len(w), AtLine(w, n),
         NEW d, d = SubSeq(w, n + 1, k), NEW check \in BOOLEAN, check <=> ~MarkerBefore(w, n),
         NEW c, c = Consumed(d, check)
  PROVE  Advances(w, n, k, d, c, check)
  <1>1. CASE check /\ MarkerLines(d) # {}
    <2>1. check = TRUE /\ ~MarkerBefore(w, n)
      BY <1>1
    <2>2. c = Consumed(d, TRUE)
      BY <2>1
    <2>3. c.hit = TRUE
      BY <1>1, <2>2 DEF Consumed
    <2>4. LineEnds(d) # {}
      BY <1>1 DEF MarkerLines
    <2>5. \E p \in Nat : Reached(w, n, k, p, c, TRUE)
      BY <1>1, <2>1, <2>2, ConsumedMarker
    <2>6. QED
      BY <2>1, <2>3, <2>4, <2>5 DEF Advances
  <1>2. CASE ~(check /\ MarkerLines(d) # {})
    <2>1. c.hit = FALSE
      BY <1>2 DEF Consumed
    <2>2. \E p \in Nat : Reached(w, n, k, p, c, check)
      BY <1>2, ConsumedLines
    <2>3. QED
      BY <2>1, <2>2 DEF Advances
  <1>3. QED
    BY <1>1, <1>2

LEMMA EndedContinues ==
  ASSUME NEW c \in Seq(Tokens), NEW t \in Seq(Tokens), NEW u \in Seq(Tokens), t = c \o u
  PROVE  IsPrefix(c, Ended(t))
  <1>1. CASE t = <<>> \/ t[Len(t)] = NL
    <2>1. Ended(t) = t
      BY <1>1 DEF Ended
    <2>2. QED
      BY <2>1, PrefixOfConcat
  <1>2. CASE ~(t = <<>> \/ t[Len(t)] = NL)
    <2>1. NL \in Tokens /\ <<NL>> \in Seq(Tokens)
      BY DEF NL, Tokens
    <2>2. Ended(t) = t \o <<NL>>
      BY <1>2, <2>1, AppendIsConcat DEF Ended
    <2>3. PICK v \in Seq(Tokens) : v = u \o <<NL>>
      BY <2>1, ConcatProperties
    <2>4. (c \o u) \o <<NL>> = c \o (u \o <<NL>>)
      BY <2>1, ConcatAssociative
    <2>5. t \o <<NL>> = c \o v
      BY <2>3, <2>4
    <2>6. c \o v \in Seq(Tokens)
      BY ConcatProperties
    <2>7. QED
      BY <2>2, <2>5, <2>6, PrefixOfConcat
  <1>3. QED
    BY <1>1, <1>2

(* The rest at the end of a stream is its part line.                       *)
LEMMA EndReached ==
  ASSUME NEW w \in Seq(Tokens), NEW n \in Nat, NEW k \in Nat, n <= k, k <= Len(w), AtLine(w, n),
         NEW d, d = SubSeq(w, n + 1, k), LineEnds(d) = {}
  PROVE  Cut(w, n) \o PartLine(d) = Ended(Cut(w, k))
  <1>1. /\ d \in Seq(Tokens) /\ Len(d) = k - n /\ \A i \in 1..(k - n) : d[i] = w[n + i]
        /\ n <= Len(w) /\ k <= Len(w)
    <2>1. Len(w) \in Nat
      BY LenProperties
    <2>2. QED
      BY <2>1, Part
  <1>2. PICK c \in Seq(Tokens) : c = Cut(w, n)
    BY <1>1, CutIsSeq
  <1>3. MarkerBefore(w, n) <=> MarkerBefore(w, k)
    <2>1. ASSUME NEW i \in MarkerLines(w), i + 1 <= n PROVE i + 1 <= k
      BY <2>1, MarkerPlace
    <2>2. ASSUME NEW i \in MarkerLines(w), i + 1 <= k PROVE MarkerBefore(w, n)
      <3>1. i \in Nat /\ i + 1 <= Len(w) /\ w[i + 1] = NL /\ (i + 1 <= n \/ n < i)
        BY MarkerPlace, MarkerApart
      <3>2. CASE i + 1 <= n
        BY <3>2 DEF MarkerBefore
      <3>3. CASE n < i
        <4>1. PICK h \in Nat : h = i + 1 - n
          BY <3>1, <3>3
        <4>2. h \in 1..(k - n) /\ n + h = i + 1
          BY <2>2, <3>1, <3>3, <4>1
        <4>3. SameLines(w, n, k, d)
          BY <1>1, PartLines
        <4>4. \A j \in Int : j \in LineEnds(d) <=> j \in 1..(k - n) /\ w[n + j] = NL
          BY <4>3 DEF SameLines
        <4>5. w[n + h] = NL
          BY <3>1, <4>2
        <4>6. h \in LineEnds(d)
          BY <4>2, <4>4, <4>5
        <4>7. QED
          BY <4>6
      <3>4. QED
        BY <3>1, <3>2, <3>3
    <2>3. QED
      BY <2>1, <2>2 DEF MarkerBefore
  <1>4. Cut(w, k) = c \o d
    BY <1>1, <1>2, <1>3, CutGrows
  <1>5. CASE d = <<>>
    <2>1. Cut(w, k) = c /\ PartLine(d) = <<>> /\ c \o <<>> = c
      BY <1>4, <1>5, ConcatEmptySeq DEF PartLine
    <2>2. c = <<>> \/ c[Len(c)] = NL
      BY <1>1, <1>2, CutLines
    <2>3. QED
      BY <1>2, <2>1, <2>2 DEF Ended
  <1>6. CASE d # <<>>
    <2>1. PICK l \in Nat : l = Len(d)
      <3>1. d \in Seq(Tokens)
        BY <1>1
      <3>2. QED
        BY <3>1, LenProperties
    <2>2. l \in 1..l /\ d[l] # NL
      <3>1. d \in Seq(Tokens) /\ Len(d) = l /\ d # <<>>
        BY <1>1, <1>6, <2>1
      <3>2. l # 0 /\ DOMAIN d = 1..l
        BY <3>1, EmptySeq, LenProperties
      <3>3. l \in 1..l
        BY <3>2
      <3>4. QED
        BY <3>2, <3>3 DEF LineEnds
    <2>3. PICK t : t = c \o d
      OBVIOUS
    <2>4. d \in Seq(Tokens)
      BY <1>1
    <2>5. /\ t \in Seq(Tokens) /\ Len(t) = Len(c) + Len(d)
          /\ \A i \in 1..Len(c) + Len(d) : t[i] = IF i <= Len(c) THEN c[i] ELSE d[i - Len(c)]
      BY <2>3, <2>4, ConcatProperties
    <2>6. PICK e \in Nat : e = Len(c)
      BY LenProperties
    <2>7. PICK f \in Nat : f = e + l
      OBVIOUS
    <2>8. f \in 1..Len(c) + Len(d) /\ ~(f <= Len(c)) /\ f - Len(c) = l /\ Len(t) = f
      <3>1. l >= 1
        BY <2>2
      <3>2. Len(c) = e /\ Len(d) = l /\ Len(t) = e + l
        BY <2>1, <2>5, <2>6
      <3>3. QED
        BY <2>7, <3>1, <3>2
    <2>9. t[Len(t)] # NL /\ t # <<>>
      <3>1. t[f] = d[l]
        BY <2>5, <2>8
      <3>2. Len(t) # 0
        BY <2>2, <2>7, <2>8
      <3>3. QED
        BY <2>2, <2>8, <3>1, <3>2, EmptySeq
    <2>10. NL \in Tokens /\ <<NL>> \in Seq(Tokens)
      BY DEF NL, Tokens
    <2>11. Ended(t) = (c \o d) \o <<NL>>
      BY <2>3, <2>5, <2>9, <2>10, AppendIsConcat DEF Ended
    <2>12. PartLine(d) = d \o <<NL>>
      BY <1>6, <2>4, <2>10, AppendIsConcat DEF PartLine
    <2>13. (c \o d) \o <<NL>> = c \o (d \o <<NL>>)
      BY <2>4, <2>10, Associates
    <2>14. QED
      BY ONLY <1>2, <1>4, <2>3, <2>11, <2>12, <2>13
  <1>7. QED
    BY <1>5, <1>6

-----------------------------------------------------------------------------
(* The streams that a multiplexer still reads, and how far their output    *)
(* has been consumed.                                                      *)
Open(s) == s \in mux["tmp"].streams \cup mux["multi"].streams

Start(s) == got[s] - Len(data[s])

Flowing(s) ==
  /\ Len(data[s]) <= got[s] /\ got[s] <= Len(script[s])
  /\ data[s] = SubSeq(script[s], Start(s) + 1, got[s])
  /\ AtLine(script[s], Start(s))
  /\ printed[s] = Cut(script[s], Start(s))
  /\ linecheck[s] <=> ~MarkerBefore(script[s], Start(s))

(* Complete lines stay in the data only behind a marker, until the stream  *)
(* is transferred and its data looked at.                                  *)
Held(s) == s \in mux["multi"].checkdata \/ (hit /\ s \in mux["tmp"].streams)

StreamText(s) ==
  /\ Open(s) => Flowing(s) /\ (LineEnds(data[s]) = {} \/ Held(s))
  /\ life[s] # "unborn" /\ ~Open(s) => printed[s] = Shown(s)
  /\ life[s] = "unborn" => /\ got[s] = 0 /\ data[s] = <<>> /\ printed[s] = <<>> /\ ~linecheck[s]
                           /\ s \notin mux["tmp"].procs \cup mux["multi"].procs

StoreOK(m) == m.streams \cup m.streamless \subseteq m.procs /\ m.streams \cap m.streamless = {}

Stores ==
  /\ StoreOK(mux["tmp"]) /\ StoreOK(mux["multi"])
  /\ mux["tmp"].procs \cap mux["multi"].procs = {}
  /\ mux["tmp"].checkdata = {} /\ mux["multi"].checkdata \subseteq mux["multi"].streams
  /\ at \notin {"next", "check"} => mux[Current].checkdata = {}
  /\ ready \subseteq mux[Current].streams /\ left \subseteq mux[Current].streamless
  /\ at # "read" => ready = {} /\ left = {}

(* What the selector reported stays readable: nobody else reads it.        *)
Pipes ==
  /\ \A s \in ready : Readable(s)
  /\ \A s \in Servers : life[s] \in {"closed", "zombie", "reaped"} => sent[s] = Len(script[s])

Marked ==
  /\ \A s \in mux["multi"].procs : ~linecheck[s]
  /\ \A s \in Servers : s \in mux["multi"].procs \/ returns["multi"][s] # NoCode => MarkerRead(s)
  /\ \A s \in mux["tmp"].streams : linecheck[s] <=> ~hit
  /\ hit => /\ stage = "await" /\ at = "read" /\ ready = {}
            /\ mux["tmp"].procs \subseteq mux["tmp"].streams

Lines == \A s \in Servers : StreamText(s)

(* The text: where every token of every output is.                         *)
TInv == TextType /\ Stores /\ Pipes /\ Marked /\ Lines

(* The fields of a store after each operation.                             *)
LEMMA StoreFields ==
  ASSUME NEW m \in MuxType, NEW s \in Servers
  PROVE  /\ RemoveStream(m, s).streams = m.streams \ {s}
         /\ RemoveStream(m, s).streamless = m.streamless \cup {s}
         /\ RemoveStream(m, s).checkdata = m.checkdata
         /\ RemoveProc(m, s).streams = m.streams
         /\ RemoveProc(m, s).streamless = m.streamless \ {s}
         /\ RemoveProc(m, s).checkdata = m.checkdata
         /\ AddBareProc(m, s).streams = m.streams
         /\ AddBareProc(m, s).streamless = m.streamless \cup {s}
         /\ AddBareProc(m, s).checkdata = m.checkdata
         /\ \A b \in BOOLEAN : /\ AddStream(m, s, b).streams = m.streams \cup {s}
                               /\ AddStream(m, s, b).streamless = m.streamless \ {s}
                               /\ AddStream(m, s, b).checkdata = IF b THEN m.checkdata \cup {s} ELSE m.checkdata
  BY DEF MuxType, AddBareProc, AddStream, RemoveStream, RemoveProc

LEMMA TransferFields ==
  ASSUME NEW m \in MuxType, NEW s \in Servers
  PROVE  /\ AddStream(AddBareProc(m, s), s, TRUE).streams = m.streams \cup {s}
         /\ AddStream(AddBareProc(m, s), s, TRUE).streamless = m.streamless \ {s}
         /\ AddStream(AddBareProc(m, s), s, TRUE).checkdata = m.checkdata \cup {s}
         /\ RemoveProc(RemoveStream(m, s), s).streams = m.streams \ {s}
         /\ RemoveProc(RemoveStream(m, s), s).streamless = m.streamless \ {s}
         /\ RemoveProc(RemoveStream(m, s), s).checkdata = m.checkdata
  <1>1. PICK a, r : a = AddBareProc(m, s) /\ r = RemoveStream(m, s)
    OBVIOUS
  <1>2. a \in MuxType /\ r \in MuxType
    BY <1>1, StoreTypes
  <1>3. /\ a.streams = m.streams /\ a.streamless = m.streamless \cup {s} /\ a.checkdata = m.checkdata
        /\ r.streams = m.streams \ {s} /\ r.streamless = m.streamless \cup {s} /\ r.checkdata = m.checkdata
    BY <1>1, StoreFields
  <1>4. /\ AddStream(a, s, TRUE).streams = a.streams \cup {s}
        /\ AddStream(a, s, TRUE).streamless = a.streamless \ {s}
        /\ AddStream(a, s, TRUE).checkdata = a.checkdata \cup {s}
    BY <1>2, StoreFields
  <1>5. /\ RemoveProc(r, s).streams = r.streams /\ RemoveProc(r, s).streamless = r.streamless \ {s}
        /\ RemoveProc(r, s).checkdata = r.checkdata
    BY <1>2, StoreFields
  <1>6. QED
    BY <1>1, <1>3, <1>4, <1>5

(* A step that reads and prints nothing.                                   *)
LEMMA TextKept ==
  ASSUME Lines, UNCHANGED <<script, got, data, printed, linecheck>>,
         \A t \in Servers : /\ life'[t] = "unborn" <=> life[t] = "unborn"
                            /\ Open(t)' <=> Open(t)
                            /\ Held(t) => Held(t)'
                            /\ t \in mux'["tmp"].procs \cup mux'["multi"].procs =>
                                 t \in mux["tmp"].procs \cup mux["multi"].procs
  PROVE  Lines'
  <1> SUFFICES ASSUME NEW t \in Servers PROVE StreamText(t)'
    BY DEF Lines
  <1>1. StreamText(t)
    BY DEF Lines
  <1>2. Flowing(t) => Flowing(t)'
    BY DEF Flowing, Start
  <1>3. Shown(t)' = Shown(t)
    BY DEF Shown
  <1>4. QED
    BY <1>1, <1>2, <1>3 DEF StreamText

(* The tokens up to the k-th are read and their complete lines consumed.   *)
LEMMA FlowOn ==
  ASSUME NEW s \in Servers, script[s] \in Seq(Tokens), got[s] \in Nat, data[s] \in Seq(Tokens),
         linecheck[s] \in BOOLEAN, Flowing(s), NEW k \in Nat, got[s] <= k, k <= Len(script[s]),
         NEW c, c = Consumed(data[s] \o SubSeq(script[s], got[s] + 1, k), linecheck[s]),
         script'[s] = script[s], got'[s] = k, data'[s] = c.data, printed'[s] = printed[s] \o c.out,
         linecheck'[s] = (linecheck[s] /\ ~c.hit)
  PROVE  /\ Flowing(s)' /\ (c.hit \/ LineEnds(data'[s]) = {})
         /\ c.hit \in BOOLEAN /\ (c.hit => linecheck[s])
         /\ data'[s] \in Seq(Tokens) /\ printed'[s] \in Seq(Tokens)
         /\ k = got[s] /\ LineEnds(data[s]) = {} => ~c.hit
  <1>1. PICK w \in Seq(Tokens) : w = script[s]
    OBVIOUS
  <1>2. PICK g \in Nat : g = got[s]
    OBVIOUS
  <1>3. PICK n \in Nat : n = Start(s)
    BY LenProperties DEF Flowing, Start
  <1>4. n <= g /\ g <= k /\ k <= Len(w) /\ Len(w) \in Nat
    BY <1>1, <1>2, <1>3, LenProperties DEF Flowing, Start
  <1>5. /\ data[s] = SubSeq(w, n + 1, g) /\ AtLine(w, n) /\ printed[s] = Cut(w, n)
        /\ linecheck[s] <=> ~MarkerBefore(w, n)
    BY <1>1, <1>2, <1>3 DEF Flowing
  <1>6. PICK d : d = SubSeq(w, n + 1, k)
    OBVIOUS
  <1>7. data[s] \o SubSeq(w, g + 1, k) = d
    BY <1>4, <1>5, <1>6, PartsJoin
  <1>8. PICK b \in BOOLEAN : b = linecheck[s]
    OBVIOUS
  <1>9. /\ c.hit \in BOOLEAN /\ (c.hit => b) /\ (LineEnds(d) = {} => ~c.hit)
        /\ \E p \in Nat : Reached(w, n, k, p, c, b)
    <2>1. n <= k /\ k <= Len(w)
      BY <1>4
    <2>2. AtLine(w, n) /\ (b <=> ~MarkerBefore(w, n)) /\ c = Consumed(d, b)
      BY <1>1, <1>2, <1>5, <1>7, <1>8
    <2>3. Advances(w, n, k, d, c, b)
      BY <1>6, <2>1, <2>2, ConsumedReaches
    <2>4. QED
      BY <2>3 DEF Advances
  <1>10. PICK p \in Nat : Reached(w, n, k, p, c, b)
    BY <1>9
  <1>11. /\ p <= k /\ AtLine(w, p) /\ data'[s] = SubSeq(w, p + 1, k)
         /\ printed'[s] = Cut(w, p) /\ (linecheck'[s] <=> ~MarkerBefore(w, p))
         /\ c.hit \/ LineEnds(data'[s]) = {}
    BY <1>5, <1>8, <1>10 DEF Reached
  <1>12. data'[s] \in Seq(Tokens) /\ Len(data'[s]) = k - p
    <2>1. PICK e : e = SubSeq(w, p + 1, k)
      OBVIOUS
    <2>2. p <= k /\ k <= Len(w)
      BY <1>4, <1>11
    <2>3. e \in Seq(Tokens) /\ Len(e) = k - p
      BY <2>1, <2>2, Part
    <2>4. QED
      BY <1>11, <2>1, <2>3
  <1>13. printed'[s] \in Seq(Tokens)
    <2>1. p <= Len(w)
      BY <1>4, <1>11
    <2>2. QED
      BY <1>11, <2>1, CutIsSeq
  <1>14. Start(s)' = p /\ Len(data'[s]) <= got'[s] /\ got'[s] <= Len(script'[s])
    BY <1>1, <1>4, <1>11, <1>12 DEF Start
  <1>15. Flowing(s)'
    BY <1>1, <1>11, <1>14 DEF Flowing
  <1>16. k = got[s] /\ LineEnds(data[s]) = {} => ~c.hit
    BY <1>2, <1>5, <1>6, <1>9
  <1>17. QED
    BY <1>8, <1>9, <1>11, <1>12, <1>13, <1>15, <1>16

LEMMA BothMuxes == Muxes = {"tmp", "multi"} /\ Current \in Muxes /\ "tmp" # "multi"
  BY DEF Muxes, Current

(* Types that no step which reads and writes nothing changes.              *)
LEMMA TypesKept ==
  ASSUME TextType, UNCHANGED <<script, sent, got, data, printed>>
  PROVE  TextType'
  BY DEF TextType
(* The stores after each operation of the parent.                          *)
LEMMA SpawnStores ==
  ASSUME IInv, NEW s \in Servers, Spawn(s)
  PROVE  /\ mux'["tmp"].procs = {s} /\ mux'["tmp"].streams = {s}
         /\ mux'["tmp"].streamless = {} /\ mux'["tmp"].checkdata = {}
         /\ mux'["multi"] = mux["multi"]
  <1>1. PICK m : m = AddStream(AddBareProc(Empty, s), s, FALSE)
    OBVIOUS
  <1>2. m.procs = {s} /\ m.streams = {s} /\ m.streamless = {} /\ m.checkdata = {}
    BY <1>1 DEF AddStream, AddBareProc, Empty
  <1>3. mux' = [mux EXCEPT !["tmp"] = m] /\ mux \in [Muxes -> MuxType]
    BY <1>1 DEF Spawn, IInv, ControlType
  <1>4. QED
    BY <1>2, <1>3, BothMuxes

LEMMA SpawnText == ASSUME IInv, TInv, NEW s \in Servers, Spawn(s) PROVE TInv'
  <1> USE DEF TInv
  <1>1. /\ at = "next" /\ life[s] = "unborn" /\ stage = "second"
        /\ life' = [life EXCEPT ![s] = "alive"]
        /\ linecheck' = [linecheck EXCEPT ![s] = TRUE]
        /\ stage' = "await" /\ at' = "check"
        /\ UNCHANGED <<script, status, sent, got, data, printed, ready, left, hit, answer>>
        /\ returns'["multi"] = returns["multi"]
    BY BothMuxes DEF Spawn, IInv, Phase, ControlType
  <1>2. /\ mux'["tmp"].procs = {s} /\ mux'["tmp"].streams = {s}
        /\ mux'["tmp"].streamless = {} /\ mux'["tmp"].checkdata = {}
        /\ mux'["multi"] = mux["multi"]
    BY SpawnStores
  <1>3. mux["tmp"].procs = {} /\ mux["tmp"].streams = {} /\ ~hit /\ ready = {} /\ left = {}
    BY <1>1 DEF IInv, Awaited, Stores, StoreOK, Marked
  <1>4. /\ got[s] = 0 /\ data[s] = <<>> /\ printed[s] = <<>>
        /\ s \notin mux["multi"].procs
    BY <1>1 DEF Lines, StreamText
  <1>5. TextType'
    BY <1>1, TypesKept
  <1>6. Stores'
    BY <1>1, <1>2, <1>3, <1>4 DEF Stores, StoreOK, Current
  <1>7. Pipes'
    BY <1>1, <1>3 DEF Pipes, IInv, ControlType
  <1>8. linecheck'[s] = TRUE /\ \A t \in Servers \ {s} : linecheck'[t] = linecheck[t]
    BY <1>1 DEF IInv, ControlType
  <1>9. Marked'
    <2>1. \A t \in Servers : MarkerRead(t)' = MarkerRead(t)
      BY <1>1 DEF MarkerRead
    <2>2. \A t \in mux'["multi"].procs : t \in Servers \ {s}
      BY <1>2, <1>4, BothMuxes DEF IInv, ControlType, MuxType
    <2>3. QED
      BY <1>1, <1>2, <1>3, <1>8, <2>1, <2>2 DEF Marked
  <1>10. Flowing(s)' /\ LineEnds(data'[s]) = {}
    <2>1. script[s] \in Seq(Tokens) /\ Len(script[s]) \in Nat
      BY ScriptsAssumption, LenProperties DEF IInv, ControlType
    <2>2. /\ got'[s] = 0 /\ data'[s] = <<>> /\ printed'[s] = <<>> /\ script'[s] = script[s]
          /\ Len(<<>>) = 0
      BY <1>1, <1>4
    <2>3. Start(s)' = 0
      <3>1. PICK n \in Nat : n = Len(data'[s])
        BY <2>2
      <3>2. n = 0
        BY <2>2, <3>1
      <3>3. Start(s)' = got'[s] - n
        BY <3>1 DEF Start
      <3>4. QED
        BY <2>2, <3>2, <3>3
    <2>4. ~MarkerBefore(script[s], 0)
      <3>1. ASSUME NEW i \in MarkerLines(script[s]) PROVE ~(i + 1 <= 0)
        BY <2>1, MarkerPlace
      <3>2. QED
        BY <3>1 DEF MarkerBefore
    <2>5. SubSeq(script[s], 0 + 1, 0) = <<>>
      BY SubSeqEmpty
    <2>6. Cut(script[s], 0) = <<>>
      BY <2>1, <2>4, <2>5, CutBefore
    <2>7. QED
      BY <1>8, <2>1, <2>2, <2>3, <2>4, <2>5, <2>6 DEF Flowing, AtLine, LineEnds
  <1>11. Lines'
    <2> SUFFICES ASSUME NEW t \in Servers PROVE StreamText(t)'
      BY DEF Lines
    <2>1. life'[s] = "alive" /\ \A u \in Servers \ {s} : life'[u] = life[u]
      BY <1>1 DEF IInv, ControlType
    <2>2. CASE t = s
      BY <1>2, <1>10, <2>1, <2>2 DEF StreamText, Open
    <2>3. CASE t # s
      <3>1. StreamText(t) /\ (Open(t)' <=> Open(t)) /\ (Held(t) => Held(t)')
        BY <1>1, <1>2, <1>3, <2>3 DEF Lines, Open, Held
      <3>2. Flowing(t) => Flowing(t)'
        BY <1>1, <1>8, <2>3 DEF Flowing, Start
      <3>3. Shown(t)' = Shown(t)
        BY <1>1 DEF Shown
      <3>4. QED
        BY <1>1, <1>2, <1>8, <2>1, <2>3, <3>1, <3>2, <3>3 DEF StreamText
    <2>4. QED
      BY <2>2, <2>3
  <1>12. QED
    BY <1>5, <1>6, <1>7, <1>9, <1>11

LEMMA ProcessAllText == ASSUME IInv, TInv, ProcessAll PROVE TInv'
  <1> USE DEF TInv
  <1>1. /\ at = "next" /\ stage = "second" /\ stage' = "all" /\ at' = "check"
        /\ UNCHANGED <<child, stream, mux, returns, ready, left, hit, answer>>
    BY DEF ProcessAll, IInv, Phase
  <1>2. TextType'
    BY <1>1, TypesKept DEF child, stream
  <1>3. Stores'
    BY <1>1 DEF Stores, StoreOK, Current
  <1>4. Pipes' /\ Marked'
    BY <1>1 DEF Pipes, Readable, Pipe, Marked, MarkerRead, child, stream
  <1>5. Lines'
    BY <1>1, TextKept DEF Open, Held, child, stream
  <1>6. QED
    BY <1>2, <1>3, <1>4, <1>5

(* An empty multiplexer has nothing buffered.                              *)
LEMMA NothingText == ASSUME IInv, TInv, Nothing PROVE TInv'
  <1> USE DEF TInv
  <1>1. /\ at = "check" /\ mux[Current].procs = {} /\ at' \in {"check", "next"}
        /\ UNCHANGED <<child, stream, mux, returns, ready, left, hit, answer>>
    BY DEF Nothing
  <1>2. ~hit /\ ready = {} /\ left = {}
    BY <1>1 DEF Marked, Stores
  <1>3. TextType'
    BY <1>1, TypesKept DEF child, stream
  <1>4. Stores'
    BY <1>1, <1>2 DEF Stores, StoreOK
  <1>5. Pipes' /\ Marked'
    BY <1>1, <1>2 DEF Pipes, Marked, MarkerRead, child, stream
  <1>6. Lines'
    BY <1>1, TextKept DEF Open, Held, child, stream
  <1>7. QED
    BY <1>3, <1>4, <1>5, <1>6

LEMMA ReturnText == ASSUME IInv, TInv, Return PROVE TInv'
  <1> USE DEF TInv
  <1>1. /\ ready = {} /\ left = {} /\ ~hit /\ at' \in {"check", "next"}
        /\ UNCHANGED <<child, stream, mux, returns, ready, left, hit, answer>>
    BY DEF Return
  <1>2. TextType'
    BY <1>1, TypesKept DEF child, stream
  <1>3. Stores'
    BY <1>1 DEF Stores, StoreOK
  <1>4. Pipes' /\ Marked'
    BY <1>1 DEF Pipes, Marked, MarkerRead, child, stream
  <1>5. Lines'
    BY <1>1, TextKept DEF Open, Held, child, stream
  <1>6. QED
    BY <1>2, <1>3, <1>4, <1>5

LEMMA FinishText == ASSUME IInv, TInv, Finish PROVE TInv'
  <1> USE DEF TInv
  <1>1. /\ at = "check" /\ stage = "all" /\ mux["multi"].procs = {} /\ at' = "over"
        /\ UNCHANGED <<child, stream, mux, returns, stage, ready, left, hit>>
    BY DEF Finish
  <1>2. ~hit /\ ready = {} /\ left = {}
    BY <1>1 DEF Marked, Stores
  <1>3. TextType'
    BY <1>1, TypesKept DEF child, stream
  <1>4. Stores'
    BY <1>1, <1>2 DEF Stores, StoreOK, Current
  <1>5. Pipes' /\ Marked'
    BY <1>1, <1>2 DEF Pipes, Marked, MarkerRead, child, stream
  <1>6. Lines'
    BY <1>1, TextKept DEF Open, Held, child, stream
  <1>7. QED
    BY <1>3, <1>4, <1>5, <1>6

(* What the selector reports is readable, and a multiplexer at that point  *)
(* has nothing buffered.                                                   *)
LEMMA SelectText == ASSUME IInv, TInv, Select PROVE TInv'
  <1> USE DEF TInv
  <1>1. /\ at = "select" /\ at' = "read"
        /\ ready' = {s \in mux[Current].streams : Readable(s)} /\ left' = mux[Current].streamless
        /\ UNCHANGED <<child, stream, mux, returns, stage, hit, answer>>
    BY DEF Select
  <1>2. ~hit
    BY <1>1 DEF Marked
  <1>3. TextType'
    BY <1>1, TypesKept DEF child, stream
  <1>4. Stores'
    BY <1>1 DEF Stores, StoreOK, Current
  <1>5. Pipes'
    BY <1>1 DEF Pipes, Readable, Pipe, child, stream
  <1>6. Marked'
    BY <1>1, <1>2 DEF Marked, MarkerRead, child, stream
  <1>7. Lines'
    BY <1>1, TextKept DEF Open, Held, child, stream
  <1>8. QED
    BY <1>3, <1>4, <1>5, <1>6, <1>7

LEMMA WaitPidText == ASSUME IInv, TInv, WaitPid PROVE TInv'
  <1> USE DEF TInv
  <1>1. /\ at = "wait" /\ at' \in {"crashed", "read"}
        /\ at' = "read" => left' = mux[Current].streamless
        /\ at' = "crashed" => left' = left
        /\ \/ life' = life
           \/ \E s \in Servers : life[s] = "zombie" /\ life' = [life EXCEPT ![s] = "reaped"]
        /\ UNCHANGED <<script, status, sent, stream, mux, returns, stage, ready, hit, answer>>
    BY DEF WaitPid, Children
  <1>2. ~hit /\ ready = {} /\ left = {}
    BY <1>1 DEF Marked, Stores
  <1>3. \A t \in Servers : life'[t] # life[t] => life[t] = "zombie" /\ life'[t] = "reaped"
    BY <1>1 DEF IInv, ControlType
  <1>4. TextType'
    BY <1>1, TypesKept DEF stream
  <1>5. Stores'
    BY <1>1, <1>2 DEF Stores, StoreOK, Current
  <1>6. Pipes'
    BY <1>1, <1>2, <1>3 DEF Pipes
  <1>7. Marked'
    BY <1>1, <1>2 DEF Marked, MarkerRead, stream
  <1>8. Lines'
    <2>1. \A t \in Servers : life'[t] = "unborn" <=> life[t] = "unborn"
      BY <1>3
    <2>2. QED
      BY <1>1, <2>1, TextKept DEF Open, Held, stream
  <1>9. QED
    BY <1>4, <1>5, <1>6, <1>7, <1>8

(* What is in a pipe.                                                      *)
LEMMA PipeHas ==
  ASSUME IInv, TextType, NEW s \in Servers
  PROVE  /\ script[s] \in Seq(Tokens) /\ Len(script[s]) \in Nat
         /\ Pipe(s) \in Seq(Tokens) /\ Len(Pipe(s)) = sent[s] - got[s]
         /\ Pipe(s) # <<>> <=> got[s] < sent[s]
  <1>1. PICK w \in Seq(Tokens) : w = script[s]
    BY ScriptsAssumption DEF IInv, ControlType
  <1>2. PICK n \in Nat, k \in Nat : n = got[s] /\ k = sent[s]
    BY DEF TextType
  <1>3. n <= k /\ k <= Len(w)
    BY <1>1, <1>2 DEF TextType
  <1>4. Pipe(s) = SubSeq(w, n + 1, k)
    BY <1>1, <1>2 DEF Pipe
  <1>5. PICK d : d = SubSeq(w, n + 1, k)
    OBVIOUS
  <1>6. d \in Seq(Tokens) /\ Len(d) = k - n
    BY <1>3, <1>5, Part
  <1>7. d # <<>> <=> n < k
    BY <1>3, <1>6, EmptySeq
  <1>8. QED
    BY <1>1, <1>2, <1>4, <1>5, <1>6, <1>7, LenProperties

LEMMA ReadableHas ==
  ASSUME IInv, TextType, NEW s \in Servers
  PROVE  Readable(s) <=> got[s] < sent[s] \/ life[s] \in {"closed", "zombie", "reaped"}
  BY PipeHas DEF Readable

Reads ==
  \A s \in Servers : Readable(s) <=> got[s] < sent[s] \/ life[s] \in {"closed", "zombie", "reaped"}

LEMMA AllReads == IInv /\ TextType => Reads
  BY ReadableHas DEF Reads

LEMMA ChildText == ASSUME IInv, TInv, NEW s \in Servers, Child(s) PROVE TInv'
  <1> USE DEF TInv
  <1>1. /\ UNCHANGED <<script, status, stream, mux, returns, call, answer>>
        /\ \A t \in Servers : life'[t] = "unborn" <=> life[t] = "unborn"
        /\ \A t \in Servers : life[t] \in {"closed", "zombie", "reaped"} =>
                                life'[t] \in {"closed", "zombie", "reaped"}
    BY DEF Child, Write, Close, Die, IInv, ControlType
  <1>2. /\ sent' \in [Servers -> Nat]
        /\ \A t \in Servers : sent[t] <= sent'[t] /\ sent'[t] <= Len(script[t])
        /\ \A t \in Servers : life'[t] \in {"closed", "zombie", "reaped"} => sent'[t] = Len(script[t])
    <2>1. Len(script[s]) \in Nat /\ \A t \in Servers : Len(script[t]) \in Nat
      BY PipeHas
    <2>2. CASE Write(s)
      BY <2>1, <2>2 DEF Write, TextType, Pipes
    <2>3. CASE Close(s) \/ Die(s)
      BY <2>1, <2>3 DEF Close, Die, TextType, Pipes, IInv, ControlType
    <2>4. QED
      BY <2>2, <2>3 DEF Child
  <1>3. TextType'
    <2>1. /\ UNCHANGED <<script, got, data, printed>>
          /\ \A t \in Servers : got[t] \in Nat /\ sent[t] \in Nat /\ got[t] <= sent[t]
      BY <1>1 DEF TextType, stream
    <2>2. ASSUME NEW t \in Servers PROVE got'[t] <= sent'[t] /\ sent'[t] <= Len(script'[t])
      BY <1>2, <2>1
    <2>3. QED
      BY <1>2, <2>1, <2>2 DEF TextType
  <1>4. Stores'
    BY <1>1 DEF Stores, StoreOK, Current, call
  <1>5. Pipes'
    <2>1. IInv'
      BY ChildOK
    <2>2. ASSUME NEW t \in ready PROVE Readable(t)'
      <3>1. t \in Servers /\ Readable(t)
        BY DEF Pipes, IInv, ControlType
      <3>2. got[t] < sent[t] \/ life[t] \in {"closed", "zombie", "reaped"}
        BY <3>1, ReadableHas
      <3>3. got[t] \in Nat /\ sent[t] \in Nat /\ sent'[t] \in Nat /\ got'[t] = got[t]
        BY <1>1, <1>2, <3>1 DEF TextType, stream
      <3>4. got'[t] < sent'[t] \/ life'[t] \in {"closed", "zombie", "reaped"}
        BY <1>1, <1>2, <3>1, <3>2, <3>3
      <3>5. (Readable(t) <=> got[t] < sent[t] \/ life[t] \in {"closed", "zombie", "reaped"})'
        <4>1. Reads'
          BY AllReads, <1>3, <2>1, PTL
        <4>2. QED
          BY <3>1, <4>1 DEF Reads
      <3>6. QED
        BY <3>4, <3>5
    <2>3. QED
      BY <1>1, <1>2, <2>2 DEF Pipes, call
  <1>6. Marked'
    BY <1>1 DEF Marked, MarkerRead, stream, call
  <1>7. Lines'
    BY <1>1, TextKept DEF Open, Held, stream, call
  <1>8. QED
    BY <1>3, <1>4, <1>5, <1>6, <1>7
LEMMA RemoveStores ==
  ASSUME IInv, NEW s \in Servers, mux' = [mux EXCEPT ![Current] = RemoveProc(@, s)]
  PROVE  /\ mux'[Current].procs = mux[Current].procs \ {s}
         /\ mux'[Current].streams = mux[Current].streams
         /\ mux'[Current].streamless = mux[Current].streamless \ {s}
         /\ mux'[Current].checkdata = mux[Current].checkdata
         /\ \A m \in Muxes \ {Current} : mux'[m] = mux[m]
  <1>1. mux \in [Muxes -> MuxType] /\ mux[Current] \in MuxType /\ Current \in Muxes
    BY CurrentMux DEF IInv, ControlType
  <1>2. PICK r : r = RemoveProc(mux[Current], s)
    OBVIOUS
  <1>3. /\ r.procs = mux[Current].procs \ {s} /\ r.streams = mux[Current].streams
        /\ r.streamless = mux[Current].streamless \ {s} /\ r.checkdata = mux[Current].checkdata
    BY <1>1, <1>2, StoreFields, StoreProcs
  <1>4. mux' = [mux EXCEPT ![Current] = r]
    BY <1>2
  <1>5. QED
    BY <1>1, <1>3, <1>4

(* A process is polled only when no multiplexer reads it, and its end is   *)
(* collected by the common one only after its marker.                      *)
LEMMA PollText == ASSUME IInv, TInv, NEW s \in Servers, Poll(s) PROVE TInv'
  <1> USE DEF TInv
  <1>1. /\ at = "read" /\ ready = {} /\ s \in left /\ left' = left \ {s}
        /\ UNCHANGED <<script, status, sent, stream, stage, at, ready, hit, answer>>
        /\ \/ UNCHANGED <<life, returns, mux>>
           \/ /\ life[s] \in {"zombie", "reaped"}
              /\ life' = [life EXCEPT ![s] = "reaped"]
              /\ returns' = [returns EXCEPT ![Current][s] = Polled(s)]
              /\ mux' = [mux EXCEPT ![Current] = RemoveProc(@, s)]
    BY DEF Poll
  <1>2. TextType'
    BY <1>1, TypesKept DEF stream
  <1>3. CASE UNCHANGED <<life, returns, mux>>
    <2>1. Stores'
      BY <1>1, <1>3 DEF Stores, StoreOK, Current
    <2>2. Pipes' /\ Marked'
      BY <1>1, <1>3 DEF Pipes, Marked, MarkerRead, stream
    <2>3. Lines'
      BY <1>1, <1>3, TextKept DEF Open, Held, stream
    <2>4. QED
      BY <1>2, <2>1, <2>2, <2>3
  <1>4. CASE /\ life[s] \in {"zombie", "reaped"}
             /\ life' = [life EXCEPT ![s] = "reaped"]
             /\ returns' = [returns EXCEPT ![Current][s] = Polled(s)]
             /\ mux' = [mux EXCEPT ![Current] = RemoveProc(@, s)]
    <2>1. mux \in [Muxes -> MuxType] /\ mux[Current] \in MuxType /\ Current \in Muxes
      BY CurrentMux DEF IInv, ControlType
    <2>2. /\ mux'[Current].procs = mux[Current].procs \ {s}
          /\ mux'[Current].streams = mux[Current].streams
          /\ mux'[Current].streamless = mux[Current].streamless \ {s}
          /\ mux'[Current].checkdata = mux[Current].checkdata
          /\ \A m \in Muxes \ {Current} : mux'[m] = mux[m]
      BY <1>4, RemoveStores
    <2>3. /\ \A m \in Muxes : /\ mux'[m].streams = mux[m].streams
                              /\ mux'[m].checkdata = mux[m].checkdata
                              /\ mux'[m].procs \subseteq mux[m].procs
      BY <2>1, <2>2
    <2>4. /\ life'[s] = "reaped" /\ life[s] # "unborn"
          /\ \A t \in Servers \ {s} : life'[t] = life[t]
      BY <1>4 DEF IInv, ControlType
    <2>5. s \in mux[Current].streamless /\ s \notin mux[Current].streams
      BY <1>1, <2>1, BothMuxes DEF Stores, StoreOK
    <2>6. Current' = Current
      BY <1>1 DEF Current
    <2>7. Stores'
      BY <1>1, <2>1, <2>2, <2>3, <2>5, <2>6, BothMuxes DEF Stores, StoreOK
    <2>8. Pipes'
      BY <1>1, <1>4, <2>4 DEF Pipes, stream
    <2>9. Marked'
      <3>1. ASSUME NEW t \in Servers, returns'["multi"][t] # NoCode
            PROVE  returns["multi"][t] # NoCode \/ t \in mux["multi"].procs
        <4>1. CASE returns'["multi"][t] = returns["multi"][t]
          BY <3>1, <4>1
        <4>2. CASE returns'["multi"][t] # returns["multi"][t]
          <5>1. Current = "multi" /\ t = s
            BY <1>4, <4>2, BothMuxes DEF IInv, ControlType
          <5>2. QED
            BY <2>5, <5>1 DEF Stores, StoreOK
        <4>3. QED
          BY <4>1, <4>2
      <3>2. \A t \in Servers : MarkerRead(t)' = MarkerRead(t)
        BY <1>1 DEF MarkerRead, stream
      <3>3. /\ mux'["multi"].procs \subseteq mux["multi"].procs
            /\ mux'["tmp"].procs \subseteq mux["tmp"].procs
            /\ mux'["tmp"].streams = mux["tmp"].streams
        BY <2>3, BothMuxes
      <3>4. UNCHANGED <<linecheck, hit, stage, at, ready>>
        BY <1>1 DEF stream
      <3>5. QED
        BY <3>1, <3>2, <3>3, <3>4 DEF Marked
    <2>10. Lines'
      <3>1. UNCHANGED <<script, got, data, printed, linecheck, hit>>
        BY <1>1 DEF stream
      <3>2. ASSUME NEW t \in Servers
            PROVE  /\ life'[t] = "unborn" <=> life[t] = "unborn"
                   /\ Open(t)' <=> Open(t)
                   /\ Held(t) => Held(t)'
                   /\ t \in mux'["tmp"].procs \cup mux'["multi"].procs =>
                        t \in mux["tmp"].procs \cup mux["multi"].procs
        BY <2>3, <2>4, <3>1, BothMuxes DEF Open, Held
      <3>3. QED
        BY <3>1, <3>2, TextKept
    <2>11. QED
      BY <1>2, <2>7, <2>8, <2>9, <2>10
  <1>5. QED
    BY <1>1, <1>3, <1>4

LEMMA StoresTransferred ==
  ASSUME IInv, TInv, NEW s \in Servers, Transfer(s)
  PROVE  /\ mux'["multi"].procs = mux["multi"].procs \cup {s}
         /\ mux'["multi"].streams = mux["multi"].streams \cup {s}
         /\ mux'["multi"].streamless = mux["multi"].streamless \ {s}
         /\ mux'["multi"].checkdata = mux["multi"].checkdata \cup {s}
         /\ mux'["tmp"].procs = {} /\ mux'["tmp"].streams = {}
         /\ mux'["tmp"].streamless = {} /\ mux'["tmp"].checkdata = {}
  <1>1. mux["tmp"] \in MuxType /\ mux["multi"] \in MuxType /\ mux \in [Muxes -> MuxType]
    BY DEF IInv, ControlType, Muxes
  <1>2. PICK to, from : /\ to = AddStream(AddBareProc(mux["multi"], s), s, TRUE)
                        /\ from = RemoveProc(RemoveStream(mux["tmp"], s), s)
    OBVIOUS
  <1>3. mux' = [mux EXCEPT !["multi"] = to, !["tmp"] = from]
    BY <1>2 DEF Transfer
  <1>4. mux'["tmp"] = from /\ mux'["multi"] = to
    BY <1>1, <1>3, BothMuxes
  <1>5. /\ to.procs = mux["multi"].procs \cup {s}
        /\ to.streams = mux["multi"].streams \cup {s}
        /\ to.streamless = mux["multi"].streamless \ {s}
        /\ to.checkdata = mux["multi"].checkdata \cup {s}
    BY <1>1, <1>2, TransferFields, TransferStores
  <1>6. /\ from.procs = mux["tmp"].procs \ {s} /\ from.streams = mux["tmp"].streams \ {s}
        /\ from.streamless = mux["tmp"].streamless \ {s} /\ from.checkdata = mux["tmp"].checkdata
    BY <1>1, <1>2, TransferFields, TransferStores
  <1>7. mux["tmp"].procs = {s} /\ mux["tmp"].streams = {s} /\ mux["tmp"].streamless = {}
        /\ mux["tmp"].checkdata = {}
    BY DEF TInv, Transfer, Marked, IInv, Awaited, Stores, StoreOK
  <1>8. QED
    BY <1>4, <1>5, <1>6, <1>7

(* The marker has been read, and the lines behind it wait in the data.     *)
LEMMA TransferText == ASSUME IInv, TInv, NEW s \in Servers, Transfer(s) PROVE TInv'
  <1> USE DEF TInv
  <1>1. /\ at = "read" /\ ready = {} /\ left = {} /\ hit /\ s \in mux["tmp"].procs
        /\ hit' = FALSE /\ stage' = "first" /\ at' = "check"
        /\ UNCHANGED <<child, stream, returns, ready, left, answer>>
    BY DEF Transfer
  <1>2. /\ stage = "await" /\ s \in mux["tmp"].streams /\ ~linecheck[s]
        /\ mux["tmp"].procs = {s} /\ mux["tmp"].streams = {s}
        /\ mux["tmp"].streamless = {} /\ mux["tmp"].checkdata = {}
        /\ s \notin mux["multi"].procs
    BY <1>1 DEF Marked, IInv, Awaited, Stores, StoreOK
  <1>3. /\ mux'["multi"].procs = mux["multi"].procs \cup {s}
        /\ mux'["multi"].streams = mux["multi"].streams \cup {s}
        /\ mux'["multi"].streamless = mux["multi"].streamless \ {s}
        /\ mux'["multi"].checkdata = mux["multi"].checkdata \cup {s}
        /\ mux'["tmp"].procs = {} /\ mux'["tmp"].streams = {}
        /\ mux'["tmp"].streamless = {} /\ mux'["tmp"].checkdata = {}
    BY StoresTransferred
  <1>4. TextType'
    BY <1>1, TypesKept DEF child, stream
  <1>5. Stores'
    BY <1>1, <1>2, <1>3 DEF Stores, StoreOK
  <1>6. Pipes'
    BY <1>1 DEF Pipes, child
  <1>7. MarkerRead(s)
    <2>1. Flowing(s)
      BY <1>2 DEF Lines, StreamText, Open
    <2>2. MarkerBefore(script[s], Start(s))
      BY <1>2, <2>1 DEF Flowing
    <2>3. PICK i \in MarkerLines(script[s]) : i + 1 <= Start(s)
      BY <2>2 DEF MarkerBefore
    <2>4. script[s] \in Seq(Tokens)
      BY PipeHas
    <2>5. i \in Nat
      BY <2>3, <2>4, MarkerPlace
    <2>6. got[s] \in Nat /\ Len(data[s]) \in Nat
      BY LenProperties DEF TextType
    <2>7. i + 1 <= got[s]
      BY <2>3, <2>5, <2>6 DEF Start
    <2>8. QED
      BY <2>3, <2>7 DEF MarkerRead, MarkerBefore
  <1>8. Marked'
    <2>1. UNCHANGED <<script, got, linecheck, returns>>
      BY <1>1 DEF child, stream
    <2>2. \A t \in Servers : MarkerRead(t)' = MarkerRead(t)
      BY <2>1 DEF MarkerRead
    <2>3. QED
      BY <1>1, <1>2, <1>3, <1>7, <2>1, <2>2 DEF Marked
  <1>9. Lines'
    <2>1. UNCHANGED <<script, got, data, printed, linecheck, life>>
      BY <1>1 DEF child, stream
    <2>2. ASSUME NEW t \in Servers
          PROVE  /\ life'[t] = "unborn" <=> life[t] = "unborn"
                 /\ Open(t)' <=> Open(t)
                 /\ Held(t) => Held(t)'
                 /\ t \in mux'["tmp"].procs \cup mux'["multi"].procs =>
                      t \in mux["tmp"].procs \cup mux["multi"].procs
      BY <1>2, <1>3, <2>1 DEF Open, Held
    <2>3. QED
      BY <2>1, <2>2, TextKept
  <1>10. QED
    BY <1>4, <1>5, <1>6, <1>8, <1>9

(* What the lines of one stream leave in the variables.                    *)
LEMMA FlowingTypes ==
  ASSUME IInv, TextType, NEW s \in Servers
  PROVE  /\ script[s] \in Seq(Tokens) /\ Len(script[s]) \in Nat
         /\ got[s] \in Nat /\ sent[s] \in Nat /\ got[s] <= sent[s] /\ sent[s] <= Len(script[s])
         /\ data[s] \in Seq(Tokens) /\ printed[s] \in Seq(Tokens) /\ linecheck[s] \in BOOLEAN
  BY PipeHas DEF TextType, IInv, ControlType
LEMMA CheckStores ==
  ASSUME IInv, Check
  PROVE  /\ mux'[Current].checkdata = {}
         /\ \A m \in Muxes : /\ mux'[m].procs = mux[m].procs /\ mux'[m].streams = mux[m].streams
                             /\ mux'[m].streamless = mux[m].streamless
         /\ \A m \in Muxes \ {Current} : mux'[m].checkdata = mux[m].checkdata
  <1>1. PICK r : r = [mux[Current] EXCEPT !.checkdata = {}]
    OBVIOUS
  <1>2. mux \in [Muxes -> MuxType] /\ mux[Current] \in MuxType
    BY CurrentMux DEF IInv, ControlType
  <1>3. /\ r.checkdata = {} /\ r.procs = mux[Current].procs
        /\ r.streams = mux[Current].streams /\ r.streamless = mux[Current].streamless
    BY <1>1, <1>2 DEF MuxType
  <1>4. mux' = [mux EXCEPT ![Current] = r]
    BY <1>1 DEF Check
  <1>5. QED
    BY <1>2, <1>3, <1>4, CurrentMux

(* Only transferred streams have data to be looked at, and their marker is *)
(* behind them.                                                            *)
LEMMA CheckText == ASSUME IInv, TInv, Check PROVE TInv'
  <1> USE DEF TInv
  <1> DEFINE C == mux[Current].checkdata
  <1>1. /\ at = "check" /\ at' \in {"wait", "select"}
        /\ data' = [t \in Servers |-> IF t \in C THEN Consumed(data[t], linecheck[t]).data ELSE data[t]]
        /\ printed' = [t \in Servers |-> IF t \in C THEN printed[t] \o Consumed(data[t], linecheck[t]).out
                                                    ELSE printed[t]]
        /\ linecheck' = [t \in Servers |-> linecheck[t] /\ ~(t \in C /\ Consumed(data[t], linecheck[t]).hit)]
        /\ hit' = \E t \in C : Consumed(data[t], linecheck[t]).hit
        /\ mux' = [mux EXCEPT ![Current].checkdata = {}]
        /\ UNCHANGED <<child, got, returns, stage, ready, left, answer>>
    BY DEF Check
  <1>2. ~hit /\ ready = {} /\ left = {}
    BY <1>1 DEF Marked, Stores
  <1>3. C \subseteq mux["multi"].checkdata /\ C \subseteq mux["multi"].streams /\ C \subseteq mux["multi"].procs
    BY DEF Stores, StoreOK, Current
  <1>4. mux["multi"].procs \subseteq Servers
    BY BothMuxes DEF IInv, ControlType, MuxType
  <1>5. UNCHANGED <<script, status, life, sent, got>>
    BY <1>1 DEF child
  <1>6. ASSUME NEW t \in C
        PROVE  /\ t \in Servers /\ Flowing(t)' /\ LineEnds(data'[t]) = {}
               /\ ~Consumed(data[t], linecheck[t]).hit
               /\ data'[t] \in Seq(Tokens) /\ printed'[t] \in Seq(Tokens)
    <2>1. t \in Servers /\ ~linecheck[t] /\ Flowing(t)
      BY <1>3, <1>4 DEF Marked, Lines, StreamText, Open
    <2>2. /\ script[t] \in Seq(Tokens) /\ Len(script[t]) \in Nat /\ got[t] \in Nat
          /\ got[t] <= Len(script[t])
          /\ data[t] \in Seq(Tokens) /\ linecheck[t] \in BOOLEAN
      BY <2>1, FlowingTypes DEF Flowing
    <2>3. PICK k \in Nat : k = got[t]
      BY <2>2
    <2>4. data[t] \o SubSeq(script[t], got[t] + 1, k) = data[t]
      <3>1. PICK n \in Int : n = k + 1
        OBVIOUS
      <3>2. SubSeq(script[t], n, k) = <<>>
        BY <3>1, SubSeqEmpty
      <3>3. SubSeq(script[t], got[t] + 1, k) = <<>>
        BY <2>3, <3>1, <3>2
      <3>4. QED
        BY <2>2, <3>3, ConcatEmptySeq
    <2>5. PICK c : c = Consumed(data[t] \o SubSeq(script[t], got[t] + 1, k), linecheck[t])
      OBVIOUS
    <2>6. c = Consumed(data[t], linecheck[t])
      BY <2>4, <2>5
    <2>7. /\ script'[t] = script[t] /\ got'[t] = k /\ data'[t] = c.data
          /\ printed'[t] = printed[t] \o c.out
          /\ linecheck'[t] = (linecheck[t] /\ ~c.hit)
      BY <1>1, <1>5, <2>1, <2>3, <2>6
    <2>8. got[t] <= k /\ k <= Len(script[t])
      BY <2>2, <2>3
    <2>9. /\ Flowing(t)' /\ (c.hit \/ LineEnds(data'[t]) = {})
          /\ c.hit \in BOOLEAN /\ (c.hit => linecheck[t])
          /\ data'[t] \in Seq(Tokens) /\ printed'[t] \in Seq(Tokens)
      BY <2>1, <2>2, <2>5, <2>7, <2>8, FlowOn
    <2>10. QED
      BY <2>1, <2>6, <2>9
  <1>7. ASSUME NEW t \in Servers, t \notin C
        PROVE  data'[t] = data[t] /\ printed'[t] = printed[t] /\ linecheck'[t] = linecheck[t]
    BY <1>1, <1>7 DEF IInv, ControlType
  <1>8. hit' = FALSE /\ \A t \in Servers : linecheck'[t] = linecheck[t]
    <2>1. hit' = FALSE
      BY <1>1, <1>6
    <2>2. ASSUME NEW t \in C PROVE linecheck'[t] = linecheck[t]
      BY <1>1, <1>6 DEF IInv, ControlType
    <2>3. QED
      BY <1>7, <2>1, <2>2
  <1>9. /\ mux'[Current].checkdata = {}
        /\ \A m \in Muxes : /\ mux'[m].procs = mux[m].procs /\ mux'[m].streams = mux[m].streams
                            /\ mux'[m].streamless = mux[m].streamless
        /\ \A m \in Muxes \ {Current} : mux'[m].checkdata = mux[m].checkdata
    BY CheckStores
  <1>10. TextType'
    <2>1. data' \in [Servers -> Seq(Tokens)]
      <3>1. ASSUME NEW t \in Servers PROVE data'[t] \in Seq(Tokens)
        BY <1>6, <1>7 DEF TextType
      <3>2. QED
        BY <1>1, <3>1
    <2>2. printed' \in [Servers -> Seq(Tokens)]
      <3>1. ASSUME NEW t \in Servers PROVE printed'[t] \in Seq(Tokens)
        BY <1>6, <1>7 DEF TextType
      <3>2. QED
        BY <1>1, <3>1
    <2>3. QED
      BY <1>5, <2>1, <2>2 DEF TextType
  <1>11. Current' = Current
    BY <1>1 DEF Current
  <1> HIDE DEF C
  <1>12. Stores'
    BY <1>1, <1>2, <1>9, <1>11, BothMuxes DEF Stores, StoreOK
  <1>13. Pipes'
    BY <1>1, <1>2, <1>5 DEF Pipes
  <1>14. Marked'
    <2>1. \A t \in Servers : MarkerRead(t)' = MarkerRead(t)
      BY <1>5 DEF MarkerRead
    <2>2. mux["tmp"].streams \subseteq Servers
      BY BothMuxes DEF IInv, ControlType, MuxType
    <2>3. UNCHANGED returns
      BY <1>1
    <2>4. QED
      BY <1>2, <1>4, <1>8, <1>9, <2>1, <2>2, <2>3, BothMuxes DEF Marked
  <1>15. Lines'
    <2> SUFFICES ASSUME NEW t \in Servers PROVE StreamText(t)'
      BY DEF Lines
    <2>1. (Open(t)' <=> Open(t)) /\ life'[t] = life[t] /\ StreamText(t) /\ Shown(t)' = Shown(t)
      BY <1>5, <1>9, BothMuxes DEF Open, Lines, Shown
    <2>2. CASE t \in C
      <3>1. Open(t)' /\ life'[t] # "unborn"
        BY <1>3, <2>1, <2>2 DEF Open, StreamText
      <3>2. QED
        BY <1>6, <2>2, <3>1 DEF StreamText
    <2>3. CASE t \notin C
      <3>1. UNCHANGED <<data[t], printed[t], linecheck[t]>>
        BY <1>7, <2>3
      <3>2. Flowing(t) => Flowing(t)'
        BY <1>5, <3>1 DEF Flowing, Start
      <3>3. Held(t) => Held(t)'
        BY <1>2, <1>9, <2>3, BothMuxes DEF Held, C
      <3>4. t \in mux'["tmp"].procs \cup mux'["multi"].procs <=> t \in mux["tmp"].procs \cup mux["multi"].procs
        BY <1>9, BothMuxes
      <3>5. QED
        BY <1>5, <2>1, <3>1, <3>2, <3>3, <3>4 DEF StreamText
    <2>4. QED
      BY <2>2, <2>3
  <1>16. QED
    BY <1>10, <1>12, <1>13, <1>14, <1>15

LEMMA InitText == Init => TInv
  <1> SUFFICES ASSUME Init PROVE TInv
    OBVIOUS
  <1>1. IInv
    BY InitOK
  <1>2. TextType
    <2>1. ASSUME NEW s \in Servers PROVE Len(script[s]) \in Nat
      <3>1. script[s] \in Seq(Tokens)
        BY <1>1, ScriptsAssumption DEF IInv, ControlType
      <3>2. QED
        BY <3>1, LenProperties
    <2>2. <<>> \in Seq(Tokens)
      BY EmptySeq
    <2>3. /\ sent = [s \in Servers |-> 0] /\ got = [s \in Servers |-> 0]
          /\ data = [s \in Servers |-> <<>>] /\ printed = [s \in Servers |-> <<>>]
      BY DEF Init
    <2>4. QED
      BY <2>1, <2>2, <2>3 DEF TextType
  <1>3. /\ mux["tmp"] = Empty /\ mux["multi"] = Empty
        /\ Empty.procs = {} /\ Empty.streams = {} /\ Empty.streamless = {} /\ Empty.checkdata = {}
        /\ Current = "multi"
    BY BothMuxes DEF Init, Empty, Current
  <1>4. Stores
    BY <1>3 DEF Init, Stores, StoreOK
  <1>5. Pipes /\ Marked /\ Lines
    BY <1>3, BothMuxes DEF Init, Pipes, Marked, Lines, StreamText, Open
  <1>6. QED
    BY <1>2, <1>4, <1>5 DEF TInv

(* What one read takes from a pipe: the next tokens of the output, and     *)
(* none only if there are none.                                            *)
LEMMA TakenIs ==
  ASSUME IInv, TextType, NEW s \in Servers
  PROVE  /\ Taken(s) \in Nat /\ got[s] + Taken(s) <= sent[s]
         /\ SubSeq(Pipe(s), 1, Taken(s)) = SubSeq(script[s], got[s] + 1, got[s] + Taken(s))
         /\ SubSeq(Pipe(s), 1, Taken(s)) = <<>> => Taken(s) = 0 /\ got[s] = sent[s]
  <1>1. PICK w \in Seq(Tokens) : w = script[s]
    BY FlowingTypes
  <1>2. PICK n \in Nat, k \in Nat : n = got[s] /\ k = sent[s] /\ n <= k /\ k <= Len(w)
    BY <1>1, FlowingTypes
  <1>3. PICK l \in Nat : l = k - n
    BY <1>2
  <1>4. Len(Pipe(s)) = l
    BY <1>2, <1>3, PipeHas
  <1>5. PICK t : t = Taken(s)
    OBVIOUS
  <1>6. t \in {l, Chunk} /\ t <= l /\ t <= Chunk
    <2>1. PICK T : T = {l, Chunk}
      OBVIOUS
    <2>2. T \subseteq Nat /\ T # {} /\ l \in T /\ Chunk \in T
      BY <2>1, BoundsAssumption
    <2>3. t = Min(T)
      BY <1>4, <1>5, <2>1 DEF Taken
    <2>4. QED
      BY <2>1, <2>2, <2>3, MinOf
  <1>7. t \in Nat /\ n + t <= k
    BY <1>2, <1>3, <1>6, BoundsAssumption
  <1>8. SubSeq(w, n + 1, k) = Pipe(s)
    BY <1>1, <1>2 DEF Pipe
  <1>9. SubSeq(Pipe(s), 0 + 1, t) = SubSeq(w, (n + 0) + 1, n + t)
    <2>1. 0 <= t /\ t <= k - n /\ 0 \in Nat
      BY <1>2, <1>7
    <2>2. n \in Nat /\ k \in Nat /\ n <= k /\ k <= Len(w) /\ t \in Nat
      BY <1>2, <1>7
    <2>3. SubSeq(SubSeq(w, n + 1, k), 0 + 1, t) = SubSeq(w, (n + 0) + 1, n + t)
      BY ONLY <2>1, <2>2, w \in Seq(Tokens), PartOfPart
    <2>4. QED
      BY <1>8, <2>3
  <1>10. SubSeq(Pipe(s), 1, t) = SubSeq(w, n + 1, n + t)
    <2>1. 0 + 1 = 1 /\ n + 0 = n
      OBVIOUS
    <2>2. QED
      BY <1>9, <2>1
  <1>11. ASSUME SubSeq(Pipe(s), 1, t) = <<>> PROVE t = 0 /\ n = k
    <2>1. PICK p \in Nat : p = n + t
      BY <1>7
    <2>2. PICK d : d = SubSeq(w, n + 1, p)
      OBVIOUS
    <2>3. n <= p /\ p <= Len(w)
      BY <1>2, <1>7, <2>1, LenProperties
    <2>4. d \in Seq(Tokens) /\ Len(d) = p - n
      BY <2>2, <2>3, Part
    <2>5. d = <<>>
      BY <1>10, <1>11, <2>1, <2>2
    <2>6. p - n = 0
      BY <2>4, <2>5, EmptySeq
    <2>7. t = 0
      BY <1>7, <2>1, <2>6
    <2>8. QED
      BY <1>2, <1>3, <1>6, <2>7, BoundsAssumption
  <1>12. QED
    BY <1>1, <1>2, <1>5, <1>7, <1>10, <1>11

LEMMA EndedIsSeq == ASSUME NEW t \in Seq(Tokens) PROVE Ended(t) \in Seq(Tokens)
  <1>1. NL \in Tokens
    BY DEF NL, Tokens
  <1>2. QED
    BY <1>1, AppendProperties DEF Ended

LEMMA ShownIsSeq == ASSUME IInv, TextType, NEW s \in Servers PROVE Shown(s) \in Seq(Tokens)
  <1>1. PICK w \in Seq(Tokens), k \in Nat : w = script[s] /\ k = Len(w)
    BY FlowingTypes
  <1>2. Cut(w, k) \in Seq(Tokens)
    BY <1>1, CutIsSeq
  <1>3. QED
    BY <1>1, <1>2, EndedIsSeq DEF Shown

(* A line is looked for in complete lines only.                            *)
LEMMA NoLineNoHit ==
  ASSUME NEW d, LineEnds(d) = {}, NEW b \in BOOLEAN
  PROVE  Consumed(d, b).hit = FALSE
  <1>1. MarkerLines(d) = {}
    BY DEF MarkerLines
  <1>2. QED
    BY <1>1 DEF Consumed

(* A stream that is to be read holds no complete lines.                    *)
LEMMA ReadStart ==
  ASSUME IInv, TInv, NEW s \in Servers, Read(s)
  PROVE  /\ at = "read" /\ s \in ready /\ ~hit /\ s \in mux[Current].streams
         /\ Open(s) /\ Flowing(s) /\ LineEnds(data[s]) = {} /\ life[s] # "unborn" /\ Readable(s)
         /\ \A m \in Muxes \ {Current} : s \notin mux[m].procs
         /\ linecheck[s] => Current = "tmp" /\ stage = "await" /\ ready = {s} /\ mux["tmp"].procs = {s}
                            /\ mux["tmp"].streams = {s}
  <1> USE DEF TInv
  <1>1. at = "read" /\ s \in ready
    BY DEF Read
  <1>2. s \in mux[Current].streams /\ mux[Current].checkdata = {} /\ ready \subseteq mux[Current].streams
    BY <1>1 DEF Stores
  <1>3. ~hit /\ Readable(s)
    BY <1>1 DEF Marked, Pipes
  <1>4. s \in mux[Current].procs /\ \A m \in Muxes \ {Current} : s \notin mux[m].procs
    BY <1>2, BothMuxes DEF Stores, StoreOK
  <1>5. Open(s) /\ life[s] # "unborn"
    BY <1>2, <1>4, BothMuxes DEF Open, Lines, StreamText
  <1>6. s \notin mux["multi"].checkdata
    BY <1>2, <1>4, BothMuxes DEF Stores, StoreOK
  <1>7. Flowing(s) /\ LineEnds(data[s]) = {}
    BY <1>3, <1>5, <1>6 DEF Lines, StreamText, Held
  <1>8. ASSUME linecheck[s]
        PROVE  Current = "tmp" /\ stage = "await" /\ ready = {s} /\ mux["tmp"].procs = {s}
               /\ mux["tmp"].streams = {s}
    <2>1. Current = "tmp" /\ stage = "await"
      BY <1>4, <1>8, BothMuxes DEF Marked, Current
    <2>2. mux["tmp"].procs = {s}
      BY <1>4, <2>1 DEF IInv, Awaited
    <2>3. QED
      BY <1>1, <1>2, <2>1, <2>2 DEF Stores, StoreOK
  <1>9. QED
    BY <1>1, <1>2, <1>3, <1>4, <1>5, <1>7, <1>8

(* More of the output was read.                                            *)
LEMMA ReadData ==
  ASSUME IInv, TInv, NEW s \in Servers, Read(s), SubSeq(Pipe(s), 1, Taken(s)) # <<>>
  PROVE  TInv'
  <1> USE DEF TInv
  <1>1. PICK c : c = Consumed(data[s] \o SubSeq(Pipe(s), 1, Taken(s)), linecheck[s])
    OBVIOUS
  <1>2. /\ ready' = ready \ {s}
        /\ got' = [got EXCEPT ![s] = @ + Taken(s)]
        /\ linecheck' = [linecheck EXCEPT ![s] = @ /\ ~c.hit]
        /\ hit' = (hit \/ c.hit)
        /\ data' = [data EXCEPT ![s] = c.data]
        /\ printed' = [printed EXCEPT ![s] = @ \o c.out]
        /\ UNCHANGED <<child, mux, left, returns, stage, at, answer>>
    BY <1>1 DEF Read
  <1>3. /\ at = "read" /\ s \in ready /\ ~hit /\ s \in mux[Current].streams
        /\ Open(s) /\ Flowing(s) /\ LineEnds(data[s]) = {} /\ life[s] # "unborn" /\ Readable(s)
        /\ linecheck[s] => Current = "tmp" /\ stage = "await" /\ ready = {s} /\ mux["tmp"].procs = {s}
                           /\ mux["tmp"].streams = {s}
    BY ReadStart
  <1>4. PICK k : k = got[s] + Taken(s)
    OBVIOUS
  <1>5. /\ k \in Nat /\ got[s] <= k /\ k <= sent[s] /\ k <= Len(script[s])
        /\ c = Consumed(data[s] \o SubSeq(script[s], got[s] + 1, k), linecheck[s])
    <2>1. Taken(s) \in Nat /\ got[s] + Taken(s) <= sent[s]
      BY TakenIs
    <2>2. SubSeq(Pipe(s), 1, Taken(s)) = SubSeq(script[s], got[s] + 1, got[s] + Taken(s))
      BY TakenIs
    <2>3. c = Consumed(data[s] \o SubSeq(script[s], got[s] + 1, k), linecheck[s])
      BY <1>1, <1>4, <2>2
    <2>4. /\ got[s] \in Nat /\ sent[s] \in Nat /\ Len(script[s]) \in Nat
          /\ sent[s] <= Len(script[s])
      BY FlowingTypes
    <2>5. k \in Nat /\ got[s] <= k /\ k <= sent[s] /\ k <= Len(script[s])
      BY <1>4, <2>1, <2>4
    <2>6. QED
      BY <2>3, <2>5
  <1>6. /\ got'[s] = k /\ data'[s] = c.data /\ printed'[s] = printed[s] \o c.out
        /\ linecheck'[s] = (linecheck[s] /\ ~c.hit)
        /\ \A t \in Servers \ {s} : /\ got'[t] = got[t] /\ data'[t] = data[t]
                                    /\ printed'[t] = printed[t] /\ linecheck'[t] = linecheck[t]
        /\ UNCHANGED <<script, life, status, sent>>
    BY <1>2, <1>4 DEF TextType, IInv, ControlType, child
  <1>7. /\ Flowing(s)' /\ (c.hit \/ LineEnds(data'[s]) = {})
        /\ c.hit \in BOOLEAN /\ (c.hit => linecheck[s])
        /\ data'[s] \in Seq(Tokens) /\ printed'[s] \in Seq(Tokens)
    <2>1. script[s] \in Seq(Tokens) /\ got[s] \in Nat /\ data[s] \in Seq(Tokens) /\ linecheck[s] \in BOOLEAN
      BY FlowingTypes
    <2>2. script'[s] = script[s]
      BY <1>6
    <2>3. QED
      BY <1>3, <1>5, <1>6, <2>1, <2>2, FlowOn
  <1>8. TextType'
    BY <1>2, <1>5, <1>6, <1>7 DEF TextType
  <1>9. Current' = Current /\ (hit' <=> c.hit)
    BY <1>2, <1>3, <1>7 DEF Current
  <1>10. Stores'
    BY <1>2, <1>3, <1>9 DEF Stores, StoreOK
  <1>11. Pipes'
    <2>1. ASSUME NEW t \in ready' PROVE Readable(t)'
      <3>1. t \in Servers /\ t # s /\ Readable(t)
        BY <1>2, <2>1 DEF Pipes, IInv, ControlType
      <3>2. QED
        BY <1>6, <3>1 DEF Readable, Pipe
    <2>2. QED
      BY <1>6, <2>1 DEF Pipes
  <1>12. Marked'
    <2>1. ASSUME NEW t \in Servers, MarkerRead(t) PROVE MarkerRead(t)'
      <3>1. PICK i \in MarkerLines(script[t]) : i + 1 <= got[t]
        BY <2>1 DEF MarkerRead, MarkerBefore
      <3>2. script[t] \in Seq(Tokens) /\ got[t] \in Nat
        BY FlowingTypes
      <3>3. i \in Nat
        BY <3>2, MarkerPlace
      <3>4. got'[t] \in Nat /\ got[t] <= got'[t]
        BY <1>5, <1>6, <3>2
      <3>5. i + 1 <= got'[t] /\ script'[t] = script[t]
        BY <1>6, <3>1, <3>2, <3>3, <3>4
      <3>6. QED
        BY <3>5 DEF MarkerRead, MarkerBefore
    <2>2. \A t \in mux["multi"].procs \cup mux["tmp"].streams : t \in Servers
      BY BothMuxes DEF IInv, ControlType, MuxType
    <2>3. \A t \in mux'["multi"].procs : ~linecheck'[t]
      BY <1>2, <1>6, <2>2 DEF Marked
    <2>4. \A t \in Servers : t \in mux'["multi"].procs \/ returns'["multi"][t] # NoCode => MarkerRead(t)'
      BY <1>2, <2>1 DEF Marked
    <2>5. \A t \in mux'["tmp"].streams : linecheck'[t] <=> ~hit'
      <3>1. CASE c.hit
        BY <1>2, <1>3, <1>6, <1>7, <1>9, <3>1
      <3>2. CASE ~c.hit
        <4>1. ASSUME NEW t \in mux["tmp"].streams PROVE linecheck'[t] = linecheck[t]
          BY <1>6, <2>2, <3>2 DEF IInv, ControlType
        <4>2. QED
          BY <1>2, <1>3, <1>9, <3>2, <4>1 DEF Marked
      <3>3. QED
        BY <3>1, <3>2
    <2>6. hit' => /\ stage' = "await" /\ at' = "read" /\ ready' = {}
                  /\ mux'["tmp"].procs \subseteq mux'["tmp"].streams
      BY <1>2, <1>3, <1>7, <1>9
    <2>7. QED
      BY <2>3, <2>4, <2>5, <2>6 DEF Marked
  <1>13. Lines'
    <2> SUFFICES ASSUME NEW t \in Servers PROVE StreamText(t)'
      BY DEF Lines
    <2>1. (Open(t)' <=> Open(t)) /\ Shown(t)' = Shown(t) /\ StreamText(t)
      BY <1>2, <1>6 DEF Open, Shown, Lines
    <2>2. CASE t = s
      <3>1. Open(s)' /\ life'[s] # "unborn"
        BY <1>3, <1>6, <2>1, <2>2
      <3>2. c.hit => Held(s)'
        BY <1>2, <1>3, <1>7, <1>9 DEF Held
      <3>3. QED
        BY <1>7, <2>2, <3>1, <3>2 DEF StreamText
    <2>3. CASE t # s
      <3>1. Flowing(t) => Flowing(t)'
        BY <1>6, <2>3 DEF Flowing, Start
      <3>2. Held(t) => Held(t)'
        BY <1>2, <1>3 DEF Held
      <3>3. UNCHANGED <<mux, life>>
        BY <1>2, <1>6
      <3>4. QED
        BY <1>6, <2>1, <2>3, <3>1, <3>2, <3>3 DEF StreamText
    <2>4. QED
      BY <2>2, <2>3
  <1>14. QED
    BY <1>8, <1>10, <1>11, <1>12, <1>13
LEMMA EndStores ==
  ASSUME IInv, NEW s \in Servers, mux' = [mux EXCEPT ![Current] = RemoveStream(@, s)]
  PROVE  /\ mux'[Current].procs = mux[Current].procs
         /\ mux'[Current].streams = mux[Current].streams \ {s}
         /\ mux'[Current].streamless = mux[Current].streamless \cup {s}
         /\ mux'[Current].checkdata = mux[Current].checkdata
         /\ \A m \in Muxes \ {Current} : mux'[m] = mux[m]
  <1>1. mux \in [Muxes -> MuxType] /\ mux[Current] \in MuxType
    BY CurrentMux DEF IInv, ControlType
  <1>2. PICK r : r = RemoveStream(mux[Current], s)
    OBVIOUS
  <1>3. /\ r.procs = mux[Current].procs /\ r.streams = mux[Current].streams \ {s}
        /\ r.streamless = mux[Current].streamless \cup {s} /\ r.checkdata = mux[Current].checkdata
    BY <1>1, <1>2, StoreFields, StoreProcs
  <1>4. mux' = [mux EXCEPT ![Current] = r]
    BY <1>2
  <1>5. QED
    BY <1>1, <1>3, <1>4, CurrentMux

(* The stream is at its end: the child has closed its pipe and all of its  *)
(* output has been read.                                                   *)
LEMMA ReadEnd ==
  ASSUME IInv, TInv, NEW s \in Servers, Read(s), SubSeq(Pipe(s), 1, Taken(s)) = <<>>
  PROVE  TInv'
  <1> USE DEF TInv
  <1>1. /\ at = "read" /\ s \in ready /\ ~hit /\ s \in mux[Current].streams
        /\ Open(s) /\ Flowing(s) /\ LineEnds(data[s]) = {} /\ life[s] # "unborn" /\ Readable(s)
        /\ \A m \in Muxes \ {Current} : s \notin mux[m].procs
    BY ReadStart
  <1>2. Taken(s) = 0 /\ got[s] = sent[s]
    BY TakenIs
  <1>3. /\ script[s] \in Seq(Tokens) /\ Len(script[s]) \in Nat
        /\ got[s] \in Nat /\ data[s] \in Seq(Tokens) /\ linecheck[s] \in BOOLEAN
    BY FlowingTypes
  <1>4. got[s] = Len(script[s])
    <2>1. life[s] \in {"closed", "zombie", "reaped"}
      BY <1>1, <1>2, <1>3, ReadableHas
    <2>2. QED
      BY <1>2, <2>1 DEF Pipes
  <1>5. Consumed(data[s] \o <<>>, linecheck[s]).hit = FALSE
    <2>1. data[s] \o <<>> = data[s]
      BY <1>3, ConcatEmptySeq
    <2>2. QED
      BY <1>1, <1>3, <2>1, NoLineNoHit
  <1>6. /\ ready' = ready \ {s} /\ left' = left \cup {s}
        /\ got' = [got EXCEPT ![s] = @ + Taken(s)]
        /\ linecheck' = [linecheck EXCEPT ![s] = @ /\ ~FALSE]
        /\ hit' = (hit \/ FALSE)
        /\ data' = [data EXCEPT ![s] = <<>>]
        /\ printed' = [printed EXCEPT ![s] = @ \o PartLine(data[s])]
        /\ mux' = [mux EXCEPT ![Current] = RemoveStream(@, s)]
        /\ UNCHANGED <<child, returns, stage, at, answer>>
    BY <1>5 DEF Read
  <1>7. UNCHANGED <<got, linecheck, hit, script, life, status, sent, returns, stage, at>>
    BY <1>2, <1>3, <1>6 DEF TextType, IInv, ControlType, child
  <1>8. /\ data'[s] = <<>> /\ printed'[s] = printed[s] \o PartLine(data[s])
        /\ \A t \in Servers \ {s} : data'[t] = data[t] /\ printed'[t] = printed[t]
    BY <1>6 DEF TextType
  <1>9. printed'[s] = Shown(s)
    <2>1. PICK w \in Seq(Tokens), k \in Nat : w = script[s] /\ k = got[s] /\ k = Len(w)
      BY <1>3, <1>4
    <2>2. PICK n \in Nat : n = Start(s)
      BY <1>1, <1>3, LenProperties DEF Flowing, Start
    <2>3. n <= k
      <3>1. PICK l \in Nat : l = Len(data[s])
        BY <1>3, LenProperties
      <3>2. l <= k
        BY <1>1, <2>1, <3>1 DEF Flowing
      <3>3. n = k - l
        BY <2>1, <2>2, <3>1 DEF Start
      <3>4. QED
        BY <3>2, <3>3
    <2>8. AtLine(w, n) /\ printed[s] = Cut(w, n) /\ data[s] = SubSeq(w, n + 1, k)
      BY <1>1, <2>1, <2>2 DEF Flowing
    <2>4. PICK d : d = data[s]
      OBVIOUS
    <2>5. d = SubSeq(w, n + 1, k) /\ LineEnds(d) = {}
      BY <1>1, <2>4, <2>8
    <2>6. Cut(w, n) \o PartLine(d) = Ended(Cut(w, k))
      <3>1. k <= Len(w) /\ n <= k /\ AtLine(w, n) /\ d = SubSeq(w, n + 1, k) /\ LineEnds(d) = {}
        BY <2>1, <2>3, <2>5, <2>8
      <3>2. w \in Seq(Tokens) /\ n \in Nat /\ k \in Nat
        OBVIOUS
      <3>3. QED
        BY ONLY <3>1, <3>2, EndReached
    <2>7. QED
      BY <1>8, <2>1, <2>4, <2>6, <2>8 DEF Shown
  <1>10. TextType'
    <2>1. Shown(s) \in Seq(Tokens) /\ <<>> \in Seq(Tokens)
      BY ShownIsSeq, EmptySeq
    <2>2. data' \in [Servers -> Seq(Tokens)]
      BY <1>6, <2>1 DEF TextType
    <2>3. printed' \in [Servers -> Seq(Tokens)]
      <3>1. PICK x : x = printed[s] \o PartLine(data[s])
        OBVIOUS
      <3>2. x \in Seq(Tokens) /\ printed' = [printed EXCEPT ![s] = x]
        BY <1>6, <1>8, <1>9, <2>1, <3>1
      <3>3. QED
        BY <3>2 DEF TextType
    <2>4. QED
      BY <1>7, <2>2, <2>3 DEF TextType
  <1>11. /\ mux'[Current].procs = mux[Current].procs
         /\ mux'[Current].streams = mux[Current].streams \ {s}
         /\ mux'[Current].streamless = mux[Current].streamless \cup {s}
         /\ mux'[Current].checkdata = mux[Current].checkdata
         /\ \A m \in Muxes \ {Current} : mux'[m] = mux[m]
    BY <1>6, EndStores
  <1>12. Current' = Current /\ mux[Current].checkdata = {}
    BY <1>1, <1>7 DEF Current, Stores
  <1>13. Stores'
    BY <1>1, <1>6, <1>7, <1>11, <1>12, BothMuxes DEF Stores, StoreOK
  <1>14. Pipes'
    <2>1. ASSUME NEW t \in ready' PROVE Readable(t)'
      <3>1. Readable(t)
        BY <1>6, <2>1 DEF Pipes
      <3>2. QED
        BY <1>7, <3>1 DEF Readable, Pipe
    <2>2. QED
      BY <1>7, <2>1 DEF Pipes
  <1>15. \A m \in Muxes : /\ mux'[m].procs = mux[m].procs /\ mux'[m].streams = mux[m].streams \ {s}
                          /\ mux'[m].checkdata = mux[m].checkdata
    <2>1. ASSUME NEW m \in Muxes \ {Current} PROVE s \notin mux[m].streams
      BY <1>1, BothMuxes DEF Stores, StoreOK
    <2>2. QED
      BY <1>11, <2>1
  <1>16. Marked'
    <2>1. \A t \in Servers : MarkerRead(t)' = MarkerRead(t)
      BY <1>7 DEF MarkerRead
    <2>2. QED
      BY <1>1, <1>7, <1>15, <2>1, BothMuxes DEF Marked
  <1>17. Lines'
    <2> SUFFICES ASSUME NEW t \in Servers PROVE StreamText(t)'
      BY DEF Lines
    <2>1. Shown(t)' = Shown(t) /\ StreamText(t) /\ life'[t] = life[t]
      BY <1>7 DEF Shown, Lines
    <2>2. CASE t = s
      <3>1. ~Open(s)'
        BY <1>15, BothMuxes DEF Open
      <3>2. QED
        BY <1>1, <1>9, <2>1, <2>2, <3>1 DEF StreamText
    <2>3. CASE t # s
      <3>1. /\ Open(t)' <=> Open(t)
            /\ Held(t) => Held(t)'
            /\ t \in mux'["tmp"].procs \cup mux'["multi"].procs <=> t \in mux["tmp"].procs \cup mux["multi"].procs
        BY <1>7, <1>15, <2>3, BothMuxes DEF Open, Held
      <3>2. UNCHANGED <<data[t], printed[t], got[t], linecheck[t], script[t]>>
        BY <1>7, <1>8, <2>3
      <3>3. Flowing(t) => Flowing(t)'
        BY <3>2 DEF Flowing, Start
      <3>4. QED
        BY <2>1, <3>1, <3>2, <3>3 DEF StreamText
    <2>4. QED
      BY <2>2, <2>3
  <1>18. QED
    BY <1>10, <1>13, <1>14, <1>16, <1>17

LEMMA ReadText == ASSUME IInv, TInv, NEW s \in Servers, Read(s) PROVE TInv'
  BY ReadData, ReadEnd

LEMMA TextStep == IInv /\ TInv /\ [Next]_vars => TInv'
  <1> SUFFICES ASSUME IInv, TInv, [Next]_vars PROVE TInv'
    OBVIOUS
  <1>1. CASE Next
    BY <1>1, ProcessAllText, NothingText, CheckText, SelectText, WaitPidText, ReturnText, FinishText,
       SpawnText, ReadText, PollText, TransferText, ChildText DEF Next, Parent
  <1>2. CASE UNCHANGED vars
    <2>1. UNCHANGED <<life, script, status, sent, got, data, linecheck, printed, mux, returns,
                      stage, at, ready, left, hit>>
      BY <1>2 DEF vars, child, stream, call
    <2>2. TextType'
      BY <2>1, TypesKept DEF TInv
    <2>3. Stores' /\ Pipes' /\ Marked'
      BY <2>1 DEF TInv, Stores, StoreOK, Current, Pipes, Readable, Pipe, Marked, MarkerRead
    <2>4. Lines'
      BY <2>1, TextKept DEF TInv, Open, Held
    <2>5. QED
      BY <2>2, <2>3, <2>4 DEF TInv
  <1>3. QED
    BY <1>1, <1>2

LEMMA TextInvariant == Spec => []TInv
  BY InitText, TextStep, Invariant, PTL DEF Spec

(* The warning is printed of the servers without a status, and none of     *)
(* them gets one afterwards.                                               *)
Warning == at = "over" => (warned <=> Unreturned # {})

LEMMA WarningStep == Warning /\ [Next]_vars => Warning'
  <1> SUFFICES ASSUME Warning, [Next]_vars PROVE Warning'
    OBVIOUS
  <1>1. CASE Finish
    BY <1>1 DEF Finish, Warning, Unreturned
  <1>2. CASE (\E s \in Servers : Child(s)) \/ UNCHANGED vars
    <2>1. UNCHANGED <<at, returns, warned>>
      BY <1>2 DEF Child, Write, Close, Die, vars, call, answer
    <2>2. QED
      BY <2>1 DEF Warning, Unreturned
  <1>3. CASE ProcessAll \/ Nothing \/ Check \/ Select \/ WaitPid \/ Return
    <2>1. at' # "over"
      BY <1>3 DEF ProcessAll, Nothing, Check, Select, WaitPid, Return, Children
    <2>2. QED
      BY <2>1 DEF Warning
  <1>4. CASE \E s \in Servers : Spawn(s) \/ Read(s) \/ Poll(s) \/ Transfer(s)
    <2>1. at' # "over"
      BY <1>4 DEF Spawn, Read, Poll, Transfer
    <2>2. QED
      BY <2>1 DEF Warning
  <1>5. QED
    BY <1>1, <1>2, <1>3, <1>4 DEF Next, Parent

LEMMA WarningInvariant == Spec => []Warning
  <1>1. Init => Warning
    BY DEF Init, Warning
  <1>2. QED
    BY <1>1, WarningStep, PTL DEF Spec

-----------------------------------------------------------------------------
(* Where the parent waits.  A process without a stream has closed its      *)
(* pipe, and one that is awaited is taken off in the call that reaps it.   *)
Gone(s) == life[s] \in {"closed", "zombie", "reaped"}

Waits ==
  /\ \A m \in Muxes : /\ mux[m].procs \subseteq mux[m].streams \cup mux[m].streamless
                      /\ \A s \in mux[m].streamless : Gone(s)
  /\ at = "select" => mux[Current].streams # {}
  /\ at = "wait" => mux[Current].streams = {} /\ mux[Current].procs # {}
  /\ \A s \in mux["tmp"].procs : life[s] = "reaped" => at = "read" /\ s \in left

LEMMA WaitsInit == Init => Waits
  <1> SUFFICES ASSUME Init PROVE Waits
    OBVIOUS
  <1>1. \A m \in Muxes : mux[m].procs = {} /\ mux[m].streamless = {}
    BY DEF Init, Empty
  <1>2. at = "next"
    BY DEF Init
  <1>3. QED
    BY <1>1, <1>2, BothMuxes DEF Waits

(* Steps that leave the processes and the stores alone.                    *)
LEMMA WaitsKept ==
  ASSUME IInv, Waits, at # "read", UNCHANGED <<life, mux>>, at' \notin {"select", "wait"}
  PROVE  Waits'
  BY BothMuxes DEF Waits, Gone

LEMMA WaitsSpawn == ASSUME IInv, TInv, Waits, NEW s \in Servers, Spawn(s) PROVE Waits'
  <1>1. /\ mux'["tmp"].procs = {s} /\ mux'["tmp"].streams = {s} /\ mux'["tmp"].streamless = {}
        /\ mux'["multi"] = mux["multi"]
    BY SpawnStores
  <1>2. life[s] = "unborn" /\ life' = [life EXCEPT ![s] = "alive"] /\ at' = "check"
    BY DEF Spawn
  <1>3. life'[s] = "alive" /\ \A t \in Servers \ {s} : life'[t] = life[t]
    BY <1>2 DEF IInv, ControlType
  <1>4. mux["multi"].streamless \subseteq Servers \ {s}
    BY <1>2, BothMuxes DEF IInv, ControlType, MuxType, Waits, Gone
  <1>5. \A t \in mux'["multi"].streamless : Gone(t)'
    BY <1>1, <1>3, <1>4, BothMuxes DEF Waits, Gone
  <1>6. QED
    BY <1>1, <1>2, <1>3, <1>5, BothMuxes DEF Waits

LEMMA WaitsCheck == ASSUME IInv, TInv, Waits, Check PROVE Waits'
  <1>1. \A m \in Muxes : /\ mux'[m].procs = mux[m].procs /\ mux'[m].streams = mux[m].streams
                         /\ mux'[m].streamless = mux[m].streamless
    BY CheckStores
  <1>2. /\ at = "check" /\ mux[Current].procs # {} /\ at' = IF mux[Current].streams = {} THEN "wait" ELSE "select"
        /\ UNCHANGED <<life, stage, left>>
    BY DEF Check, child
  <1>3. Current' = Current
    BY <1>2 DEF Current
  <1>4. QED
    BY <1>1, <1>2, <1>3, BothMuxes DEF Waits, Gone

(* A stream is dropped at its end, which is its command's own doing.       *)
LEMMA WaitsRead == ASSUME IInv, TInv, Waits, NEW s \in Servers, Read(s) PROVE Waits'
  <1>1. at = "read" /\ left \subseteq left' /\ UNCHANGED <<life, at, stage>>
    BY DEF Read, child
  <1>2. CASE SubSeq(Pipe(s), 1, Taken(s)) # <<>>
    <2>1. UNCHANGED mux
      BY <1>2 DEF Read
    <2>2. QED
      BY <1>1, <2>1 DEF Waits, Gone
  <1>3. CASE SubSeq(Pipe(s), 1, Taken(s)) = <<>>
    <2>1. mux' = [mux EXCEPT ![Current] = RemoveStream(@, s)]
      BY <1>3 DEF Read
    <2>2. /\ mux'[Current].procs = mux[Current].procs
          /\ mux'[Current].streams = mux[Current].streams \ {s}
          /\ mux'[Current].streamless = mux[Current].streamless \cup {s}
          /\ \A m \in Muxes \ {Current} : mux'[m] = mux[m]
      BY <2>1, EndStores
    <2>3. Gone(s)
      <3>1. Readable(s)
        BY ReadStart
      <3>2. got[s] = sent[s] /\ got[s] \in Nat
        BY <1>3, TakenIs, FlowingTypes DEF TInv
      <3>3. QED
        BY <3>1, <3>2, ReadableHas DEF TInv, Gone
    <2>4. ASSUME NEW m \in Muxes
          PROVE  /\ mux'[m].procs \subseteq mux'[m].streams \cup mux'[m].streamless
                 /\ \A t \in mux'[m].streamless : Gone(t)'
                 /\ mux'[m].procs = mux[m].procs
      BY <1>1, <2>2, <2>3 DEF Waits, Gone
    <2>5. QED
      BY <1>1, <2>4, BothMuxes DEF Waits
  <1>4. QED
    BY <1>2, <1>3

(* Whose status waitpid takes, the processes without streams are polled    *)
(* next.                                                                   *)
LEMMA WaitsWaitPid == ASSUME IInv, TInv, Waits, WaitPid PROVE Waits'
  <1>1. /\ at = "wait" /\ at' \in {"crashed", "read"} /\ UNCHANGED <<mux, stage>>
        /\ \/ at' = "crashed" /\ life' = life
           \/ /\ at' = "read" /\ left' = mux[Current].streamless
              /\ \E s \in Servers : life[s] = "zombie" /\ life' = [life EXCEPT ![s] = "reaped"]
    BY DEF WaitPid, Children
  <1>2. \A t \in Servers : life'[t] # life[t] => life[t] = "zombie" /\ life'[t] = "reaped"
    BY <1>1 DEF IInv, ControlType
  <1>3. \A m \in Muxes : mux[m].streamless \subseteq Servers /\ mux[m].procs \subseteq Servers
    BY DEF IInv, ControlType, MuxType
  <1>4. ASSUME NEW m \in Muxes
        PROVE  \A t \in mux'[m].streamless : Gone(t)'
    BY <1>1, <1>2, <1>3 DEF Waits, Gone
  <1>5. ASSUME NEW t \in mux["tmp"].procs, life'[t] = "reaped" PROVE at' = "read" /\ t \in left'
    <2>1. life[t] # "reaped"
      BY <1>1 DEF Waits
    <2>2. at' = "read" /\ left' = mux[Current].streamless
      BY <1>1, <1>5, <2>1
    <2>3. Current = "tmp"
      BY DEF IInv, Awaited, Current
    <2>4. t \in mux["tmp"].streamless
      BY <1>1, <2>3, BothMuxes DEF Waits
    <2>5. QED
      BY <2>2, <2>3, <2>4
  <1>6. QED
    BY <1>1, <1>4, <1>5 DEF Waits

LEMMA WaitsPoll == ASSUME IInv, TInv, Waits, NEW s \in Servers, Poll(s) PROVE Waits'
  <1>1. /\ at = "read" /\ s \in left /\ left' = left \ {s} /\ UNCHANGED <<stage, at>>
        /\ \/ UNCHANGED <<life, mux>> /\ life[s] \notin {"zombie", "reaped"}
           \/ /\ life' = [life EXCEPT ![s] = "reaped"]
              /\ mux' = [mux EXCEPT ![Current] = RemoveProc(@, s)]
    BY DEF Poll
  <1>2. CASE UNCHANGED <<life, mux>> /\ life[s] \notin {"zombie", "reaped"}
    BY <1>1, <1>2 DEF Waits, Gone
  <1>3. CASE life' = [life EXCEPT ![s] = "reaped"] /\ mux' = [mux EXCEPT ![Current] = RemoveProc(@, s)]
    <2>1. /\ mux'[Current].procs = mux[Current].procs \ {s}
          /\ mux'[Current].streams = mux[Current].streams
          /\ mux'[Current].streamless = mux[Current].streamless \ {s}
          /\ \A m \in Muxes \ {Current} : mux'[m] = mux[m]
      BY <1>3, RemoveStores
    <2>2. life'[s] = "reaped" /\ \A t \in Servers \ {s} : life'[t] = life[t]
      BY <1>3 DEF IInv, ControlType
    <2>3. \A m \in Muxes : mux[m].streamless \subseteq Servers /\ mux[m].procs \subseteq Servers
      BY DEF IInv, ControlType, MuxType
    <2>4. ASSUME NEW m \in Muxes
          PROVE  /\ mux'[m].procs \subseteq mux'[m].streams \cup mux'[m].streamless
                 /\ \A t \in mux'[m].streamless : Gone(t)'
      <3>1. mux'[m].procs \subseteq mux'[m].streams \cup mux'[m].streamless
        BY <2>1 DEF Waits
      <3>2. mux'[m].streamless \subseteq mux[m].streamless
        BY <2>1
      <3>3. \A t \in mux[m].streamless : Gone(t)'
        BY <2>2, <2>3 DEF Waits, Gone
      <3>4. QED
        BY <3>1, <3>2, <3>3
    <2>5. \A t \in mux'["tmp"].procs : t \in mux["tmp"].procs /\ t # s
      <3>1. CASE stage = "await"
        BY <2>1, <3>1, BothMuxes DEF Current
      <3>2. CASE stage # "await"
        <4>1. Current = "multi" /\ mux["tmp"].procs = {}
          BY <3>2 DEF Current, IInv, Awaited
        <4>2. QED
          BY <2>1, <4>1, BothMuxes
      <3>3. QED
        BY <3>1, <3>2
    <2>6. \A t \in mux'["tmp"].procs : life'[t] = "reaped" => at' = "read" /\ t \in left'
      BY <1>1, <2>2, <2>3, <2>5, BothMuxes DEF Waits
    <2>7. QED
      BY <1>1, <2>4, <2>6 DEF Waits
  <1>4. QED
    BY <1>1, <1>2, <1>3

LEMMA WaitsReturn == ASSUME IInv, TInv, Waits, Return PROVE Waits'
  <1>1. left = {} /\ at' \in {"check", "next"} /\ UNCHANGED <<life, mux>>
    BY DEF Return, child
  <1>2. QED
    BY <1>1 DEF Waits, Gone

LEMMA WaitsTransfer == ASSUME IInv, TInv, Waits, NEW s \in Servers, Transfer(s) PROVE Waits'
  <1>1. /\ mux'["multi"].procs = mux["multi"].procs \cup {s}
        /\ mux'["multi"].streams = mux["multi"].streams \cup {s}
        /\ mux'["multi"].streamless = mux["multi"].streamless \ {s}
        /\ mux'["tmp"].procs = {} /\ mux'["tmp"].streamless = {}
    BY StoresTransferred
  <1>2. at' = "check" /\ UNCHANGED life
    BY DEF Transfer, child
  <1>3. QED
    BY <1>1, <1>2, BothMuxes DEF Waits, Gone

LEMMA WaitsChild == ASSUME IInv, TInv, Waits, NEW s \in Servers, Child(s) PROVE Waits'
  <1>1. /\ UNCHANGED <<mux, at, left, stage>>
        /\ \A t \in Servers : /\ Gone(t) => Gone(t)'
                              /\ life'[t] = "reaped" => life[t] = "reaped"
    BY DEF Child, Write, Close, Die, IInv, ControlType, call, Gone
  <1>2. \A m \in Muxes : mux[m].streamless \subseteq Servers /\ mux[m].procs \subseteq Servers
    BY DEF IInv, ControlType, MuxType
  <1>3. \A m \in Muxes : \A t \in mux'[m].streamless : Gone(t)'
    BY <1>1, <1>2 DEF Waits
  <1>4. \A t \in mux'["tmp"].procs : life'[t] = "reaped" => at' = "read" /\ t \in left'
    BY <1>1, <1>2, BothMuxes DEF Waits
  <1>5. QED
    BY <1>1, <1>3, <1>4 DEF Waits, Current

LEMMA WaitsStep == IInv /\ TInv /\ Waits /\ [Next]_vars => Waits'
  <1> SUFFICES ASSUME IInv, TInv, Waits, [Next]_vars PROVE Waits'
    OBVIOUS
  <1>1. CASE ProcessAll \/ Nothing \/ Finish
    <2>1. at # "read" /\ UNCHANGED <<life, mux>> /\ at' \notin {"select", "wait"}
      BY <1>1 DEF ProcessAll, Nothing, Finish, child
    <2>2. QED
      BY <2>1, WaitsKept
  <1>2. CASE Select
    <2>1. at = "select" /\ at' = "read" /\ UNCHANGED <<life, mux>>
      BY <1>2 DEF Select, child
    <2>2. QED
      BY <2>1, WaitsKept
  <1>3. CASE UNCHANGED vars
    BY <1>3 DEF vars, child, call, Waits, Gone, Current
  <1>4. QED
    BY <1>1, <1>2, <1>3, WaitsSpawn, WaitsCheck, WaitsRead, WaitsWaitPid, WaitsPoll, WaitsReturn,
       WaitsTransfer, WaitsChild DEF Next, Parent

LEMMA WaitsInvariant == Spec => []Waits
  BY WaitsInit, WaitsStep, Invariant, TextInvariant, PTL DEF Spec

(* The reason in a state: a stream without data and end belongs to a       *)
(* command that has room to write, and a child that is left when nothing   *)
(* is read has closed its pipe.                                            *)
LEMMA WaitsAnswer == IInv /\ TInv /\ Waits => WaitsAreAnswered
  <1> SUFFICES ASSUME IInv, TInv, Waits PROVE WaitsAreAnswered
    OBVIOUS
  <1>1. ASSUME at = "select"
        PROVE  \E s \in mux[Current].streams : Readable(s) \/ Busy(s)
    <2>1. PICK s \in mux[Current].streams : TRUE
      BY <1>1 DEF Waits
    <2>2. s \in Servers
      BY CurrentMux DEF IInv, ControlType, MuxType
    <2>3. CASE life[s] = "alive" /\ ~Readable(s)
      <3>1. got[s] = sent[s] /\ sent[s] \in Nat /\ Len(script[s]) \in Nat /\ sent[s] <= Len(script[s])
        BY <2>2, <2>3, ReadableHas, FlowingTypes DEF TInv
      <3>2. Len(Pipe(s)) = 0
        BY <2>2, <3>1, PipeHas DEF TInv
      <3>3. QED
        BY <2>3, <3>2, BoundsAssumption DEF Busy
    <2>4. CASE life[s] # "alive"
      <3>1. s \in mux["tmp"].procs \cup mux["multi"].procs
        BY CurrentMux, BothMuxes DEF TInv, Stores, StoreOK
      <3>2. life[s] # "unborn"
        BY <2>2, <3>1 DEF TInv, Lines, StreamText
      <3>3. life[s] \in {"closed", "zombie", "reaped"}
        BY <2>2, <2>4, <3>2 DEF IInv, ControlType
      <3>4. QED
        BY <3>3 DEF Readable
    <2>5. QED
      BY <2>3, <2>4
  <1>2. ASSUME at = "wait", Children # {}
        PROVE  \E s \in Children : life[s] \in {"closed", "zombie"}
    <2>1. mux[Current].streams = {} /\ mux[Current].procs # {}
      BY <1>2 DEF Waits
    <2>2. \A s \in mux[Current].procs : Gone(s) /\ s \in Servers
      BY <2>1, CurrentMux DEF Waits, IInv, ControlType, MuxType
    <2>3. CASE stage = "await"
      <3>1. PICK s \in mux["tmp"].procs : TRUE
        BY <2>1, <2>3 DEF Current
      <3>2. Gone(s) /\ s \in Servers /\ life[s] # "reaped"
        BY <1>2, <2>2, <2>3, <3>1 DEF Waits, Current
      <3>3. QED
        BY <3>2 DEF Gone, Children
    <2>4. CASE stage # "await"
      <3>1. PICK s \in Children : TRUE
        BY <1>2
      <3>2. s \in mux["multi"].procs /\ Current = "multi"
        BY <2>4, <3>1 DEF IInv, Known, Awaited, Children, Current
      <3>3. Gone(s)
        BY <2>2, <3>2
      <3>4. QED
        BY <3>1, <3>3 DEF Gone, Children
    <2>5. QED
      BY <2>3, <2>4
  <1>3. QED
    BY <1>1, <1>2 DEF WaitsAreAnswered

-----------------------------------------------------------------------------
(* The variables have the types that the code gives them, the text that    *)
(* goes through the pipes and the buffers included.                        *)
THEOREM TypesCorrect == Spec => []TypeOK
  <1>1. IInv /\ TInv => TypeOK
    BY DEF IInv, TInv, TypeOK
  <1>2. QED
    BY Invariant, TextInvariant, <1>1, PTL

(* What is printed is the cut of what has been consumed, a prefix of what  *)
(* should be shown, and all of it when the stream is closed.               *)
LEMMA TextIsWhole == IInv /\ TInv => OutputIsWhole
  <1> SUFFICES ASSUME IInv, TInv, NEW s \in Servers
               PROVE  /\ IsPrefix(printed[s], Shown(s))
                      /\ life[s] # "unborn" /\ (\A m \in Muxes : s \notin mux[m].procs) => printed[s] = Shown(s)
    BY DEF OutputIsWhole
  <1> USE DEF TInv
  <1>1. StreamText(s) /\ Shown(s) \in Seq(Tokens)
    BY ShownIsSeq DEF Lines
  <1>2. (\A m \in Muxes : s \notin mux[m].procs) => ~Open(s)
    BY BothMuxes DEF Open, Stores, StoreOK
  <1>3. PICK w \in Seq(Tokens), k \in Nat : w = script[s] /\ k = Len(w)
    BY FlowingTypes
  <1>4. Shown(s) = Ended(Cut(w, k)) /\ k <= Len(w)
    BY <1>3 DEF Shown
  <1>5. CASE Open(s)
    <2>1. Flowing(s)
      BY <1>1, <1>5 DEF StreamText
    <2>2. PICK n \in Nat : n = Start(s)
      BY <2>1, FlowingTypes, LenProperties DEF Flowing, Start
    <2>3. n <= k /\ AtLine(w, n) /\ printed[s] = Cut(w, n)
      <3>1. AtLine(w, n) /\ printed[s] = Cut(w, n)
        BY <1>3, <2>1, <2>2 DEF Flowing
      <3>2. PICK g \in Nat, l \in Nat : g = got[s] /\ l = Len(data[s])
        BY FlowingTypes, LenProperties
      <3>3. n = g - l /\ g <= k
        BY <1>3, <2>1, <2>2, <3>2 DEF Flowing, Start
      <3>4. QED
        BY <3>1, <3>3
    <2>4. PICK u \in Seq(Tokens) : Cut(w, k) = Cut(w, n) \o u
      BY <1>4, <2>3, CutContinues
    <2>5. PICK c \in Seq(Tokens), t \in Seq(Tokens) : c = Cut(w, n) /\ t = Cut(w, k)
      <3>1. n <= Len(w)
        BY <1>3, <2>3
      <3>2. QED
        BY <1>4, <3>1, CutIsSeq
    <2>6. IsPrefix(c, Ended(t))
      BY <2>4, <2>5, EndedContinues
    <2>7. IsPrefix(printed[s], Shown(s))
      BY <1>4, <2>3, <2>5, <2>6
    <2>8. QED
      BY <1>2, <1>5, <2>7
  <1>6. CASE ~Open(s) /\ life[s] # "unborn"
    <2>1. printed[s] = Shown(s)
      BY <1>1, <1>6 DEF StreamText
    <2>2. PICK c \in Seq(Tokens) : c = Shown(s)
      BY <1>1
    <2>3. <<>> \in Seq(Tokens) /\ c \o <<>> = c
      BY ConcatEmptySeq, EmptySeq
    <2>4. IsPrefix(c, c)
      BY <2>3, PrefixOfConcat
    <2>5. QED
      BY <2>1, <2>2, <2>4
  <1>7. CASE life[s] = "unborn"
    <2>1. printed[s] = <<>>
      BY <1>1, <1>7 DEF StreamText
    <2>2. PICK c \in Seq(Tokens) : c = Shown(s)
      BY <1>1
    <2>3. <<>> \in Seq(Tokens) /\ <<>> \o c = c
      BY ConcatEmptySeq, EmptySeq
    <2>4. IsPrefix(<<>>, c)
      BY <2>3, PrefixOfConcat
    <2>5. QED
      BY <1>7, <2>1, <2>2, <2>4
  <1>8. QED
    BY <1>5, <1>6, <1>7

(* However the reads chop a command's lines, wherever its marker stands    *)
(* and whatever was buffered when its stream went to the other             *)
(* multiplexer, its output appears once, in order and without the marker,  *)
(* and is all there when the process is taken off (process, _readlines and *)
(* transfer of multiplexer.py).                                            *)
THEOREM OutputWhole == Spec => []OutputIsWhole
  BY Invariant, TextInvariant, TextIsWhole, PTL

(* A run that ends without "Not all servers have returned" has read the    *)
(* ready marker of every server (run_multi of core/main.py).               *)
THEOREM SilentRunsAreReady == Spec => []SilenceMeansReady
  <1>1. TInv /\ Warning => SilenceMeansReady
    BY DEF TInv, Warning, Unreturned, Marked, SilenceMeansReady
  <1>2. QED
    BY TextInvariant, WarningInvariant, <1>1, PTL

(* However the commands' exits fall between the polls and the waits of two *)
(* multiplexers, a run that is over has reaped every child.                *)
THEOREM AllAreReaped == Spec => []NobodyLeftBehind
  <1>1. IInv => NobodyLeftBehind
    BY DEF IInv, NobodyLeftBehind, ControlType, Known, Awaited, Phase
  <1>2. QED
    BY Invariant, <1>1, PTL

(* The run never reports a failure that none of its commands had, and      *)
(* reports mixed failures only of commands that failed differently.        *)
THEOREM ReportedFailuresAreReal == Spec => []FailuresAreReal
  <1>1. IInv => FailuresAreReal
    BY DEF IInv
  <1>2. QED
    BY Invariant, <1>1, PTL

(* The parent and the children never wait for each other, however small    *)
(* the pipes are: where the parent blocks in select or in waitpid          *)
(* (process of multiplexer.py), some child can go on and let it go on.     *)
THEOREM NobodyWaitsForNobody == Spec => []WaitsAreAnswered
  BY Invariant, TextInvariant, WaitsInvariant, WaitsAnswer, PTL
=============================================================================
