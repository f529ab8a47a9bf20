------------------------------- MODULE Records -------------------------------
(***************************************************************************)
(* What the data store and the crontab promise to whoever runs one command  *)
(* at a time: a command changes one key of one server's record, or whether  *)
(* that server is started at boot or backed up by a schedule, in one step;  *)
(* a command that is killed while it saves may lose the record of its own   *)
(* server, never another's.                                                 *)
(***************************************************************************)
CONSTANTS Servers, Keys, Values, Fresh, None, Lost

VARIABLES
  records,  \* server -> its record, None before create, or Lost
  active,   \* the servers a boot starts
  planned   \* the servers a schedule backs up

vars == <<records, active, planned>>

Whole == [Keys -> Values]

Init ==
  /\ records = [s \in Servers |-> None]
  /\ active \in SUBSET Servers /\ planned = {}

Record(s, r) == records' = [records EXCEPT ![s] = r] /\ UNCHANGED <<active, planned>>

Create(s) == Record(s, Fresh)

Put(s) ==
  /\ records[s] \in Whole
  /\ \E k \in Keys, v \in Values : Record(s, [records[s] EXCEPT ![k] = v])

Lose(s) == Record(s, Lost)

Activate(s) ==
  /\ records[s] \in Whole
  /\ active' = active \cup {s} /\ UNCHANGED <<records, planned>>

Deactivate(s) ==
  /\ records[s] \in Whole
  /\ active' = active \ {s} /\ UNCHANGED <<records, planned>>

Plan(s) ==
  /\ records[s] \in Whole
  /\ planned' = planned \cup {s} /\ UNCHANGED <<records, active>>

Unplan(s) ==
  /\ records[s] \in Whole
  /\ planned' = planned \ {s} /\ UNCHANGED <<records, active>>

Next ==
  \E s \in Servers :
    \/ Create(s) \/ Put(s) \/ Lose(s)
    \/ Activate(s) \/ Deactivate(s) \/ Plan(s) \/ Unplan(s)

Spec == Init /\ [][Next]_vars
=============================================================================
