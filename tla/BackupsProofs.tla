---------------------------- MODULE BackupsProofs ----------------------------
(***************************************************************************)
(* Backups for any number of overlapping backups, any profiles, schedules   *)
(* and times: saving comes back, lone archives are quiet, and an expiry     *)
(* removes what is past its lifetime and nothing else.                      *)
(***************************************************************************)
EXTENDS Backups, TLAPS

\* A record with the fields of a command, whatever its archives are.
Names == {"at", "asked", "disturbed", "profile", "found", "left", "doomed"}
Fields(r) == DOMAIN r = Names

Shaped(r) ==
  /\ Fields(r)
  /\ r.asked \in BOOLEAN /\ r.disturbed \in BOOLEAN
  /\ r.at = "idle" => r = Idle
  /\ r.at = "asking" => r.asked = FALSE

BeforeZip == {"asking", "sleeping", "listing", "zipping"}

Typed ==
  /\ up \in BOOLEAN /\ saving \in BOOLEAN /\ muted \in BOOLEAN
  /\ saving => up
  /\ cmd = [c \in Commands |-> cmd[c]] /\ \A c \in Commands : Shaped(cmd[c])

\* Up to their archives, backups that overlap know it.
Company ==
  \A c, d \in Commands :
    c # d /\ cmd[c].at \in BeforeZip /\ cmd[d].at # "idle" => cmd[c].disturbed

\* From its request on, a backup that is not disturbed has stopped saving.
Quiet ==
  \A c \in Commands :
    cmd[c].at \in BeforeZip \ {"asking"} /\ saving => cmd[c].disturbed

IInv == Typed /\ Company /\ Quiet /\ SavingComesBack

-----------------------------------------------------------------------------
LEMMA CommandShaped ==
  ASSUME NEW at, NEW asked \in BOOLEAN, NEW disturbed \in BOOLEAN,
         at # "idle", at = "asking" => asked = FALSE,
         NEW r, r = Command(at, asked, disturbed)
  PROVE  Shaped(r) /\ r.at = at /\ r.asked = asked /\ r.disturbed = disturbed
  BY DEF Shaped, Fields, Names, Command

LEMMA IdleShaped == Shaped(Idle) /\ Idle.at = "idle" /\ Idle.asked = FALSE
  BY DEF Shaped, Fields, Names, Idle, Command

LEMMA InitI == Init => IInv
  BY IdleShaped DEF Init, IInv, Typed, Company, Quiet, SavingComesBack, BeforeZip

\* A step of one command that goes on, or rests.
LEMMA Local ==
  ASSUME IInv, NEW c \in Commands, NEW r, Shaped(r), cmd' = [cmd EXCEPT ![c] = r],
         r.at # "idle" => cmd[c].at # "idle",
         r.at \in BeforeZip => cmd[c].at \in BeforeZip /\ r.disturbed = cmd[c].disturbed,
         up' = up, saving' \in BOOLEAN, muted' \in BOOLEAN, saving' => up
  PROVE  /\ Typed' /\ Company'
         /\ cmd'[c] = r /\ \A d \in Commands \ {c} : cmd'[d] = cmd[d]
<1>1. cmd'[c] = r /\ \A d \in Commands \ {c} : cmd'[d] = cmd[d]
  BY DEF IInv, Typed
<1>2. Typed'
  BY <1>1 DEF IInv, Typed
<1>3. Company'
  BY <1>1 DEF IInv, Company
<1> QED BY <1>1, <1>2, <1>3

\* One that leaves the server alone.
LEMMA Silent ==
  ASSUME IInv, NEW c \in Commands, NEW r, Shaped(r), cmd' = [cmd EXCEPT ![c] = r],
         r.at # "idle" => cmd[c].at # "idle",
         r.at \in BeforeZip => cmd[c].at \in BeforeZip \ {"asking"} /\ r.disturbed = cmd[c].disturbed,
         UNCHANGED <<up, saving>>, muted' \in BOOLEAN,
         (muted' = muted /\ r.asked = cmd[c].asked) \/ muted' = (muted \/ cmd[c].asked)
  PROVE  IInv'
<1>1. /\ Typed' /\ Company'
      /\ cmd'[c] = r /\ \A d \in Commands \ {c} : cmd'[d] = cmd[d]
  BY Local DEF IInv, Typed
<1>2. Quiet'
  BY <1>1 DEF IInv, Quiet
<1>3. SavingComesBack'
  BY <1>1 DEF IInv, SavingComesBack
<1> QED BY <1>1, <1>2, <1>3 DEF IInv

LEMMA LeaveSilent ==
  ASSUME IInv, NEW c \in Commands, Leave(c), cmd[c].at # "idle", UNCHANGED Server
  PROVE  IInv'
<1> DEFINE asked == cmd[c].asked
           r == Command("finally", asked, FALSE)
<1>1. asked \in BOOLEAN /\ muted \in BOOLEAN
  BY DEF IInv, Typed, Shaped
<1>2. Shaped(r) /\ r.at = "finally" /\ r.asked = asked
  <2> HIDE DEF asked
  <2> QED BY <1>1, CommandShaped
<1>3. cmd' = [cmd EXCEPT ![c] = r] /\ UNCHANGED <<up, saving, muted>>
  BY DEF Leave, Server
<1> HIDE DEF r
<1> QED BY <1>1, <1>2, <1>3, Silent DEF BeforeZip

LEMMA GiveSilent ==
  ASSUME IInv, NEW c \in Commands, Give(c), UNCHANGED <<up, saving>>,
         (muted' = muted /\ cmd[c].asked = FALSE) \/ muted' = (muted \/ cmd[c].asked)
  PROVE  IInv'
<1>1. cmd[c].asked \in BOOLEAN /\ muted \in BOOLEAN
  BY DEF IInv, Typed, Shaped
<1>2. muted' \in BOOLEAN
  BY <1>1
<1>3. cmd' = [cmd EXCEPT ![c] = Idle]
  BY DEF Give
<1> QED BY <1>1, <1>2, <1>3, IdleShaped, Silent DEF BeforeZip

\* A step that changes a command's archives only.
LEMMA Same ==
  ASSUME IInv, NEW c \in Commands, NEW r, Shaped(cmd[c]) => Shaped(r), cmd' = [cmd EXCEPT ![c] = r],
         cmd[c].at # "asking", cmd[c].at # "idle",
         r.at \in BeforeZip => cmd[c].at \in BeforeZip /\ r.disturbed = cmd[c].disturbed,
         r.asked = cmd[c].asked, UNCHANGED Server
  PROVE  IInv'
<1>1. Shaped(r) /\ muted \in BOOLEAN
  BY DEF IInv, Typed
<1>2. UNCHANGED <<up, saving, muted>>
  BY DEF Server
<1> QED BY <1>1, <1>2, Silent

LEMMA DisturbedShaped ==
  ASSUME NEW d, Shaped(cmd[d])
  PROVE  /\ Shaped(Disturbed(d)) /\ Disturbed(d).at = cmd[d].at /\ Disturbed(d).asked = cmd[d].asked
         /\ cmd[d].at # "idle" => Disturbed(d).disturbed = TRUE
<1>1. CASE cmd[d] = Idle
  BY <1>1, IdleShaped DEF Disturbed
<1>2. CASE cmd[d] # Idle
  <2>1. Disturbed(d) = [cmd[d] EXCEPT !.disturbed = TRUE] /\ cmd[d].at # "idle"
    BY <1>2 DEF Disturbed, Shaped
  <2> QED BY <2>1 DEF Shaped, Fields, Names
<1> QED BY <1>1, <1>2

LEMMA CheckKeeps == ASSUME IInv, NEW c \in Commands, Check(c) PROVE IInv'
<1>a. PICK running \in {up, FALSE} :
        cmd' = [d \in Commands |->
          IF d = c
          THEN Command(IF running THEN "asking" ELSE "listing", FALSE,
                       running # up \/ \E e \in Commands : cmd[e] # Idle)
          ELSE Disturbed(d)]
  BY DEF Check
<1> DEFINE others == running # up \/ \E e \in Commands : cmd[e] # Idle
           place == IF running THEN "asking" ELSE "listing"
           r == Command(place, FALSE, others)
<1>0. others \in BOOLEAN /\ place \in {"asking", "listing"}
  OBVIOUS
<1>1. /\ cmd' = [d \in Commands |-> IF d = c THEN r ELSE Disturbed(d)]
      /\ UNCHANGED <<up, saving, muted>> /\ cmd[c] = Idle
  BY <1>a DEF Check, Server
<1> HIDE DEF others, place
<1>2. Shaped(r) /\ r.at = place /\ r.asked = FALSE /\ r.disturbed = others
  BY <1>0, CommandShaped, ZenonT(20)
<1> HIDE DEF r
<1>3. \A d \in Commands :
        /\ Shaped(Disturbed(d)) /\ Disturbed(d).at = cmd[d].at /\ Disturbed(d).asked = cmd[d].asked
        /\ cmd[d].at # "idle" => Disturbed(d).disturbed = TRUE
  <2> SUFFICES ASSUME NEW d \in Commands
               PROVE  /\ Shaped(Disturbed(d)) /\ Disturbed(d).at = cmd[d].at
                      /\ Disturbed(d).asked = cmd[d].asked
                      /\ cmd[d].at # "idle" => Disturbed(d).disturbed = TRUE
    OBVIOUS
  <2> USE DisturbedShaped
  <2> QED BY DEF IInv, Typed
<1>4. cmd'[c] = r /\ \A d \in Commands \ {c} : cmd'[d] = Disturbed(d)
  BY <1>1
<1>5. Typed'
  BY <1>1, <1>2, <1>3, <1>4 DEF IInv, Typed
<1>6. Company'
  <2>1. \A d \in Commands \ {c} : cmd[d].at # "idle" => r.disturbed = TRUE
    BY <1>2, IdleShaped DEF others
  <2>2. ASSUME NEW d \in Commands, NEW e \in Commands, d # e,
               cmd'[d].at \in BeforeZip, cmd'[e].at # "idle"
        PROVE  cmd'[d].disturbed = TRUE
    <3>1. CASE d = c
      BY <3>1, <2>1, <2>2, <1>3, <1>4
    <3>2. CASE d # c
      BY <3>2, <2>2, <1>3, <1>4 DEF BeforeZip
    <3> QED BY <3>1, <3>2
  <2> QED BY <2>2 DEF Company
<1>7. Quiet'
  <2>1. saving => r.at = "asking" \/ r.disturbed = TRUE
    <3>1. saving => up = TRUE
      BY DEF IInv, Typed
    <3>2. running = TRUE => place = "asking"
      BY DEF place
    <3>3. running = FALSE /\ up = TRUE => others = TRUE
      BY DEF others
    <3> QED BY <1>2, <3>1, <3>2, <3>3
  <2>2. ASSUME NEW d \in Commands, cmd'[d].at \in BeforeZip \ {"asking"}, saving
        PROVE  cmd'[d].disturbed = TRUE
    <3>1. CASE d = c
      BY <3>1, <2>1, <2>2, <1>4
    <3>2. CASE d # c
      BY <3>2, <2>2, <1>3, <1>4 DEF BeforeZip
    <3> QED BY <3>1, <3>2
  <2> QED BY <2>2, <1>1 DEF Quiet
<1>8. SavingComesBack'
  BY <1>1, <1>3, <1>4, IdleShaped DEF IInv, SavingComesBack
<1> QED BY <1>5, <1>6, <1>7, <1>8 DEF IInv

LEMMA AskKeeps == ASSUME IInv, NEW c \in Commands, Ask(c) PROVE IInv'
<1>0. /\ cmd[c].at = "asking" /\ cmd[c].asked = FALSE /\ Shaped(cmd[c]) /\ Fields(cmd[c])
      /\ cmd[c].disturbed \in BOOLEAN /\ muted \in BOOLEAN
  BY DEF Ask, IInv, Typed, Shaped
<1>1. CASE Give(c) /\ UNCHANGED <<up, saving, muted>>
  BY <1>0, <1>1, GiveSilent
<1>3. CASE Give(c) /\ up' = up /\ saving' = FALSE /\ muted' = TRUE
  <2>1. cmd' = [cmd EXCEPT ![c] = Idle]
    BY <1>3 DEF Give
  <2>2. /\ Typed' /\ Company'
        /\ cmd'[c] = Idle /\ \A e \in Commands \ {c} : cmd'[e] = cmd[e]
    BY <1>0, <1>3, <2>1, IdleShaped, Local DEF BeforeZip
  <2>3. Quiet' /\ SavingComesBack'
    BY <1>3 DEF Quiet, SavingComesBack
  <2> QED BY <2>2, <2>3 DEF IInv
<1>2. CASE /\ up /\ saving' = FALSE /\ UNCHANGED <<up, muted>>
           /\ cmd' = [cmd EXCEPT ![c].at = "sleeping", ![c].asked = TRUE]
  <2> DEFINE r == [cmd[c] EXCEPT !.at = "sleeping", !.asked = TRUE]
  <2>1. cmd' = [cmd EXCEPT ![c] = r] /\ saving' = FALSE /\ UNCHANGED <<up, muted>>
    BY <1>2
  <2>2. Shaped(r) /\ r.at = "sleeping" /\ r.asked = TRUE /\ r.disturbed = cmd[c].disturbed
    BY <1>0 DEF Shaped, Fields, Names
  <2> HIDE DEF r
  <2>3. /\ Typed' /\ Company'
        /\ cmd'[c] = r /\ \A e \in Commands \ {c} : cmd'[e] = cmd[e]
    BY <1>0, <2>1, <2>2, Local DEF BeforeZip
  <2>4. Quiet' /\ SavingComesBack'
    BY <2>1, <2>2, <2>3 DEF Quiet, SavingComesBack
  <2> QED BY <2>3, <2>4 DEF IInv
<1> QED BY <1>1, <1>2, <1>3 DEF Ask

LEMMA WakeKeeps == ASSUME IInv, NEW c \in Commands, Wake(c) PROVE IInv'
<1> DEFINE r == [cmd[c] EXCEPT !.at = "listing"]
<1>1. cmd[c].at = "sleeping" /\ Shaped(cmd[c]) /\ Fields(cmd[c])
  BY DEF Wake, IInv, Typed, Shaped
<1>2. cmd' = [cmd EXCEPT ![c] = r] /\ UNCHANGED Server
  BY DEF Wake, Go, Server
<1>3. Shaped(r) /\ r.at = "listing" /\ r.asked = cmd[c].asked /\ r.disturbed = cmd[c].disturbed
  BY <1>1 DEF Shaped, Fields, Names
<1> HIDE DEF r
<1> QED BY <1>1, <1>2, <1>3, Same DEF BeforeZip

LEMMA ListKeeps == ASSUME IInv, NEW c \in Commands, List(c) PROVE IInv'
<1>1. cmd[c].at = "listing" /\ Shaped(cmd[c]) /\ Fields(cmd[c]) /\ UNCHANGED Server
  BY DEF Shaped, List, IInv, Typed
<1>2. CASE Leave(c)
  BY <1>1, <1>2, LeaveSilent
<1>3. ASSUME NEW p, NEW left,
             cmd' = [cmd EXCEPT ![c].at = "zipping", ![c].profile = p, ![c].found = zips,
                                ![c].left = left]
      PROVE  IInv'
  <2> DEFINE r == [cmd[c] EXCEPT !.at = "zipping", !.profile = p, !.found = zips, !.left = left]
  <2>1. cmd' = [cmd EXCEPT ![c] = r]
    BY <1>3
  <2>2. Shaped(r) /\ r.at = "zipping" /\ r.asked = cmd[c].asked /\ r.disturbed = cmd[c].disturbed
    BY <1>1 DEF Shaped, Fields, Names
  <2> HIDE DEF r
  <2> QED BY <1>1, <2>1, <2>2, Same DEF BeforeZip
<1> QED BY <1>2, <1>3 DEF List

LEMMA ZipKeeps == ASSUME IInv, NEW c \in Commands, Zip(c) PROVE IInv'
<1>1. cmd[c].at = "zipping" /\ Shaped(cmd[c]) /\ Fields(cmd[c]) /\ UNCHANGED Server
  BY DEF Shaped, Zip, IInv, Typed
<1>2. CASE Leave(c)
  BY <1>1, <1>2, LeaveSilent
<1>3. CASE cmd' = [cmd EXCEPT ![c].at = "expiring", ![c].profile = NoProfile,
                              ![c].disturbed = FALSE]
  <2> DEFINE r == [cmd[c] EXCEPT !.at = "expiring", !.profile = NoProfile, !.disturbed = FALSE]
  <2>1. cmd' = [cmd EXCEPT ![c] = r]
    BY <1>3
  <2>2. Shaped(r) /\ r.at = "expiring" /\ r.asked = cmd[c].asked
    BY <1>1 DEF Shaped, Fields, Names
  <2> HIDE DEF r
  <2> QED BY <1>1, <2>1, <2>2, Same DEF BeforeZip
<1> QED BY <1>2, <1>3 DEF Zip

\* Expiry: another profile is looked at, or an archive goes.
LEMMA DoomShaped ==
  ASSUME IInv, NEW c \in Commands, cmd[c].at = "expiring", UNCHANGED Server,
         NEW left, NEW doomed,
         cmd' = [cmd EXCEPT ![c] = [cmd[c] EXCEPT !.left = left, !.doomed = doomed]]
  PROVE  IInv'
<1> DEFINE r == [cmd[c] EXCEPT !.left = left, !.doomed = doomed]
<1>1. Shaped(cmd[c])
  BY DEF IInv, Typed
<1>2. Shaped(r) /\ r.at = "expiring" /\ r.asked = cmd[c].asked
  BY <1>1 DEF Shaped, Fields, Names
<1>3. cmd' = [cmd EXCEPT ![c] = r]
  OBVIOUS
<1> HIDE DEF r
<1> QED BY <1>2, <1>3, Same DEF BeforeZip

LEMMA ExpireKeeps == ASSUME IInv, NEW c \in Commands, Expire(c) PROVE IInv'
<1>1. cmd[c].at = "expiring" /\ Shaped(cmd[c]) /\ Fields(cmd[c]) /\ UNCHANGED Server
  BY DEF Shaped, Expire, IInv, Typed
<1>2. CASE Leave(c)
  BY <1>1, <1>2, LeaveSilent
<1>3. ASSUME NEW p, NEW doomed,
             cmd' = [cmd EXCEPT ![c].left = @ \ {p}, ![c].doomed = doomed]
      PROVE  IInv'
  <2>1. cmd' = [cmd EXCEPT ![c] = [cmd[c] EXCEPT !.left = cmd[c].left \ {p}, !.doomed = doomed]]
    BY <1>3
  <2> QED BY <1>1, <2>1, DoomShaped
<1> QED BY <1>2, <1>3 DEF Expire

LEMMA RemoveOldKeeps == ASSUME IInv, NEW c \in Commands, RemoveOld(c) PROVE IInv'
<1>1. cmd[c].at = "expiring" /\ Shaped(cmd[c]) /\ Fields(cmd[c]) /\ UNCHANGED Server
  BY DEF Shaped, RemoveOld, IInv, Typed
<1>2. CASE Leave(c)
  BY <1>1, <1>2, LeaveSilent
<1>3. ASSUME NEW z, cmd' = [cmd EXCEPT ![c].doomed = @ \ {z}]
      PROVE  IInv'
  <2>1. cmd' = [cmd EXCEPT ![c] = [cmd[c] EXCEPT !.left = cmd[c].left, !.doomed = cmd[c].doomed \ {z}]]
    BY <1>3
  <2> QED BY <1>1, <2>1, DoomShaped
<1> QED BY <1>2, <1>3 DEF RemoveOld

\* The finally clause makes good what the command asked for.
LEMMA FinallyKeeps == ASSUME IInv, NEW c \in Commands, Finally(c) PROVE IInv'
<1>0. CASE UNCHANGED <<up, saving>> /\ muted' = (muted \/ cmd[c].asked)
  BY <1>0, GiveSilent DEF Finally
<1> SUFFICES ASSUME up, saving' = TRUE, muted' = FALSE PROVE IInv'
  BY <1>0 DEF Finally
<1>1. cmd[c].at = "finally" /\ cmd' = [cmd EXCEPT ![c] = Idle] /\ up' = up
  BY DEF Finally, Give
<1>2. /\ saving' \in BOOLEAN /\ muted' \in BOOLEAN /\ (saving' => up)
      /\ up => saving' = TRUE
  BY DEF IInv, Typed
<1>3. /\ Typed' /\ Company'
      /\ cmd'[c] = Idle /\ \A e \in Commands \ {c} : cmd'[e] = cmd[e]
  <2>1. saving' \in BOOLEAN /\ muted' \in BOOLEAN /\ (saving' => up)
    BY <1>2
  <2>2. Idle.at # "idle" => cmd[c].at # "idle"
    BY IdleShaped
  <2>3. Idle.at \in BeforeZip => cmd[c].at \in BeforeZip /\ Idle.disturbed = cmd[c].disturbed
    BY IdleShaped DEF BeforeZip
  <2> QED BY <1>1, <2>1, <2>2, <2>3, IdleShaped, Local
<1>4. SavingComesBack'
  BY <1>1, <1>2 DEF SavingComesBack
<1>5. Quiet'
  BY <1>1, <1>2, <1>3, IdleShaped DEF Quiet, Company, BeforeZip, IInv, Typed
<1> QED BY <1>3, <1>4, <1>5 DEF IInv

LEMMA InterruptKeeps == ASSUME IInv, NEW c \in Commands, Interrupt(c) PROVE IInv'
<1>1. CASE cmd[c].at \in {"listing", "zipping", "expiring"} /\ Leave(c) /\ UNCHANGED Server
  BY <1>1, LeaveSilent
<1>2. CASE Give(c) /\ muted' = (muted \/ cmd[c].asked) /\ UNCHANGED <<up, saving>>
  BY <1>2, GiveSilent
<1> QED BY <1>1, <1>2 DEF Interrupt, Server

LEMMA KillKeeps == ASSUME IInv, NEW c \in Commands, Kill(c) PROVE IInv'
  BY GiveSilent DEF Kill

LEMMA StartKeeps == ASSUME IInv, Start PROVE IInv'
<1>1. /\ up' = TRUE /\ saving' = TRUE /\ muted' = FALSE
      /\ cmd' = [c \in Commands |-> Disturbed(c)]
  BY DEF Start
<1>2. \A d \in Commands : Shaped(cmd[d])
  BY DEF IInv, Typed
<1>3. ASSUME NEW d \in Commands
      PROVE  /\ Shaped(cmd'[d]) /\ cmd'[d].at = cmd[d].at
             /\ cmd[d].at # "idle" => cmd'[d].disturbed = TRUE
  BY <1>1, <1>2, DisturbedShaped
<1>4. Typed'
  BY <1>1, <1>3 DEF Typed
<1>5. Company' /\ Quiet'
  BY <1>3 DEF Company, Quiet, BeforeZip
<1>6. SavingComesBack'
  BY <1>1 DEF SavingComesBack
<1> QED BY <1>4, <1>5, <1>6 DEF IInv

LEMMA StopKeeps == ASSUME IInv, Stop PROVE IInv'
<1>1. up' = FALSE /\ saving' = FALSE /\ muted' = FALSE /\ cmd' = cmd
  BY DEF Stop
<1> QED BY <1>1 DEF IInv, Typed, Company, Quiet, SavingComesBack

LEMMA StutterKeeps == ASSUME IInv, UNCHANGED <<Server, cmd>> PROVE IInv'
  BY DEF Server, IInv, Typed, Company, Quiet, SavingComesBack

\* Every step keeps the invariant.
LEMMA NextI == IInv /\ [Next]_vars => IInv'
<1> SUFFICES ASSUME IInv, [Next]_vars PROVE IInv'
  OBVIOUS
<1>1. ASSUME NEW c \in Commands, Check(c) PROVE IInv'
  BY <1>1, CheckKeeps
<1>2. ASSUME NEW c \in Commands, Ask(c) \/ Wake(c) \/ List(c) \/ Zip(c) PROVE IInv'
  BY <1>2, AskKeeps, WakeKeeps, ListKeeps, ZipKeeps
<1>3. ASSUME NEW c \in Commands, Expire(c) \/ RemoveOld(c) PROVE IInv'
  BY <1>3, ExpireKeeps, RemoveOldKeeps
<1>4. ASSUME NEW c \in Commands, Expired(c) PROVE IInv'
  <2>1. Leave(c) /\ cmd[c].at # "idle" /\ UNCHANGED Server
    BY <1>4 DEF Expired
  <2> QED BY <2>1, LeaveSilent
<1>5. ASSUME NEW c \in Commands, Finally(c) \/ Interrupt(c) \/ Kill(c) PROVE IInv'
  BY <1>5, FinallyKeeps, InterruptKeeps, KillKeeps
<1>6. CASE Start \/ Stop
  BY <1>6, StartKeeps, StopKeeps
<1>7. CASE Tick \/ PutZip \/ UNCHANGED vars
  <2>1. UNCHANGED <<Server, cmd>>
    BY <1>7 DEF Tick, PutZip, vars, Server
  <2> QED BY <2>1, StutterKeeps
<1> QED BY <1>1, <1>2, <1>3, <1>4, <1>5, <1>6, <1>7 DEF Next

LEMMA AlwaysI == Spec => []IInv
  BY InitI, NextI, PTL DEF Spec

\* A backup that ends otherwise than by a kill, or by Ctrl-C outside its try,
\* leaves no running server with saving turned off, however many overlap.
THEOREM SavingReturns == Spec => []SavingComesBack
<1>1. IInv => SavingComesBack
  BY DEF IInv
<1> QED BY <1>1, AlwaysI, PTL

\* The world is zipped while the server saves into it only if another backup,
\* or a start of the server, came between.
THEOREM LoneZipsQuiet == Spec => []LoneZipsAreQuiet
<1>1. IInv => LoneZipsAreQuiet
  BY DEF IInv, Quiet, LoneZipsAreQuiet, BeforeZip
<1> QED BY <1>1, AlwaysI, PTL

-----------------------------------------------------------------------------
(* Types: what is doomed was found, and only the expiry dooms. *)

Doomed(r) ==
  /\ r.at \in Places /\ r.doomed \subseteq r.found
  /\ r.doomed # {} => r.at = "expiring"

TInv == time \in DOMAIN Times /\ \A c \in Commands : Doomed(cmd[c])

LEMMA CommandDoomed ==
  ASSUME NEW at \in Places, NEW asked, NEW disturbed PROVE Doomed(Command(at, asked, disturbed))
  BY DEF Doomed, Command

\* A step of one command.
LEMMA PutDoomed ==
  ASSUME Typed, TInv, NEW c \in Commands, NEW r, Doomed(r), cmd' = [cmd EXCEPT ![c] = r],
         time' = time
  PROVE  TInv'
  BY DEF Typed, TInv

LEMMA LeaveDoomed ==
  ASSUME Typed, TInv, NEW c \in Commands, Leave(c) \/ Give(c), time' = time PROVE TInv'
<1>1. Doomed(Idle) /\ Doomed(Command("finally", cmd[c].asked, FALSE))
  BY CommandDoomed DEF Idle, Places
<1> QED BY <1>1, PutDoomed DEF Leave, Give

LEMMA GoDoomed ==
  ASSUME Typed, TInv, NEW c \in Commands, NEW at \in Places, cmd[c].at # "expiring",
         NEW r, cmd' = [cmd EXCEPT ![c] = r], time' = time,
         r.at = at, r.doomed = cmd[c].doomed
  PROVE  TInv'
<1>1. cmd[c].doomed = {}
  BY DEF TInv, Doomed
<1> QED BY <1>1, PutDoomed DEF Doomed

LEMMA DisturbedDoomed == ASSUME Typed, TInv, NEW d \in Commands PROVE Doomed(Disturbed(d))
<1>1. Shaped(cmd[d]) /\ Doomed(cmd[d])
  BY DEF Typed, TInv
<1>2. CASE cmd[d] = Idle
  BY <1>1, <1>2 DEF Disturbed
<1>3. CASE cmd[d] # Idle
  <2> DEFINE r == [cmd[d] EXCEPT !.disturbed = TRUE]
  <2>1. r.at = cmd[d].at /\ r.found = cmd[d].found /\ r.doomed = cmd[d].doomed
    BY <1>1 DEF Shaped, Fields, Names
  <2>2. Disturbed(d) = r
    BY <1>3 DEF Disturbed
  <2> HIDE DEF r
  <2> QED BY <1>1, <2>1, <2>2 DEF Doomed
<1> QED BY <1>2, <1>3

LEMMA EarlyDoomed ==
  ASSUME Typed, TInv, NEW c \in Commands, Check(c) \/ Ask(c) \/ Wake(c) \/ List(c) PROVE TInv'
<1>0. time' = time /\ Shaped(cmd[c]) /\ DOMAIN cmd[c] = Names
  BY DEF Check, Ask, Wake, List, World, Typed, Shaped, Fields
<1>1. CASE Check(c)
  <2>0. PICK running \in {up, FALSE} :
          cmd' = [d \in Commands |->
            IF d = c
            THEN Command(IF running THEN "asking" ELSE "listing", FALSE,
                         running # up \/ \E e \in Commands : cmd[e] # Idle)
            ELSE Disturbed(d)]
    BY <1>1 DEF Check
  <2> DEFINE place == IF running THEN "asking" ELSE "listing"
             others == running # up \/ \E e \in Commands : cmd[e] # Idle
             r == Command(place, FALSE, others)
  <2>1. cmd' = [d \in Commands |-> IF d = c THEN r ELSE Disturbed(d)]
    BY <2>0
  <2>2. Doomed(r)
    <3>1. place \in Places
      BY DEF Places
    <3> HIDE DEF place, others
    <3> QED BY <3>1, CommandDoomed
  <2> HIDE DEF r
  <2>3. \A d \in Commands : Doomed(cmd'[d])
    BY <2>1, <2>2, DisturbedDoomed
  <2> QED BY <1>0, <2>3 DEF TInv
<1>2. CASE Ask(c) /\ Give(c)
  BY <1>0, <1>2, LeaveDoomed
<1>3. CASE Ask(c) /\ cmd' = [cmd EXCEPT ![c].at = "sleeping", ![c].asked = TRUE]
  <2> DEFINE r == [cmd[c] EXCEPT !.at = "sleeping", !.asked = TRUE]
  <2>1. cmd' = [cmd EXCEPT ![c] = r] /\ cmd[c].at # "expiring"
    BY <1>3 DEF Ask
  <2>2. r.at = "sleeping" /\ r.doomed = cmd[c].doomed
    BY <1>0 DEF Names
  <2> HIDE DEF r
  <2> QED BY <1>0, <2>1, <2>2, GoDoomed DEF Places
<1>4. CASE Wake(c)
  <2> DEFINE r == [cmd[c] EXCEPT !.at = "listing"]
  <2>1. cmd' = [cmd EXCEPT ![c] = r] /\ cmd[c].at # "expiring"
    BY <1>4 DEF Wake, Go
  <2>2. r.at = "listing" /\ r.doomed = cmd[c].doomed
    BY <1>0 DEF Names
  <2> HIDE DEF r
  <2> QED BY <1>0, <2>1, <2>2, GoDoomed DEF Places
<1>5. CASE List(c) /\ Leave(c)
  BY <1>0, <1>5, LeaveDoomed
<1>6. ASSUME NEW p, NEW left, List(c),
             cmd' = [cmd EXCEPT ![c].at = "zipping", ![c].profile = p, ![c].found = zips,
                                ![c].left = left]
      PROVE  TInv'
  <2> DEFINE r == [cmd[c] EXCEPT !.at = "zipping", !.profile = p, !.found = zips, !.left = left]
  <2>1. cmd' = [cmd EXCEPT ![c] = r] /\ cmd[c].at # "expiring"
    BY <1>6 DEF List
  <2>2. r.at = "zipping" /\ r.doomed = cmd[c].doomed
    BY <1>0 DEF Names
  <2> HIDE DEF r
  <2> QED BY <1>0, <2>1, <2>2, GoDoomed DEF Places
<1> QED BY <1>1, <1>2, <1>3, <1>4, <1>5, <1>6 DEF Ask, List

LEMMA ZipDoomed == ASSUME Typed, TInv, NEW c \in Commands, Zip(c) PROVE TInv'
<1>0. time' = time /\ DOMAIN cmd[c] = Names /\ cmd[c].at # "expiring"
  BY DEF Zip, World, Typed, Shaped, Fields
<1>1. CASE Leave(c)
  BY <1>0, <1>1, LeaveDoomed
<1>2. CASE cmd' = [cmd EXCEPT ![c].at = "expiring", ![c].profile = NoProfile,
                              ![c].disturbed = FALSE]
  <2> DEFINE r == [cmd[c] EXCEPT !.at = "expiring", !.profile = NoProfile, !.disturbed = FALSE]
  <2>1. cmd' = [cmd EXCEPT ![c] = r]
    BY <1>2
  <2>2. r.at = "expiring" /\ r.doomed = cmd[c].doomed
    BY <1>0 DEF Names
  <2> HIDE DEF r
  <2> QED BY <1>0, <2>1, <2>2, GoDoomed DEF Places
<1> QED BY <1>1, <1>2 DEF Zip

LEMMA ExpiryDoomed ==
  ASSUME Typed, TInv, NEW c \in Commands, Expire(c) \/ RemoveOld(c) PROVE TInv'
<1>0. time' = time /\ DOMAIN cmd[c] = Names /\ cmd[c].at = "expiring" /\ Doomed(cmd[c])
  BY DEF Expire, RemoveOld, World, Typed, Shaped, Fields, TInv
<1>1. CASE Leave(c)
  BY <1>0, <1>1, LeaveDoomed
<1>2. ASSUME NEW p, NEW doomed, doomed \subseteq cmd[c].found,
             cmd' = [cmd EXCEPT ![c].left = @ \ {p}, ![c].doomed = doomed]
      PROVE  TInv'
  <2> DEFINE r == [cmd[c] EXCEPT !.left = cmd[c].left \ {p}, !.doomed = doomed]
  <2>1. cmd' = [cmd EXCEPT ![c] = r]
    BY <1>2
  <2>2. r.at = "expiring" /\ r.found = cmd[c].found /\ r.doomed = doomed
    BY <1>0 DEF Names
  <2> HIDE DEF r
  <2>3. Doomed(r)
    BY <1>0, <1>2, <2>2 DEF Doomed
  <2> QED BY <1>0, <2>1, <2>3, PutDoomed
<1>3. ASSUME NEW z, cmd' = [cmd EXCEPT ![c].doomed = @ \ {z}] PROVE TInv'
  <2> DEFINE r == [cmd[c] EXCEPT !.doomed = cmd[c].doomed \ {z}]
  <2>1. cmd' = [cmd EXCEPT ![c] = r]
    BY <1>3
  <2>2. r.at = "expiring" /\ r.found = cmd[c].found /\ r.doomed = cmd[c].doomed \ {z}
    BY <1>0 DEF Names
  <2> HIDE DEF r
  <2>3. Doomed(r)
    BY <1>0, <2>2 DEF Doomed
  <2> QED BY <1>0, <2>1, <2>3, PutDoomed
<1>4. CASE Expire(c)
  <2>1. PICK p : \/ Leave(c)
                 \/ cmd' = [cmd EXCEPT ![c].left = @ \ {p}, ![c].doomed =
                      IF Lifetime(config, p) = NoLifetime THEN {}
                      ELSE Before(c, p, Back(Now, Lifetime(config, p).amount,
                                                  Lifetime(config, p).unit))]
    BY <1>4 DEF Expire
  <2> DEFINE doomed == IF Lifetime(config, p) = NoLifetime THEN {}
                       ELSE Before(c, p, Back(Now, Lifetime(config, p).amount,
                                                   Lifetime(config, p).unit))
  <2>2. doomed \subseteq cmd[c].found
    BY DEF Before
  <2>3. Leave(c) \/ cmd' = [cmd EXCEPT ![c].left = @ \ {p}, ![c].doomed = doomed]
    BY <2>1
  <2> HIDE DEF doomed
  <2> QED BY <1>1, <1>2, <2>2, <2>3
<1>5. CASE RemoveOld(c)
  BY <1>1, <1>3, <1>5 DEF RemoveOld
<1> QED BY <1>4, <1>5

LEMMA TypeNext == Typed /\ TInv /\ [Next]_vars => TInv'
<1> SUFFICES ASSUME Typed, TInv, [Next]_vars PROVE TInv'
  OBVIOUS
<1>1. ASSUME NEW c \in Commands, Check(c) \/ Ask(c) \/ Wake(c) \/ List(c) \/ Zip(c) PROVE TInv'
  BY <1>1, EarlyDoomed, ZipDoomed
<1>2. ASSUME NEW c \in Commands, Expire(c) \/ RemoveOld(c) PROVE TInv'
  BY <1>2, ExpiryDoomed
<1>3. ASSUME NEW c \in Commands, Expired(c) \/ Finally(c) \/ Interrupt(c) \/ Kill(c) PROVE TInv'
  <2>1. (Leave(c) \/ Give(c)) /\ time' = time
    BY <1>3 DEF Expired, Finally, Interrupt, Kill, World
  <2> QED BY <2>1, LeaveDoomed
<1>4. CASE Start
  BY <1>4, DisturbedDoomed DEF Start, World, TInv
<1>5. CASE Tick
  BY <1>5, TimesAssumption DEF Tick, TInv
<1>6. CASE UNCHANGED <<time, cmd>>
  BY <1>6 DEF TInv
<1> QED BY <1>1, <1>2, <1>3, <1>4, <1>5, <1>6 DEF Next, Stop, PutZip, World, vars

LEMMA TypesStart == Init => TInv
<1>1. Doomed(Idle)
  BY CommandDoomed DEF Idle, Places
<1>2. 1 \in DOMAIN Times
  BY TimesAssumption
<1> QED BY <1>1, <1>2 DEF Init, TInv

\* The state keeps its types, and what a backup is about to remove is what it
\* found before it made its own archive.
THEOREM TypesHold == Spec => []TypeOK
<1>1. IInv => Typed
  BY DEF IInv
<1>2. IInv /\ TInv => TypeOK
  BY DEF IInv, Typed, TInv, Doomed, TypeOK
<1> QED BY <1>1, <1>2, TypesStart, AlwaysI, TypeNext, PTL DEF Spec

-----------------------------------------------------------------------------
(* The calendar.  Years are counted from March on, so that the leap day is   *)
(* the last of its year, and the months since March have lengths that do not *)
(* depend on the year.                                                       *)

\* The leap days up to the end of year y.
LeapDays(y) == y \div 4 - y \div 100 + y \div 400

MarchYear(y, m) == IF m <= 2 THEN y - 1 ELSE y
MarchMonth(m) == IF m <= 2 THEN m + 9 ELSE m - 3
MarchDays(k) == <<0, 31, 61, 92, 122, 153, 184, 214, 245, 275, 306, 337>>[k + 1]

LEMMA Quarters ==
  ASSUME NEW y \in Int
  PROVE  /\ y \div 4 \in Int /\ y \div 100 \in Int /\ y \div 400 \in Int /\ LeapDays(y) \in Int
         /\ y \div 100 = (y \div 4) \div 25
         /\ y \div 400 = (y \div 100) \div 4
  BY DEF LeapDays

\* Rounding down never makes a step backwards, nor one further than the step.
LEMMA Rounded ==
  ASSUME NEW x \in Int, NEW y \in Int, x <= y
  PROVE  /\ 0 <= y \div 4 - x \div 4 /\ y \div 4 - x \div 4 <= y - x
         /\ 0 <= y \div 25 - x \div 25 /\ y \div 25 - x \div 25 <= y - x
  OBVIOUS

LEMMA LeapDaysGrow ==
  ASSUME NEW x \in Int, NEW y \in Int, x <= y
  PROVE  0 <= LeapDays(y) - LeapDays(x) /\ LeapDays(y) - LeapDays(x) <= y - x
<1> DEFINE ax == x \div 4
           ay == y \div 4
           bx == x \div 100
           by == y \div 100
<1>1. ax \in Int /\ ay \in Int /\ bx \in Int /\ by \in Int /\ bx = ax \div 25 /\ by = ay \div 25
      /\ LeapDays(x) = ax - bx + bx \div 4 /\ LeapDays(y) = ay - by + by \div 4
  BY Quarters DEF LeapDays
<1>2. 0 <= ay - ax /\ ay - ax <= y - x
  BY Rounded
<1> HIDE DEF ax, ay
<1>3. 0 <= by - bx /\ by - bx <= ay - ax
  BY <1>1, <1>2, Rounded
<1> HIDE DEF bx, by
<1>4. 0 <= by \div 4 - bx \div 4 /\ by \div 4 - bx \div 4 <= by - bx
  BY <1>1, <1>3, Rounded
<1>5. bx \div 4 \in Int /\ by \div 4 \in Int
  BY <1>1
<1> QED BY <1>1, <1>2, <1>3, <1>4, <1>5

LEMMA LeapDay ==
  ASSUME NEW y \in Int
  PROVE  LeapDays(y) = LeapDays(y - 1) + IF Leap(y) THEN 1 ELSE 0
  BY DEF LeapDays, Leap

LEMMA MarchOf ==
  ASSUME NEW m \in 1..12
  PROVE  MarchMonth(m) \in 0..11 /\ MarchDays(MarchMonth(m)) \in Int
  BY DEF MarchMonth, MarchDays

LEMMA MarchCount ==
  ASSUME NEW y \in Int, NEW m \in 1..12
  PROVE  DaysBefore(y, m) = 365 * MarchYear(y, m) + LeapDays(MarchYear(y, m)) + MarchDays(MarchMonth(m)) - 306
<1>1. DaysBefore(y, m) = 365 * (y - 1) + LeapDays(y - 1) + DaysBeforeMonth(y, m)
  BY DEF DaysBefore, LeapDays
<1>2. CASE m <= 2
  <2>1. DaysBeforeMonth(y, m) = MarchDays(MarchMonth(m)) - 306
    BY <1>2 DEF DaysBeforeMonth, MarchDays, MarchMonth
  <2> QED BY <1>1, <1>2, <2>1, Quarters DEF MarchYear
<1>3. CASE m > 2
  <2>1. DaysBeforeMonth(y, m) = MarchDays(MarchMonth(m)) + 59 + IF Leap(y) THEN 1 ELSE 0
    BY <1>3 DEF DaysBeforeMonth, MarchDays, MarchMonth
  <2>2. LeapDays(y) \in Int /\ LeapDays(y - 1) \in Int /\ MarchDays(MarchMonth(m)) \in Int
    BY Quarters, MarchOf
  <2> QED BY <1>1, <1>3, <2>1, <2>2, LeapDay DEF MarchYear
<1> QED BY <1>2, <1>3

LEMMA MonthsSince ==
  ASSUME NEW k \in 0..11, NEW m \in 0..11
  PROVE  /\ MarchDays(k) \in Int
         /\ 28 * k <= MarchDays(k) /\ MarchDays(k) <= 28 * k + 29
         /\ 31 * k - 4 <= MarchDays(k) /\ MarchDays(k) <= 31 * k
         /\ k <= m => /\ 28 * (m - k) <= MarchDays(m) - MarchDays(k)
                      /\ MarchDays(m) - MarchDays(k) <= 31 * (m - k)
<1>1. \A i \in 0..11 : /\ MarchDays(i) \in Int
                       /\ 28 * i <= MarchDays(i) /\ MarchDays(i) <= 28 * i + 29
                       /\ 31 * i - 4 <= MarchDays(i) /\ MarchDays(i) <= 31 * i
  BY DEF MarchDays
<1>2. \A i \in 0..10 : /\ MarchDays(i) - 28 * i <= MarchDays(i + 1) - 28 * (i + 1)
                       /\ MarchDays(i + 1) - 31 * (i + 1) <= MarchDays(i) - 31 * i
  BY DEF MarchDays
<1>3. k <= m => /\ MarchDays(k) - 28 * k <= MarchDays(m) - 28 * m
                /\ MarchDays(m) - 31 * m <= MarchDays(k) - 31 * k
  BY DEF MarchDays
<1> QED BY <1>1, <1>3

\* A number of months lasts 28 to 31 days each.
LEMMA MonthsLast ==
  ASSUME NEW x \in Int, NEW k \in 1..12, NEW y \in Int, NEW m \in 1..12, NEW n \in Nat,
         n = 12 * (y - x) + (m - k)
  PROVE  /\ 28 * n <= DaysBefore(y, m) - DaysBefore(x, k)
         /\ DaysBefore(y, m) - DaysBefore(x, k) <= 31 * n
<1> DEFINE X == MarchYear(x, k)
           Y == MarchYear(y, m)
           K == MarchMonth(k)
           M == MarchMonth(m)
           j == Y - X
<1>1. X \in Int /\ Y \in Int /\ K \in 0..11 /\ M \in 0..11 /\ n = 12 * j + (M - K)
  BY DEF MarchYear, MarchMonth
<1>2. /\ DaysBefore(y, m) = 365 * Y + LeapDays(Y) + MarchDays(M) - 306
      /\ DaysBefore(x, k) = 365 * X + LeapDays(X) + MarchDays(K) - 306
  BY MarchCount
<1> HIDE DEF X, Y, K, M
<1>3. j >= 0
  BY <1>1
<1>4. LeapDays(Y) \in Int /\ LeapDays(X) \in Int /\ 0 <= LeapDays(Y) - LeapDays(X) /\ LeapDays(Y) - LeapDays(X) <= j
  BY <1>1, <1>3, LeapDaysGrow, Quarters
<1>5. /\ MarchDays(K) \in Int /\ MarchDays(M) \in Int
      /\ j = 0 => /\ 28 * (M - K) <= MarchDays(M) - MarchDays(K)
                  /\ MarchDays(M) - MarchDays(K) <= 31 * (M - K)
      /\ 28 * (M - K) - 29 <= MarchDays(M) - MarchDays(K)
      /\ MarchDays(M) - MarchDays(K) <= 31 * (M - K) + 4
  BY <1>1, MonthsSince
<1> HIDE DEF j
<1>6. DaysBefore(y, m) - DaysBefore(x, k) = 365 * j + (LeapDays(Y) - LeapDays(X)) + (MarchDays(M) - MarchDays(K))
  BY <1>1, <1>2, <1>4, <1>5 DEF j
<1>7. j \in Int /\ M - K \in Int
  BY <1>1 DEF j
<1> QED BY <1>1, <1>3, <1>4, <1>5, <1>6, <1>7

LEMMA YearsLast ==
  ASSUME NEW y \in Int, NEW m \in 1..12, NEW n \in Nat
  PROVE  /\ 365 * n <= DaysBefore(y, m) - DaysBefore(y - n, m)
         /\ DaysBefore(y, m) - DaysBefore(y - n, m) <= 366 * n
<1> DEFINE Y == MarchYear(y, m)
<1>1. Y \in Int /\ MarchYear(y - n, m) = Y - n
  BY DEF MarchYear
<1>2. /\ DaysBefore(y, m) = 365 * Y + LeapDays(Y) + MarchDays(MarchMonth(m)) - 306
      /\ DaysBefore(y - n, m) = 365 * (Y - n) + LeapDays(Y - n) + MarchDays(MarchMonth(m)) - 306
  BY <1>1, MarchCount
<1> HIDE DEF Y
<1>3. PICK X \in Int : X = Y - n /\ X <= Y /\ Y - X = n
  BY <1>1
<1>4. LeapDays(Y) \in Int /\ LeapDays(X) \in Int /\ MarchDays(MarchMonth(m)) \in Int
  BY <1>1, <1>3, Quarters, MarchOf
<1>5. 0 <= LeapDays(Y) - LeapDays(X) /\ LeapDays(Y) - LeapDays(X) <= Y - X
  BY <1>1, <1>3, LeapDaysGrow
<1> QED BY <1>1, <1>2, <1>3, <1>4, <1>5

LEMMA NextMonth ==
  ASSUME NEW y \in Int, NEW m \in 1..12
  PROVE  DaysBefore(y, m) + MonthDays(y, m)
           = IF m = 12 THEN DaysBefore(y + 1, 1) ELSE DaysBefore(y, m + 1)
<1> DEFINE leap == IF Leap(y) THEN 1 ELSE 0
<1>1. LeapDays(y) = LeapDays(y - 1) + leap /\ LeapDays(y) \in Int /\ LeapDays(y - 1) \in Int /\ leap \in Int
  BY LeapDay, Quarters
<1>2. \A k \in 1..12 : DaysBefore(y, k) = 365 * (y - 1) + LeapDays(y - 1) + DaysBeforeMonth(y, k)
  BY DEF DaysBefore, LeapDays
<1>3. DaysBefore(y + 1, 1) = 365 * y + LeapDays(y)
  BY DEF DaysBefore, LeapDays, DaysBeforeMonth
<1>4. m # 12 => DaysBeforeMonth(y, m) + MonthDays(y, m) = DaysBeforeMonth(y, m + 1)
  BY DEF DaysBeforeMonth, MonthDays
<1>5. DaysBeforeMonth(y, 12) + MonthDays(y, 12) = 365 + leap
  BY DEF DaysBeforeMonth, MonthDays
<1>6. DaysBeforeMonth(y, m) \in Int /\ MonthDays(y, m) \in Int
  BY DEF DaysBeforeMonth, MonthDays
<1> HIDE DEF leap
<1> QED BY <1>1, <1>2, <1>3, <1>4, <1>5, <1>6

LEMMA DaysAreInt ==
  ASSUME NEW y \in Int, NEW m \in 1..12
  PROVE  DaysBefore(y, m) \in Int /\ MonthDays(y, m) \in 28..31
  BY DEF DaysBefore, DaysBeforeMonth, MonthDays

LEMMA StampFields ==
  ASSUME NEW t \in Stamps PROVE t.y \in Int /\ t.m \in 1..12 /\ t.d \in Int /\ t.d \in 1..31 /\ t.h \in Int
<1>1. t.y \in Years /\ t.m \in 1..12 /\ t.d \in 1..31 /\ t.h \in 0..23
  BY DEF Stamps
<1>2. \A i \in Years : i \in Int
  BY DEF Years
<1> QED BY <1>1, <1>2

LEMMA HoursAreInt == ASSUME NEW t \in Stamps PROVE Hours(t) \in Int
<1>1. t.y \in Int /\ t.m \in 1..12 /\ t.d \in Int /\ t.h \in Int
  BY StampFields
<1>2. DaysBefore(t.y, t.m) \in Int
  BY <1>1, DaysAreInt
<1> QED BY <1>1, <1>2 DEF Hours

LEMMA YearBackLasts ==
  ASSUME NEW t \in Stamps, NEW n \in Nat, YearBack(t, n) # NoDate
  PROVE  /\ YearBack(t, n) \in Int
         /\ 24 * (365 * n) <= Hours(t) - YearBack(t, n) /\ Hours(t) - YearBack(t, n) <= 24 * (366 * n)
<1>1. t.y \in Int /\ t.m \in 1..12 /\ t.d \in Int /\ t.h \in Int
  BY StampFields
<1>2. YearBack(t, n) = 24 * (DaysBefore(t.y - n, t.m) + t.d) + t.h
  BY DEF YearBack, Hours, Stamps
<1>3. PICK y \in Int : y = t.y - n
  BY <1>1
<1>4. DaysBefore(t.y, t.m) \in Int /\ DaysBefore(y, t.m) \in Int
  BY <1>1, DaysAreInt
<1>5. /\ 365 * n <= DaysBefore(t.y, t.m) - DaysBefore(y, t.m)
      /\ DaysBefore(t.y, t.m) - DaysBefore(y, t.m) <= 366 * n
  BY <1>1, <1>3, YearsLast
<1>6. Hours(t) = 24 * (DaysBefore(t.y, t.m) + t.d) + t.h
  BY DEF Hours
<1> QED BY <1>1, <1>2, <1>3, <1>4, <1>5, <1>6

\* A day that the earlier month has not got is moved to its last.
LEMMA MonthBackLasts ==
  ASSUME NEW t \in Stamps, NEW n \in Nat \ {0}, MonthBack(t, n) # NoDate
  PROVE  /\ MonthBack(t, n) \in Int
         /\ 24 * (28 * n) <= Hours(t) - MonthBack(t, n) /\ Hours(t) - MonthBack(t, n) <= 24 * (31 * n)
<1>1. t.y \in Int /\ t.m \in 1..12 /\ t.d \in 1..31 /\ t.h \in Int
  BY StampFields
<1>2. PICK k \in Int : k = t.m - n - 1
  BY <1>1
<1>3. PICK y \in Int, m \in 1..12 : y = t.y + k \div 12 /\ m = 1 + (k % 12)
  BY <1>1, <1>2
<1>4. n = 12 * (t.y - y) + (t.m - m)
  <2>1. PICK q \in Int, r \in 0..11 : q = k \div 12 /\ r = k % 12 /\ k = 12 * q + r
    OBVIOUS
  <2>2. y = t.y + q /\ m = 1 + r /\ k = 12 * q + r
    BY <1>3, <2>1
  <2>3. PICK ty \in Int, tm \in Int : ty = t.y /\ tm = t.m
    BY <1>1
  <2>4. y = ty + q /\ k = tm - n - 1 /\ n \in Int
    BY <1>2, <2>2, <2>3
  <2>5. n = 12 * (ty - y) + (tm - m)
    BY <2>2, <2>4
  <2> QED BY <2>3, <2>5
<1> DEFINE most == MonthDays(y, m)
           d == IF t.d < most THEN t.d ELSE most
           D == DaysBefore(t.y, t.m) - DaysBefore(y, m)
<1>5. most \in 28..31 /\ DaysBefore(y, m) \in Int /\ DaysBefore(t.y, t.m) \in Int
  BY <1>1, DaysAreInt
<1>6. MonthBack(t, n) = 24 * (DaysBefore(y, m) + d) + t.h
  BY <1>1, <1>2, <1>3 DEF MonthBack, Hours, Stamps
<1>7. 28 * n <= D /\ D <= 31 * n
  BY <1>1, <1>4, MonthsLast
<1>8. D <= most + 31 * (n - 1)
  <2>1. PICK x \in Int, j \in 1..12 : /\ x = IF m = 12 THEN y + 1 ELSE y
                                      /\ j = IF m = 12 THEN 1 ELSE m + 1
    OBVIOUS
  <2>2. DaysBefore(x, j) = DaysBefore(y, m) + most
    BY <2>1, NextMonth
  <2>3. n - 1 \in Nat /\ n - 1 = 12 * (t.y - x) + (t.m - j)
    BY <1>1, <1>4, <2>1
  <2>4. DaysBefore(t.y, t.m) - DaysBefore(x, j) <= 31 * (n - 1)
    BY <1>1, <2>3, MonthsLast
  <2> HIDE DEF most
  <2> QED BY <1>5, <2>2, <2>4
<1>9. Hours(t) = 24 * (DaysBefore(t.y, t.m) + t.d) + t.h
  BY DEF Hours
<1>10. Hours(t) - MonthBack(t, n) = 24 * (D + (t.d - d)) /\ MonthBack(t, n) \in Int
  <2> HIDE DEF most
  <2> QED BY <1>1, <1>5, <1>6, <1>9
<1>11. 28 * n <= D + (t.d - d) /\ D + (t.d - d) <= 31 * n
  <2>1. CASE t.d < most
    <3>1. d = t.d
      BY <2>1
    <3> HIDE DEF d, most
    <3> QED BY <1>1, <1>5, <1>7, <3>1
  <2>2. CASE ~(t.d < most)
    <3>1. d = most
      BY <2>2
    <3> HIDE DEF d, most
    <3> QED BY <1>1, <1>5, <1>7, <1>8, <2>2, <3>1
  <2> QED BY <2>1, <2>2
<1>12. D + (t.d - d) \in Int
  <2> HIDE DEF most
  <2> QED BY <1>1, <1>5
<1> HIDE DEF D, d
<1> QED BY <1>10, <1>11, <1>12

Lives == [amount : Int, unit : Units]

\* A lifetime from 0 on goes back by Least to Most hours, if there is such a date.
LEMMA BackLasts ==
  ASSUME NEW t \in Stamps, NEW life \in Lives, life.amount >= 0, Back(t, life.amount, life.unit) # NoDate
  PROVE  /\ Back(t, life.amount, life.unit) \in Int
         /\ Least(life) <= Hours(t) - Back(t, life.amount, life.unit)
         /\ Hours(t) - Back(t, life.amount, life.unit) <= Most(life)
<1> DEFINE n == life.amount
           unit == life.unit
<1>1. n \in Nat /\ unit \in Units /\ Hours(t) \in Int
  BY HoursAreInt DEF Lives
<1>2. CASE n = 0
  <2>1. Back(t, n, unit) = Hours(t)
    BY <1>2 DEF Back
  <2>2. Least(life) = 0 /\ Most(life) = 0
    BY <1>1, <1>2 DEF Least, Most, Units
  <2> QED BY <1>1, <2>1, <2>2
<1>3. CASE n # 0 /\ unit = "year"
  <2>1. Back(t, n, unit) = YearBack(t, n)
    BY <1>3 DEF Back
  <2>2. Least(life) = 24 * (365 * n) /\ Most(life) = 24 * (366 * n)
    BY <1>1, <1>3 DEF Least, Most
  <2> QED BY <1>1, <2>1, <2>2, YearBackLasts
<1>4. CASE n # 0 /\ unit = "month"
  <2>1. Back(t, n, unit) = MonthBack(t, n)
    BY <1>4 DEF Back
  <2>2. Least(life) = 24 * (28 * n) /\ Most(life) = 24 * (31 * n)
    BY <1>1, <1>4 DEF Least, Most
  <2> QED BY <1>1, <1>4, <2>1, <2>2, MonthBackLasts
<1>5. CASE n # 0 /\ unit = "week"
  <2>1. Back(t, n, unit) = Hours(t) - 24 * 7 * n
    BY <1>5 DEF Back, InYears
  <2>2. Least(life) = 24 * (7 * n) /\ Most(life) = 24 * (7 * n)
    BY <1>1, <1>5 DEF Least, Most
  <2> QED BY <1>1, <2>1, <2>2
<1>6. CASE n # 0 /\ unit = "day"
  <2>1. Back(t, n, unit) = Hours(t) - 24 * n
    BY <1>6 DEF Back, InYears
  <2>2. Least(life) = 24 * n /\ Most(life) = 24 * n
    BY <1>1, <1>6 DEF Least, Most
  <2> QED BY <1>1, <2>1, <2>2
<1> QED BY <1>1, <1>2, <1>3, <1>4, <1>5, <1>6 DEF Units

-----------------------------------------------------------------------------
(* Lifetimes.  An expiry works on the archives that were listed, while others *)
(* remove and make archives and the time stands still: what it has doomed is  *)
(* past its lifetime, and what is still there is either doomed, of a profile  *)
(* it has not looked at yet, or within its lifetime.                          *)

Limit(z) ==
  LET life == Lifetime(config, z.profile) IN Back(Now, life.amount, life.unit)

Past(z) == Lifetime(config, z.profile) # NoLifetime /\ Limit(z) # NoDate /\ Hours(z.at) < Limit(z)
Kept(z) == Lifetime(config, z.profile) = NoLifetime \/ (Limit(z) # NoDate /\ ~(Hours(z.at) < Limit(z)))

\* An archive among the first n made.
Archived(z, n) ==
  z.profile \in DOMAIN config.profiles /\ z.at \in Stamps /\ z.n \in Nat /\ z.n < n

Sees(r, present, n) ==
  /\ \A z \in r.found : Archived(z, n)
  /\ r.at = "zipping" => r.profile \in DOMAIN config.profiles /\ \A z \in r.found : z.profile \in r.left
  /\ \A z \in r.doomed : z \in r.found /\ Past(z)
  /\ r.at = "expiring" => \A z \in present \cap r.found : z.profile \in r.left \/ z \in r.doomed \/ Kept(z)

LifeInv ==
  /\ config \in Configs /\ made \in Nat /\ time \in DOMAIN Times
  /\ \A z \in zips : Archived(z, made)
  /\ \A c \in Commands : Sees(cmd[c], zips, made)

LEMMA NothingSeen ==
  ASSUME NEW at, at # "zipping", NEW asked, NEW disturbed, NEW present, NEW n
  PROVE  Sees(Command(at, asked, disturbed), present, n)
  BY DEF Sees, Command

\* What a command sees stays true when archives go and when new ones come.
LEMMA StillSeen ==
  ASSUME NEW r, NEW m \in Nat, Sees(r, zips, m), NEW n \in Nat, m <= n, NEW present,
         \A z \in present : z \in zips \/ z.n = m
  PROVE  Sees(r, present, n)
<1>1. \A z : Archived(z, m) => Archived(z, n) /\ z.n # m
  BY DEF Archived
<1>2. \A z \in present \cap r.found : z \in zips \cap r.found
  BY <1>1 DEF Sees
<1> QED BY <1>1, <1>2 DEF Sees

LEMMA AllSee ==
  ASSUME LifeInv, UNCHANGED <<config, time>>, made' \in Nat, made <= made',
         \A z \in zips' : z \in zips \/ (z.n = made /\ Archived(z, made')),
         \A d \in Commands : Sees(cmd'[d], zips', made')
  PROVE  LifeInv'
<1>1. \A z \in zips' : Archived(z, made')
  <2>1. \A z : Archived(z, made) => Archived(z, made')
    BY DEF Archived, LifeInv
  <2> QED BY <2>1 DEF LifeInv
<1>2. \A z \in zips' : Archived(z, made)'
  <2> TAKE z \in zips'
  <2>1. config' = config
    OBVIOUS
  <2> QED BY <1>1, <2>1 DEF Archived
<1>3. \A d \in Commands : Sees(cmd[d], zips, made)'
  <2> TAKE d \in Commands
  <2>1. \A z : (Past(z) <=> Past(z)') /\ (Kept(z) <=> Kept(z)')
    BY DEF Past, Kept, Limit, Now
  <2> QED BY <2>1 DEF Sees, Archived
<1> QED BY <1>2, <1>3 DEF LifeInv

\* A step of one command.
LEMMA OneSees ==
  ASSUME Typed, LifeInv, NEW c \in Commands, NEW r, cmd' = [cmd EXCEPT ![c] = r],
         UNCHANGED <<config, time>>, made' \in Nat, made <= made',
         \A z \in zips' : z \in zips \/ (z.n = made /\ Archived(z, made')),
         Sees(r, zips, made) \/ Sees(r, zips', made')
  PROVE  LifeInv'
<1>1. cmd'[c] = r /\ \A d \in Commands \ {c} : cmd'[d] = cmd[d]
  BY DEF Typed
<1>2. ASSUME NEW q, Sees(q, zips, made) PROVE Sees(q, zips', made')
  <2>1. made \in Nat
    BY DEF LifeInv
  <2> QED BY <1>2, <2>1, StillSeen
<1>3. \A d \in Commands : Sees(cmd'[d], zips', made')
  BY <1>1, <1>2 DEF LifeInv
<1> QED BY <1>3, AllSee

\* A step that makes no archive and removes none.
LEMMA QuietSees ==
  ASSUME Typed, LifeInv, NEW c \in Commands, NEW r, cmd' = [cmd EXCEPT ![c] = r],
         UNCHANGED <<config, time, zips, made>>, Sees(r, zips, made)
  PROVE  LifeInv'
<1>1. made \in Nat /\ made <= made'
  BY DEF LifeInv
<1> QED BY <1>1, OneSees

LEMMA EndSees ==
  ASSUME Typed, LifeInv, NEW c \in Commands, Leave(c) \/ Give(c), UNCHANGED <<config, time, zips, made>>
  PROVE  LifeInv'
<1>1. Sees(Idle, zips, made) /\ Sees(Command("finally", cmd[c].asked, FALSE), zips, made)
  BY NothingSeen DEF Idle
<1> QED BY <1>1, QuietSees DEF Leave, Give

LEMMA DisturbedSees == ASSUME Typed, LifeInv, NEW d \in Commands PROVE Sees(Disturbed(d), zips, made)
<1>1. Shaped(cmd[d]) /\ Sees(cmd[d], zips, made)
  BY DEF Typed, LifeInv
<1>2. CASE cmd[d] = Idle
  BY <1>1, <1>2 DEF Disturbed
<1>3. CASE cmd[d] # Idle
  <2> DEFINE r == [cmd[d] EXCEPT !.disturbed = TRUE]
  <2>1. /\ r.at = cmd[d].at /\ r.found = cmd[d].found /\ r.doomed = cmd[d].doomed
        /\ r.left = cmd[d].left /\ r.profile = cmd[d].profile
    BY <1>1 DEF Shaped, Fields, Names
  <2>2. Disturbed(d) = r
    BY <1>3 DEF Disturbed
  <2> HIDE DEF r
  <2> QED BY <1>1, <2>1, <2>2 DEF Sees
<1> QED BY <1>2, <1>3

LEMMA EarlySees ==
  ASSUME Typed, TInv, LifeInv, NEW c \in Commands, Check(c) \/ Ask(c) \/ Wake(c) \/ List(c) PROVE LifeInv'
<1>0. /\ UNCHANGED <<config, time, zips, made>> /\ DOMAIN cmd[c] = Names
      /\ Sees(cmd[c], zips, made) /\ Doomed(cmd[c]) /\ cmd[c].at # "expiring" /\ cmd[c].at # "zipping"
  BY IdleShaped DEF Check, Ask, Wake, List, World, Typed, Shaped, Fields, TInv, LifeInv
<1>1. CASE Check(c)
  <2>0. PICK running \in {up, FALSE} :
          cmd' = [d \in Commands |->
            IF d = c
            THEN Command(IF running THEN "asking" ELSE "listing", FALSE,
                         running # up \/ \E e \in Commands : cmd[e] # Idle)
            ELSE Disturbed(d)]
    BY <1>1 DEF Check
  <2> DEFINE place == IF running THEN "asking" ELSE "listing"
             others == running # up \/ \E e \in Commands : cmd[e] # Idle
             r == Command(place, FALSE, others)
  <2>1. cmd' = [d \in Commands |-> IF d = c THEN r ELSE Disturbed(d)]
    BY <2>0
  <2>2. Sees(r, zips, made)
    <3>1. place # "zipping"
      OBVIOUS
    <3> HIDE DEF place, others
    <3> QED BY <3>1, NothingSeen
  <2> HIDE DEF r
  <2>3. \A d \in Commands : Sees(cmd'[d], zips, made)
    BY <2>1, <2>2, DisturbedSees
  <2>4. made \in Nat /\ made <= made
    BY DEF LifeInv
  <2> QED BY <1>0, <2>3, <2>4, AllSee
<1>2. CASE Ask(c) /\ Give(c)
  BY <1>0, <1>2, EndSees
<1>3. ASSUME NEW r, cmd' = [cmd EXCEPT ![c] = r], r.at \in {"sleeping", "listing"},
             r.found = cmd[c].found, r.doomed = cmd[c].doomed
      PROVE  LifeInv'
  <2>1. Sees(r, zips, made)
    BY <1>0, <1>3 DEF Sees
  <2> QED BY <1>0, <1>3, <2>1, QuietSees
<1>4. CASE Ask(c) /\ cmd' = [cmd EXCEPT ![c].at = "sleeping", ![c].asked = TRUE]
  <2> DEFINE r == [cmd[c] EXCEPT !.at = "sleeping", !.asked = TRUE]
  <2>1. cmd' = [cmd EXCEPT ![c] = r]
    BY <1>4
  <2>2. r.at = "sleeping" /\ r.found = cmd[c].found /\ r.doomed = cmd[c].doomed
    BY <1>0 DEF Names
  <2> HIDE DEF r
  <2> QED BY <1>3, <2>1, <2>2
<1>5. CASE Wake(c)
  <2> DEFINE r == [cmd[c] EXCEPT !.at = "listing"]
  <2>1. cmd' = [cmd EXCEPT ![c] = r]
    BY <1>5 DEF Wake, Go
  <2>2. r.at = "listing" /\ r.found = cmd[c].found /\ r.doomed = cmd[c].doomed
    BY <1>0 DEF Names
  <2> HIDE DEF r
  <2> QED BY <1>3, <2>1, <2>2
<1>6. CASE List(c) /\ Leave(c)
  BY <1>0, <1>6, EndSees
<1>7. ASSUME List(c), NEW p \in DOMAIN config.profiles, NEW more,
             cmd' = [cmd EXCEPT ![c].at = "zipping", ![c].profile = p, ![c].found = zips,
                                ![c].left = {z.profile : z \in zips} \cup more]
      PROVE  LifeInv'
  <2> DEFINE left == {z.profile : z \in zips} \cup more
             r == [cmd[c] EXCEPT !.at = "zipping", !.profile = p, !.found = zips, !.left = left]
  <2>1. cmd' = [cmd EXCEPT ![c] = r]
    BY <1>7
  <2>2. r.at = "zipping" /\ r.profile = p /\ r.found = zips /\ r.left = left /\ r.doomed = cmd[c].doomed
    <3> HIDE DEF left
    <3> QED BY <1>0 DEF Names
  <2>3. cmd[c].doomed = {} /\ \A z \in zips : z.profile \in left
    BY <1>0 DEF Doomed
  <2> HIDE DEF r, left
  <2>4. Sees(r, zips, made)
    BY <2>2, <2>3 DEF Sees, LifeInv
  <2> QED BY <1>0, <2>1, <2>4, QuietSees
<1>8. CASE Ask(c)
  <2>1. Give(c) \/ cmd' = [cmd EXCEPT ![c].at = "sleeping", ![c].asked = TRUE]
    BY <1>8 DEF Ask
  <2> QED BY <1>2, <1>4, <1>8, <2>1
<1>9. CASE List(c)
  <2> DEFINE more == IF stray = "unknown" THEN {NoProfile} ELSE {}
  <2>1. PICK p \in Profiles \cup {Scheduled(config, Now, zips)} :
          IF stray = "unreadable" \/ p \notin DOMAIN config.profiles
          THEN Leave(c)
          ELSE cmd' = [cmd EXCEPT ![c].at = "zipping", ![c].profile = p, ![c].found = zips,
                                  ![c].left = {z.profile : z \in zips} \cup more]
    BY <1>9 DEF List
  <2> HIDE DEF more
  <2>2. CASE stray = "unreadable" \/ p \notin DOMAIN config.profiles
    BY <1>6, <1>9, <2>1, <2>2
  <2>3. CASE ~(stray = "unreadable" \/ p \notin DOMAIN config.profiles)
    BY <1>7, <1>9, <2>1, <2>3
  <2> QED BY <2>2, <2>3
<1> QED BY <1>1, <1>5, <1>8, <1>9

LEMMA ArchiveSees ==
  ASSUME LifeInv, NEW c \in Commands, Archive(c)
  PROVE  /\ made' \in Nat /\ made <= made'
         /\ \A z \in zips' : z \in zips \/ (z.n = made /\ Archived(z, made'))
<1> DEFINE new == [profile |-> cmd[c].profile, at |-> Now, n |-> made]
<1>1. Sees(cmd[c], zips, made) /\ cmd[c].at = "zipping" /\ made \in Nat /\ made' = made + 1
  BY DEF Archive, LifeInv
<1>2. Now \in Stamps
  BY TimesAssumption DEF LifeInv, Now
<1>3. new.profile = cmd[c].profile /\ new.at = Now /\ new.n = made
  OBVIOUS
<1>4. zips' = zips \cup {new}
  BY DEF Archive
<1> HIDE DEF new
<1>5. Archived(new, made')
  BY <1>1, <1>2, <1>3 DEF Sees, Archived
<1> QED BY <1>1, <1>3, <1>4, <1>5

LEMMA ZipSees == ASSUME Typed, TInv, LifeInv, NEW c \in Commands, Zip(c) PROVE LifeInv'
<1>0. /\ UNCHANGED <<config, time>> /\ DOMAIN cmd[c] = Names /\ cmd[c].at = "zipping"
      /\ Sees(cmd[c], zips, made) /\ cmd[c].doomed = {}
  BY DEF Zip, World, Typed, Shaped, Fields, TInv, Doomed, LifeInv
<1>1. CASE Leave(c) /\ UNCHANGED <<zips, made>>
  BY <1>0, <1>1, EndSees
<1>2. CASE Archive(c) /\ cmd' = [cmd EXCEPT ![c].at = "expiring", ![c].profile = NoProfile,
                                            ![c].disturbed = FALSE]
  <2> DEFINE r == [cmd[c] EXCEPT !.at = "expiring", !.profile = NoProfile, !.disturbed = FALSE]
  <2>1. cmd' = [cmd EXCEPT ![c] = r]
    BY <1>2
  <2>2. r.at = "expiring" /\ r.doomed = {} /\ r.found = cmd[c].found /\ r.left = cmd[c].left
    BY <1>0 DEF Names
  <2> HIDE DEF r
  <2>3. Sees(r, zips, made)
    BY <1>0, <2>2 DEF Sees
  <2>4. /\ made' \in Nat /\ made <= made'
        /\ \A z \in zips' : z \in zips \/ (z.n = made /\ Archived(z, made'))
    BY <1>2, ArchiveSees
  <2> QED BY <1>0, <2>1, <2>3, <2>4, OneSees
<1> QED BY <1>1, <1>2 DEF Zip

LEMMA KillSees == ASSUME Typed, LifeInv, NEW c \in Commands, Kill(c) PROVE LifeInv'
<1>1. UNCHANGED <<config, time>> /\ Give(c)
  BY DEF Kill, World
<1>2. CASE UNCHANGED <<zips, made>>
  BY <1>1, <1>2, EndSees
<1>3. CASE Archive(c)
  <2>1. /\ made' \in Nat /\ made <= made'
        /\ \A z \in zips' : z \in zips \/ (z.n = made /\ Archived(z, made'))
    BY <1>3, ArchiveSees
  <2>2. Sees(Idle, zips, made)
    BY NothingSeen DEF Idle
  <2> QED BY <1>1, <2>1, <2>2, OneSees DEF Give
<1> QED BY <1>2, <1>3 DEF Kill

LEMMA ExpireSees == ASSUME Typed, TInv, LifeInv, NEW c \in Commands, Expire(c) PROVE LifeInv'
<1>0. /\ UNCHANGED <<config, time, zips, made>> /\ DOMAIN cmd[c] = Names
      /\ Sees(cmd[c], zips, made) /\ cmd[c].at = "expiring" /\ cmd[c].doomed = {}
  BY DEF Expire, World, Typed, Shaped, Fields, LifeInv
<1> DEFINE life(p) == Lifetime(config, p)
           earliest(p) == Back(Now, life(p).amount, life(p).unit)
           doomed(p) == IF life(p) = NoLifetime THEN {} ELSE Before(c, p, earliest(p))
<1>1. PICK p \in cmd[c].left :
        IF p \notin DOMAIN config.profiles \/ (life(p) # NoLifetime /\ earliest(p) = NoDate)
        THEN Leave(c)
        ELSE cmd' = [cmd EXCEPT ![c].left = @ \ {p}, ![c].doomed = doomed(p)]
  BY DEF Expire
<1>2. CASE Leave(c)
  BY <1>0, <1>2, EndSees
<1>3. CASE /\ life(p) # NoLifetime => earliest(p) # NoDate
           /\ cmd' = [cmd EXCEPT ![c].left = @ \ {p}, ![c].doomed = doomed(p)]
  <2> DEFINE r == [cmd[c] EXCEPT !.left = cmd[c].left \ {p}, !.doomed = doomed(p)]
  <2>1. cmd' = [cmd EXCEPT ![c] = r]
    BY <1>3
  <2>2. /\ r.at = "expiring" /\ r.found = cmd[c].found
        /\ r.left = cmd[c].left \ {p} /\ r.doomed = doomed(p)
    <3> HIDE DEF doomed
    <3> QED BY <1>0 DEF Names
  <2> HIDE DEF r
  <2>3. \A z \in doomed(p) : z \in cmd[c].found /\ Past(z)
    BY <1>3 DEF Before, Past, Limit
  <2>4. \A z \in cmd[c].found : z.profile = p => z \in doomed(p) \/ Kept(z)
    BY <1>3 DEF Before, Kept, Limit
  <2> HIDE DEF doomed, life, earliest
  <2>5. Sees(r, zips, made)
    BY <1>0, <2>2, <2>3, <2>4 DEF Sees
  <2> QED BY <1>0, <2>1, <2>5, QuietSees
<1> HIDE DEF doomed, life, earliest
<1> QED BY <1>1, <1>2, <1>3

LEMMA RemoveOldSees == ASSUME Typed, LifeInv, NEW c \in Commands, RemoveOld(c) PROVE LifeInv'
<1>0. /\ UNCHANGED <<config, time, made>> /\ DOMAIN cmd[c] = Names
      /\ Sees(cmd[c], zips, made) /\ cmd[c].at = "expiring" /\ made \in Nat
  BY DEF RemoveOld, World, Typed, Shaped, Fields, LifeInv
<1>1. CASE Leave(c) /\ UNCHANGED zips
  BY <1>0, <1>1, EndSees
<1>2. ASSUME NEW z \in cmd[c].doomed, zips' = zips \ {z}, cmd' = [cmd EXCEPT ![c].doomed = @ \ {z}]
      PROVE  LifeInv'
  <2> DEFINE r == [cmd[c] EXCEPT !.doomed = cmd[c].doomed \ {z}]
  <2>1. cmd' = [cmd EXCEPT ![c] = r]
    BY <1>2
  <2>2. /\ r.at = "expiring" /\ r.found = cmd[c].found /\ r.left = cmd[c].left
        /\ r.doomed = cmd[c].doomed \ {z}
    BY <1>0 DEF Names
  <2> HIDE DEF r
  <2>3. Sees(r, zips', made')
    BY <1>0, <1>2, <2>2 DEF Sees
  <2>4. made' \in Nat /\ made <= made' /\ \A y \in zips' : y \in zips
    BY <1>0, <1>2
  <2> QED BY <1>0, <2>1, <2>3, <2>4, OneSees
<1> QED BY <1>1, <1>2 DEF RemoveOld

LEMMA LifeStart == Init => LifeInv
<1> SUFFICES ASSUME Init PROVE LifeInv
  OBVIOUS
<1>1. \A c \in Commands : cmd[c] = Idle
  BY DEF Init
<1>2. Sees(Idle, zips, made)
  BY NothingSeen DEF Idle
<1>3. 1 \in DOMAIN Times
  BY TimesAssumption
<1> QED BY <1>1, <1>2, <1>3 DEF Init, LifeInv

\* The time goes on when no backup is under way.
LEMMA TickSees == ASSUME LifeInv, Tick PROVE LifeInv'
<1>1. UNCHANGED <<config, zips, made, cmd>> /\ time' \in DOMAIN Times
  BY TimesAssumption DEF Tick, LifeInv
<1>2. \A z \in zips' : Archived(z, made)'
  BY <1>1 DEF LifeInv, Archived
<1>3. \A c \in Commands : Sees(cmd[c], zips, made)'
  <2> TAKE c \in Commands
  <2>1. cmd'[c] = Idle
    BY <1>1 DEF Tick
  <2> QED BY <2>1 DEF Sees, Idle, Command
<1> QED BY <1>1, <1>2, <1>3 DEF LifeInv

LEMMA LifeNext == Typed /\ TInv /\ LifeInv /\ [Next]_vars => LifeInv'
<1> SUFFICES ASSUME Typed, TInv, LifeInv, [Next]_vars PROVE LifeInv'
  OBVIOUS
<1>1. ASSUME NEW c \in Commands, Check(c) \/ Ask(c) \/ Wake(c) \/ List(c) \/ Zip(c) PROVE LifeInv'
  BY <1>1, EarlySees, ZipSees
<1>2. ASSUME NEW c \in Commands, Expire(c) \/ RemoveOld(c) \/ Kill(c) PROVE LifeInv'
  BY <1>2, ExpireSees, RemoveOldSees, KillSees
<1>3. ASSUME NEW c \in Commands, Expired(c) \/ Finally(c) \/ Interrupt(c) PROVE LifeInv'
  <2>1. (Leave(c) \/ Give(c)) /\ UNCHANGED <<config, time, zips, made>>
    BY <1>3 DEF Expired, Finally, Interrupt, World
  <2> QED BY <2>1, EndSees
<1>4. CASE Start
  <2>1. UNCHANGED <<config, time, zips, made>> /\ made \in Nat /\ made <= made
    BY <1>4 DEF Start, World, LifeInv
  <2>2. \A d \in Commands : Sees(cmd'[d], zips, made)
    BY <1>4, DisturbedSees DEF Start
  <2> QED BY <2>1, <2>2, AllSee
<1>5. CASE Tick
  BY <1>5, TickSees
<1>6. CASE UNCHANGED <<config, time, zips, made, cmd>>
  <2>1. made \in Nat /\ made <= made
    BY DEF LifeInv
  <2>2. \A d \in Commands : Sees(cmd'[d], zips', made')
    BY <1>6 DEF LifeInv
  <2> QED BY <1>6, <2>1, <2>2, AllSee
<1> QED BY <1>1, <1>2, <1>3, <1>4, <1>5, <1>6 DEF Next, Stop, PutZip, World, vars

-----------------------------------------------------------------------------
LEMMA PastIsOld ==
  ASSUME LifeInv, NEW z, Archived(z, made), Past(z)
  PROVE  LET life == Lifetime(config, z.profile)
         IN  life # NoLifetime /\ (life.amount >= 0 => Age(z) > Least(life))
<1> DEFINE life == Lifetime(config, z.profile)
<1>1. life # NoLifetime /\ Limit(z) # NoDate /\ Hours(z.at) < Limit(z)
  BY DEF Past
<1>2. life \in Lives
  BY <1>1, ConfigsAssumption DEF LifeInv, Archived, Lives
<1>3. Now \in Stamps /\ z.at \in Stamps
  BY TimesAssumption DEF LifeInv, Now, Archived
<1>4. Limit(z) = Back(Now, life.amount, life.unit)
  BY DEF Limit
<1>5. Hours(Now) \in Int /\ Hours(z.at) \in Int
  BY <1>3, HoursAreInt
<1>6. ASSUME life.amount >= 0 PROVE Age(z) > Least(life)
  <2> HIDE DEF life
  <2>1. Limit(z) \in Int /\ Least(life) <= Hours(Now) - Limit(z)
    BY <1>1, <1>2, <1>3, <1>4, <1>6, BackLasts
  <2>2. Least(life) \in Int
    BY <1>2 DEF Least, Lives, Units
  <2> QED BY <1>1, <1>5, <2>1, <2>2 DEF Age
<1> QED BY <1>1, <1>6

LEMMA KeptIsYoung ==
  ASSUME LifeInv, NEW z, Archived(z, made), Kept(z)
  PROVE  LET life == Lifetime(config, z.profile)
         IN  life = NoLifetime \/ (life.amount >= 0 => Age(z) <= Most(life))
<1> DEFINE life == Lifetime(config, z.profile)
<1>1. CASE life = NoLifetime
  BY <1>1
<1>2. CASE life # NoLifetime
  <2>1. life \in Lives
    BY <1>2, ConfigsAssumption DEF LifeInv, Archived, Lives
  <2>2. Limit(z) # NoDate /\ ~(Hours(z.at) < Limit(z))
    BY <1>2 DEF Kept
  <2>3. Now \in Stamps /\ z.at \in Stamps
    BY TimesAssumption DEF LifeInv, Now, Archived
  <2>4. Limit(z) = Back(Now, life.amount, life.unit)
    BY DEF Limit
  <2>5. Hours(Now) \in Int /\ Hours(z.at) \in Int
    BY <2>3, HoursAreInt
  <2>6. ASSUME life.amount >= 0 PROVE Age(z) <= Most(life)
    <3> HIDE DEF life
    <3>1. Limit(z) \in Int /\ Hours(Now) - Limit(z) <= Most(life)
      BY <2>1, <2>2, <2>3, <2>4, <2>6, BackLasts
    <3>2. Most(life) \in Int
      BY <2>1 DEF Most, Lives, Units
    <3> QED BY <2>2, <2>5, <3>1, <3>2 DEF Age
  <2> QED BY <2>6
<1> QED BY <1>1, <1>2

\* Only an expiry removes archives, and those it has doomed.
LEMMA OnlyDoomedGo ==
  ASSUME [Next]_vars, NEW z \in zips \ zips'
  PROVE  \E c \in Commands : z \in cmd[c].doomed
<1>1. \A c \in Commands : RemoveOld(c) => \A y \in zips \ zips' : y \in cmd[c].doomed
  BY DEF RemoveOld
<1>2. \A c \in Commands :
        Check(c) \/ Ask(c) \/ Wake(c) \/ List(c) \/ Expire(c) \/ Expired(c) \/ Finally(c) \/ Interrupt(c)
          => zips' = zips
  BY DEF Check, Ask, Wake, List, Expire, Expired, Finally, Interrupt
<1>3. \A c \in Commands : Zip(c) \/ Kill(c) => zips \subseteq zips'
  BY DEF Zip, Kill, Archive
<1>4. Start \/ Stop \/ Tick \/ PutZip \/ UNCHANGED vars => zips' = zips
  BY DEF Start, Stop, Tick, PutZip, vars
<1> QED BY <1>1, <1>2, <1>3, <1>4 DEF Next

\* applydelta and removeold of backups.py: whatever the calendar, whatever
\* other backups, starts and kills do meanwhile, an expiry removes an archive
\* only if its profile has a lifetime and it is older than that, and one that
\* comes to its end has left none that is older.
THEOREM LifetimesAreKept == Spec => LifetimesHold
<1>1. LifeInv /\ [Next]_vars => [OnlyTheOldGo /\ NoneTooOldStays]_vars
  <2> SUFFICES ASSUME LifeInv, [Next]_vars PROVE OnlyTheOldGo /\ NoneTooOldStays
    OBVIOUS
  <2>1. ASSUME NEW z \in zips \ zips' PROVE Archived(z, made) /\ Past(z)
    <3>1. PICK c \in Commands : z \in cmd[c].doomed
      BY <2>1, OnlyDoomedGo
    <3> QED BY <2>1, <3>1 DEF LifeInv, Sees
  <2>2. ASSUME NEW c \in Commands, cmd[c].at = "expiring", cmd[c].left = {}, cmd[c].doomed = {},
               NEW z \in zips \cap cmd[c].found
        PROVE  Archived(z, made) /\ Kept(z)
    BY <2>2 DEF LifeInv, Sees
  <2>3. OnlyTheOldGo
    BY <2>1, PastIsOld DEF OnlyTheOldGo
  <2>4. NoneTooOldStays
    BY <2>2, KeptIsYoung DEF NoneTooOldStays
  <2> QED BY <2>3, <2>4
<1>2. IInv => Typed
  BY DEF IInv
<1> QED BY <1>1, <1>2, TypesStart, AlwaysI, TypeNext, LifeStart, LifeNext, PTL DEF Spec, LifetimesHold
=============================================================================
