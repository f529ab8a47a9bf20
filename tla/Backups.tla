------------------------------- MODULE Backups -------------------------------
(***************************************************************************)
(* Backups of one Minecraft server: dobackup of                             *)
(* src/gamemodules/minecraft/custom.py asks a running server to stop        *)
(* saving, has src/utils/backups/backups.py zip its directory under a       *)
(* profile and remove what is out of date, and turns saving on again.       *)
(* Backups of one server (a cron job and a user's) may overlap, the server  *)
(* is started and stopped meanwhile, any backup may be interrupted or       *)
(* killed, and any command the backend is given may fail: a question it     *)
(* does not answer reads as a server that is down.                          *)
(***************************************************************************)
EXTENDS Integers, Sequences, FiniteSets

CONSTANTS Commands,     \* backup commands
          Profiles,     \* names of profiles
          Configs,      \* the profiles and schedules of the user's choice
          Times,        \* bound: the times of backups, further apart than one takes
          MaxZips,      \* bound: archives made
          NoProfile, NoLifetime, NoBase, NoDate

\* The years a datetime can be in: others raise an error.
Years == 1..9999
Stamps == [y : Years, m : 1..12, d : 1..31, h : 0..23]

ASSUME TimesAssumption == Times \in Seq(Stamps) /\ Times # <<>>

VARIABLES
  config,   \* server.data["backup"]
  time,     \* place in Times
  zips,     \* archives: profile, time, and a number in place of microseconds
  made,     \* archives made so far
  stray,    \* whether the user put a zip there, and if its name is a backup's
  up,       \* whether the server runs
  saving,   \* whether the server saves its worlds
  muted,    \* whether a backup died, or was let down, and left saving off
  cmd       \* the backups under way

vars == <<config, time, zips, made, stray, up, saving, muted, cmd>>

-----------------------------------------------------------------------------
(* The calendar. *)

Leap(y) == y % 4 = 0 /\ (y % 100 # 0 \/ y % 400 = 0)

MonthDays(y, m) ==
  CASE m = 2 -> IF Leap(y) THEN 29 ELSE 28
    [] m \in {4, 6, 9, 11} -> 30
    [] OTHER -> 31

\* The days before a month and before a year, as datetime counts them.
DaysBeforeMonth(y, m) ==
  <<0, 31, 59, 90, 120, 151, 181, 212, 243, 273, 304, 334>>[m] + IF m > 2 /\ Leap(y) THEN 1 ELSE 0

DaysBefore(y, m) ==
  365 * (y - 1) + (y - 1) \div 4 - (y - 1) \div 100 + (y - 1) \div 400 + DaysBeforeMonth(y, m)

\* Hours since the day before 1 January of the year 1; what timestamps are
\* compared by.
Hours(t) == 24 * (DaysBefore(t.y, t.m) + t.d) + t.h

InYears(h) == IF 24 <= h /\ h < 24 * DaysBefore(10000, 1) + 24 THEN h ELSE NoDate

YearBack(t, n) ==
  IF t.y - n \in Years /\ t.d <= MonthDays(t.y - n, t.m) THEN Hours([t EXCEPT !.y = t.y - n]) ELSE NoDate

MonthBackLate(t, n) ==
  LET k == t.m - n
      y == t.y + k \div 12
      m == 1 + (k % 12)
      most == MonthDays(y, m)
  IN  IF y \in Years THEN Hours([t EXCEPT !.y = y, !.m = m, !.d = IF t.d < most THEN t.d ELSE most]) ELSE NoDate

\* divmod rounds down, and the day is rounded down to the month's last.
MonthBack(t, n) ==
  LET k == t.m - n - 1
      y == t.y + k \div 12
      m == 1 + (k % 12)
      most == MonthDays(y, m)
  IN  IF y \in Years THEN Hours([t EXCEPT !.y = y, !.m = m, !.d = IF t.d < most THEN t.d ELSE most]) ELSE NoDate

\* applydelta(t, -n, unit): 29 February has no date years before.
Units == {"year", "month", "week", "day"}
Back(t, n, unit) ==
  IF n = 0 THEN Hours(t)
  ELSE CASE unit = "year" -> YearBack(t, n)
         [] unit = "month" -> MonthBack(t, n)
         [] unit = "week" -> InYears(Hours(t) - 24 * 7 * n)
         [] unit = "day" -> InYears(Hours(t) - 24 * n)

-----------------------------------------------------------------------------
(* Profiles and schedule. *)

\* getprofiledata: a lifetime of its own hides that of the base.
Lifetime(cf, p) ==
  LET at[q \in DOMAIN cf.profiles] ==
        IF cf.profiles[q].lifetime # NoLifetime \/ cf.profiles[q].base = NoBase
        THEN cf.profiles[q].lifetime ELSE at[cf.profiles[q].base]
  IN  at[p]

\* checkdatavalue lets a lifetime be any whole number of these units; a cycle of
\* bases has no meaning.
ASSUME ConfigsAssumption ==
  \A cf \in Configs : \A p \in DOMAIN cf.profiles :
    Lifetime(cf, p) = NoLifetime \/ Lifetime(cf, p) \in [amount : Int, unit : Units]

\* When an entry of the schedule is due: no archive, or none since.
Due(e, t, found) ==
  \A z \in found : z.profile = e.profile => Hours(z.at) < Back(t, e.amount, e.unit)

\* Entries are tried in turn: one whose date does not exist is an error.
Undated(e, t, found) ==
  /\ \E z \in found : z.profile = e.profile
  /\ Back(t, e.amount, e.unit) = NoDate

\* The first entry that is due, or else the last; NoProfile for an error.
Scheduled(cf, t, found) ==
  LET s == cf.schedule
      stops == {i \in DOMAIN s : Undated(s[i], t, found) \/ Due(s[i], t, found)}
      first == CHOOSE i \in stops : \A j \in stops : i <= j
  IN  IF stops = {} THEN s[Len(s)].profile
      ELSE IF Undated(s[first], t, found) THEN NoProfile
      ELSE s[first].profile

-----------------------------------------------------------------------------
\* asked: saving was turned off; found: the archives listed, left: the
\* profiles whose archives are still to be looked at, doomed: those to remove.
Command(at, asked, disturbed) ==
  [at |-> at, asked |-> asked, disturbed |-> disturbed, profile |-> NoProfile,
   found |-> {}, left |-> {}, doomed |-> {}]

Idle == Command("idle", FALSE, FALSE)

Now == Times[time]

Init ==
  /\ config \in Configs
  /\ time = 1 /\ zips = {} /\ made = 0 /\ stray = "none"
  /\ up = FALSE /\ saving = FALSE /\ muted = FALSE
  /\ cmd = [c \in Commands |-> Idle]

World == <<config, time, stray>>
Server == <<up, saving, muted>>

\* Whatever ends the command before its finally clause.
Give(c) == cmd' = [cmd EXCEPT ![c] = Idle]

Go(c, place) == cmd' = [cmd EXCEPT ![c].at = place]

LeaveAtOnce(c) == Give(c)

\* The end of the try, by an error too, leads to the finally clause.
Leave(c) == cmd' = [cmd EXCEPT ![c] = Command("finally", cmd[c].asked, FALSE)]

\* A backup that is not alone with a server that keeps running and answers.
Disturbed(c) == IF cmd[c] = Idle THEN Idle ELSE [cmd[c] EXCEPT !.disturbed = TRUE]

\* check_server_running, before saving is turned off: "no" also when docker,
\* screen or tmux fails to say.
Check(c) ==
  /\ cmd[c] = Idle
  /\ \E running \in {up, FALSE} :
       cmd' = [d \in Commands |->
         IF d = c
         THEN Command(IF running THEN "asking" ELSE "listing", FALSE,
                      running # up \/ \E e \in Commands : cmd[e] # Idle)
         ELSE Disturbed(d)]
  /\ UNCHANGED <<World, Server, zips, made>>

AskToSaveOnly(c) ==
  /\ cmd[c].at = "asking"
  /\ \/ up /\ cmd' = [cmd EXCEPT ![c].at = "sleeping", ![c].asked = TRUE] /\ UNCHANGED <<saving, muted>>
     \/ Give(c) /\ UNCHANGED <<saving, muted>>
  /\ UNCHANGED <<World, zips, made, up>>

\* A server that has stopped since cannot be told, and the telling may fail,
\* after its first lines too: the command ends, before its try.
Ask(c) ==
  /\ cmd[c].at = "asking"
  /\ \/ /\ up /\ saving' = FALSE
        /\ cmd' = [cmd EXCEPT ![c].at = "sleeping", ![c].asked = TRUE] /\ UNCHANGED muted
     \/ Give(c) /\ UNCHANGED <<saving, muted>>
     \/ Give(c) /\ up /\ saving' = FALSE /\ muted' = TRUE
  /\ UNCHANGED <<World, zips, made, up>>

Wake(c) ==
  /\ cmd[c].at = "sleeping"
  /\ Go(c, "listing")
  /\ UNCHANGED <<World, Server, zips, made>>

\* The archives are listed, the profile is chosen or given by the user; a zip
\* with an unreadable name, or no such profile, is an error.
List(c) ==
  /\ cmd[c].at = "listing"
  /\ \E p \in Profiles \cup {Scheduled(config, Now, zips)} :
       IF stray = "unreadable" \/ p \notin DOMAIN config.profiles
       THEN Leave(c)
       ELSE cmd' = [cmd EXCEPT ![c].at = "zipping", ![c].profile = p, ![c].found = zips,
                               ![c].left = {z.profile : z \in zips}
                                             \cup IF stray = "unknown" THEN {NoProfile} ELSE {}]
  /\ UNCHANGED <<World, Server, zips, made>>

Archive(c) ==
  /\ cmd[c].at = "zipping" /\ made < MaxZips /\ made' = made + 1
  /\ zips' = zips \cup {[profile |-> cmd[c].profile, at |-> Now, n |-> made]}

\* When zip fails the command ends without an error, and removes nothing.
Zip(c) ==
  /\ cmd[c].at = "zipping"
  /\ \/ /\ Archive(c)
        /\ cmd' = [cmd EXCEPT ![c].at = "expiring", ![c].profile = NoProfile,
                              ![c].disturbed = FALSE]
     \/ Leave(c) /\ UNCHANGED <<zips, made>>
  /\ UNCHANGED <<World, Server>>

\* The archives a command found of profile p that were made before then.
Before(c, p, then) == {z \in cmd[c].found : z.profile = p /\ Hours(z.at) < then}

\* The profiles of the archives in turn, in the order of the directory.
Expire(c) ==
  /\ cmd[c].at = "expiring" /\ cmd[c].doomed = {}
  /\ \E p \in cmd[c].left :
       LET life == Lifetime(config, p)
           earliest == Back(Now, life.amount, life.unit)
       IN  IF p \notin DOMAIN config.profiles \/ (life # NoLifetime /\ earliest = NoDate)
           THEN Leave(c)
           ELSE cmd' = [cmd EXCEPT ![c].left = @ \ {p},
                  ![c].doomed = IF life = NoLifetime THEN {} ELSE Before(c, p, earliest)]
  /\ UNCHANGED <<World, Server, zips, made>>

\* The oldest first; one that another backup has removed is an error.
RemoveOld(c) ==
  /\ cmd[c].at = "expiring"
  /\ \E z \in cmd[c].doomed :
       /\ \A y \in cmd[c].doomed : Hours(z.at) <= Hours(y.at)
       /\ IF z \in zips
          THEN zips' = zips \ {z} /\ cmd' = [cmd EXCEPT ![c].doomed = @ \ {z}]
          ELSE Leave(c) /\ UNCHANGED zips
  /\ UNCHANGED <<World, Server, made>>

Expired(c) ==
  /\ cmd[c].at = "expiring" /\ cmd[c].left = {} /\ cmd[c].doomed = {}
  /\ Leave(c)
  /\ UNCHANGED <<World, Server, zips, made>>

\* The finally clause: the server that runs now is told to save again, unless
\* it is said to be down or the telling fails.
Finally(c) ==
  /\ cmd[c].at = "finally"
  /\ Give(c)
  /\ \/ up /\ saving' = TRUE /\ muted' = FALSE
     \/ UNCHANGED saving /\ muted' = (muted \/ cmd[c].asked)
  /\ UNCHANGED <<World, zips, made, up>>

\* Ctrl-C: inside the try it goes through the finally clause, outside not.
Interrupt(c) ==
  \/ /\ cmd[c].at \in {"listing", "zipping", "expiring"}
     /\ Leave(c)
     /\ UNCHANGED <<World, Server, zips, made>>
  \/ /\ cmd[c].at \in {"asking", "sleeping", "finally"}
     /\ Give(c) /\ muted' = (muted \/ cmd[c].asked)
     /\ UNCHANGED <<World, zips, made, up, saving>>

\* The zip of a killed backup goes on by itself.
Kill(c) ==
  /\ cmd[c] # Idle
  /\ Give(c) /\ muted' = (muted \/ cmd[c].asked)
  /\ Archive(c) \/ UNCHANGED <<zips, made>>
  /\ UNCHANGED <<World, up, saving>>

-----------------------------------------------------------------------------
(* The server, the user and the clock. *)

Start ==
  /\ ~up
  /\ up' = TRUE /\ saving' = TRUE /\ muted' = FALSE
  /\ cmd' = [c \in Commands |-> Disturbed(c)]
  /\ UNCHANGED <<World, zips, made>>

Stop ==
  /\ up
  /\ up' = FALSE /\ saving' = FALSE /\ muted' = FALSE
  /\ UNCHANGED <<World, zips, made, cmd>>

Tick ==
  /\ time < Len(Times) /\ time' = time + 1
  /\ \A c \in Commands : cmd[c] = Idle
  /\ UNCHANGED <<config, stray, Server, zips, made, cmd>>

\* A zip with a name no backup has, or with that of a profile that is gone.
PutZip ==
  /\ stray = "none" /\ stray' \in {"unreadable", "unknown"}
  /\ UNCHANGED <<config, time, Server, zips, made, cmd>>

Next ==
  \/ \E c \in Commands :
       \/ Check(c) \/ Ask(c) \/ Wake(c) \/ List(c) \/ Zip(c)
       \/ Expire(c) \/ RemoveOld(c) \/ Expired(c) \/ Finally(c)
       \/ Interrupt(c) \/ Kill(c)
  \/ Start \/ Stop \/ Tick \/ PutZip

Spec == Init /\ [][Next]_vars

-----------------------------------------------------------------------------
(* What holds. *)

Places == {"idle", "asking", "sleeping", "listing", "zipping", "expiring", "finally"}

TypeOK ==
  /\ \A c \in Commands :
       /\ cmd[c].at \in Places
       /\ cmd[c].doomed \subseteq cmd[c].found
       /\ cmd[c].doomed # {} => cmd[c].at = "expiring"
  /\ time \in DOMAIN Times /\ (saving => up)

\* However a backup ends, except by a kill, or by Ctrl-C or a failing command
\* of the backend before its try and in its finally clause, no running server
\* is left with saving turned off.
SavingComesBack ==
  up /\ ~saving => muted \/ \E c \in Commands : cmd[c].asked

\* A backup zips the world of a server that does not save into it, unless
\* another backup, or a start of the server, came between, or the backend did
\* not answer whether the server runs.
LoneZipsAreQuiet ==
  \A c \in Commands : cmd[c].at = "zipping" /\ saving => cmd[c].disturbed

\* The shortest and the longest time that lifetimes may last, in hours.
Least(life) ==
  24 * life.amount * (CASE life.unit = "year" -> 365 [] life.unit = "month" -> 28
                        [] life.unit = "week" -> 7 [] life.unit = "day" -> 1)
Most(life) ==
  24 * life.amount * (CASE life.unit = "year" -> 366 [] life.unit = "month" -> 31
                        [] life.unit = "week" -> 7 [] life.unit = "day" -> 1)

Age(z) == Hours(Now) - Hours(z.at)

OnlyTheOldGo ==
  \A z \in zips \ zips' :
    LET life == Lifetime(config, z.profile)
    IN  life # NoLifetime /\ (life.amount >= 0 => Age(z) > Least(life))

NoneTooOldStays ==
  \A c \in Commands :
    cmd[c].at = "expiring" /\ cmd[c].left = {} /\ cmd[c].doomed = {} =>
      \A z \in zips \cap cmd[c].found :
        LET life == Lifetime(config, z.profile)
        IN  life = NoLifetime \/ (life.amount >= 0 => Age(z) <= Most(life))

\* An archive goes only if its profile has a lifetime and it is older than
\* that, on every day of the calendar; a backup that comes to the end of its
\* expiry has left none that is older.  (The code accepts lifetimes below zero
\* too; there is nothing to be older than.)
LifetimesHold == [][OnlyTheOldGo /\ NoneTooOldStays]_vars
=============================================================================
