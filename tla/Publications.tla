----------------------------- MODULE Publications -----------------------------
(***************************************************************************)
(* The publications of one session: SessionPublicationService.publish      *)
(* writes the artifact of each requested mode into the session's directory *)
(* and catalogues it in session_publications, and RetentionSweeperService  *)
(* expires rows that are due and removes their files.                      *)
(*                                                                         *)
(* Publishing writes first and catalogues second, sweeping expires first   *)
(* and removes second, and nothing ties a row to its file in between.      *)
(* Calls of publish made by the main process for one session follow each   *)
(* other (performCoordination awaits each); scripts/republish-session.ts   *)
(* is a process of its own.  An artifact is named by the call it is from.  *)
(***************************************************************************)
EXTENDS Integers

CONSTANTS
    Calls,        \* the calls of publish for the session
    Scripted,     \* the calls that scripts/republish-session.ts makes
    Modes,        \* the modes requested, all of them known
    Retention,    \* default_retention_days of a mode; 0 stands for NULL
    LastDay,      \* bound on the clock
    MaxFaults     \* bound on kills and refused operations

ASSUME CallsAssumption == Scripted \subseteq Calls
ASSUME RetentionAssumption == Retention \in [Modes -> Nat]
ASSUME NamesAssumption == "nobody" \notin Calls \union Modes
ASSUME BoundsAssumption == LastDay \in Nat /\ MaxFaults \in Nat

VARIABLES
    row,       \* session_publications, by mode
    file,      \* the artifact each mode's path holds
    call,      \* where each call of publish is
    unlinking, \* the modes the running tick has expired and not yet unlinked
    today,
    faults,    \* history: how many kills and refused operations so far
    excused    \* history: modes hit by a fault or written by two calls at once

pubvars == <<row, file, call, unlinking, today, faults, excused>>

Nobody == "nobody"
Partial == "partial"
Never == LastDay + 1      \* expires_at IS NULL: no day of the model is later

NoRow == [status |-> "none", checksum |-> Nobody, expires |-> Never]

PublicationsInit ==
    /\ row = [m \in Modes |-> NoRow]
    /\ file = [m \in Modes |-> Nobody]
    /\ call = [c \in Calls |-> [pc |-> "idle", mode |-> Nobody, todo |-> {}]]
    /\ unlinking = {}
    /\ today = 0
    /\ faults = 0
    /\ excused = {}

AtWorkOn(m) == {c \in Calls : call[c].mode = m}

------------------------------------------------------------------------------
(***************************************************************************)
(* publish, publishOne                                                     *)
(***************************************************************************)

\* The main process awaits one call before it makes the next.
PublishCalled(c) ==
    /\ call[c].pc = "idle"
    /\ c \notin Scripted => \A d \in Calls \ Scripted : call[d].pc \in {"idle", "ended"}
    /\ call' = [call EXCEPT ![c] = [pc |-> "next", mode |-> Nobody, todo |-> Modes]]
    /\ UNCHANGED <<row, file, unlinking, today, faults, excused>>

Moves(c, pc) == call' = [call EXCEPT ![c].pc = pc]

ModeDone(c) ==
    call' = [call EXCEPT ![c] =
                [pc |-> IF @.todo = {} THEN "ended" ELSE "next", mode |-> Nobody, todo |-> @.todo]]

\* fs.writeFile opens the file and truncates it.
FileOpened(c) ==
    /\ call[c].pc = "next"
    /\ \E m \in call[c].todo :
         /\ file' = [file EXCEPT ![m] = Partial]
         /\ call' = [call EXCEPT ![c] =
                        [pc |-> "writing", mode |-> m, todo |-> @.todo \ {m}]]
         /\ excused' = IF AtWorkOn(m) = {} THEN excused ELSE excused \union {m}
    /\ UNCHANGED <<row, unlinking, today, faults>>

\* The bytes go to the open file; none are seen if its name was unlinked.
FileWritten(c) ==
    /\ call[c].pc = "writing"
    /\ file' = [file EXCEPT ![call[c].mode] = IF @ = Nobody THEN Nobody ELSE c]
    /\ Moves(c, "cataloguing")
    /\ UNCHANGED <<row, unlinking, today, faults, excused>>

ExpiresAt(m) == IF Retention[m] = 0 THEN Never ELSE today + Retention[m]

UpsertOldChecksum(m, c) ==    \* mutant: checksum missing from DO UPDATE SET
    [status |-> "published", expires |-> ExpiresAt(m),
     checksum |-> IF row[m] = NoRow THEN c ELSE row[m].checksum]

Upsert(m, c) == [status |-> "published", checksum |-> c, expires |-> ExpiresAt(m)]

Catalogued(c) ==
    /\ call[c].pc = "cataloguing"
    /\ row' = [row EXCEPT ![call[c].mode] = Upsert(call[c].mode, c)]
    /\ ModeDone(c)
    /\ UNCHANGED <<file, unlinking, today, faults, excused>>

Fault(m) ==
    /\ faults < MaxFaults
    /\ faults' = faults + 1
    /\ excused' = excused \union m

\* render, mkdir or the opening of the file throws, and nothing was touched yet.
PublishOneThrowsEarly(c) ==
    /\ call[c].pc = "next"
    /\ \E m \in call[c].todo :
         /\ Fault({m})
         /\ call' = [call EXCEPT ![c] =
                        [pc |-> "failing", mode |-> m, todo |-> @.todo \ {m}]]
    /\ UNCHANGED <<row, file, unlinking, today>>

\* The file cannot be written, or the row: the catch block is next.
PublishOneThrows(c) ==
    /\ call[c].pc \in {"writing", "cataloguing"}
    /\ Fault({call[c].mode})
    /\ Moves(c, "failing")
    /\ UNCHANGED <<row, file, unlinking, today>>

\* recordFailedPublication leaves checksum and expires_at of an old row alone;
\* should the statement fail too, that is only logged.
FailureRecorded(c) ==
    /\ call[c].pc = "failing"
    /\ \/ row' = [row EXCEPT ![call[c].mode].status = "failed"]
       \/ UNCHANGED row
    /\ ModeDone(c)
    /\ UNCHANGED <<file, unlinking, today, faults, excused>>

------------------------------------------------------------------------------
(***************************************************************************)
(* RetentionSweeperService.tick, sweepExpired                              *)
(***************************************************************************)

Due(m) == row[m].status = "published" /\ row[m].expires < today

Sweep(due, returned) ==
    /\ unlinking = {}
    /\ due # {}
    /\ unlinking' = returned
    /\ row' = [m \in Modes |-> IF m \in due THEN [row[m] EXCEPT !.status = "expired"] ELSE row[m]]
    /\ UNCHANGED <<file, call, today, faults, excused>>

DueModes == {m \in Modes : Due(m)}
SweepADayLate ==                                  \* mutant: the day before now
    LET late == {m \in DueModes : row[m].expires < today - 1} IN Sweep(late, late)

\* One UPDATE for all rows that are due; a tick never overlaps another.
SweepExpired == Sweep(DueModes, DueModes)

\* ENOENT is no error.
Unlinked(m) ==
    /\ m \in unlinking
    /\ file' = [file EXCEPT ![m] = Nobody]
    /\ unlinking' = unlinking \ {m}
    /\ UNCHANGED <<row, call, today, faults, excused>>

\* Any other error is logged, and the loop goes on.
UnlinkFails(m) ==
    /\ m \in unlinking
    /\ Fault({m})
    /\ unlinking' = unlinking \ {m}
    /\ UNCHANGED <<row, file, call, today>>

------------------------------------------------------------------------------
(***************************************************************************)
(* The clock and kills                                                     *)
(***************************************************************************)

DayPasses ==
    /\ today < LastDay
    /\ today' = today + 1
    /\ UNCHANGED <<row, file, call, unlinking, faults, excused>>

Running(c) == call[c].pc \notin {"idle", "ended"}

\* A killed process leaves its calls where they are; a killed main process also
\* leaves expired rows whose files it has not unlinked.
KillOf(cs, modes) ==
    /\ Fault(modes \union ({call[c].mode : c \in {d \in cs : Running(d)}} \ {Nobody}))
    /\ call' = [c \in Calls |-> IF c \in cs /\ Running(c)
                                THEN [pc |-> "ended", mode |-> Nobody, todo |-> {}]
                                ELSE call[c]]
    /\ UNCHANGED <<row, file, today>>

MainKilled == KillOf(Calls \ Scripted, unlinking) /\ unlinking' = {}

ScriptKilled(c) == c \in Scripted /\ Running(c) /\ KillOf({c}, {}) /\ UNCHANGED unlinking

Publishing(c) ==
    \/ PublishCalled(c) \/ FileOpened(c) \/ FileWritten(c) \/ Catalogued(c)
    \/ PublishOneThrowsEarly(c) \/ PublishOneThrows(c) \/ FailureRecorded(c) \/ ScriptKilled(c)

Sweeping == SweepExpired \/ \E m \in Modes : Unlinked(m) \/ UnlinkFails(m)

PublicationsNext ==
    \/ \E c \in Calls : Publishing(c)
    \/ Sweeping
    \/ DayPasses
    \/ MainKilled

PublicationsSpec == PublicationsInit /\ [][PublicationsNext]_pubvars

\* The interval timer calls tick, and its loop over the files goes on.
FairPublications == PublicationsSpec /\ WF_pubvars(Sweeping)

------------------------------------------------------------------------------
(***************************************************************************)
(* Properties                                                              *)
(***************************************************************************)

\* The shape of the state; an expiry is never later than its mode's retention
\* allows (the interval publishOne adds is in days).
PublicationsTypeOK ==
    /\ row \in [Modes -> [status : {"none", "published", "failed", "expired"},
                          checksum : Calls \union {Nobody}, expires : 0 .. 2 * Never]]
    /\ file \in [Modes -> Calls \union {Nobody, Partial}]
    /\ \A c \in Calls :
         /\ call[c].pc \in {"idle", "next", "writing", "cataloguing", "failing", "ended"}
         /\ call[c].mode \in Modes \union {Nobody}
         /\ call[c].todo \subseteq Modes
    /\ unlinking \subseteq Modes /\ excused \subseteq Modes
    /\ today \in 0 .. LastDay /\ faults \in 0 .. MaxFaults

Quiet(m) == AtWorkOn(m) = {} /\ m \notin excused

\* Rows and files agree, unless a fault or overlapping calls came between the
\* two: the file of a publication is the one its checksum is of, whichever of
\* several calls wrote it; a tick that is over leaves no file of an expired one
\* behind; and what is retained indefinitely neither expires nor disappears,
\* although the sweeper runs against publishing.
RowsMatchFiles ==
    \A m \in Modes :
        /\ Quiet(m) /\ row[m].status = "published" => file[m] \in {row[m].checksum, Nobody}
        /\ Quiet(m) /\ m \notin unlinking /\ row[m].status = "expired" => file[m] = Nobody
        /\ Retention[m] = 0 =>
              /\ row[m].status # "expired"
              /\ row[m].status = "published" => file[m] # Nobody

\* A publication that is due expires, or is published anew or fails.
DueExpires == \A m \in Modes : Due(m) ~> ~ Due(m)
==============================================================================
