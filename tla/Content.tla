------------------------------- MODULE Content -------------------------------
(***************************************************************************)
(* What steps leave behind as files: each session's SessionContentManager  *)
(* stores them in a directory of the session and, once an hour while its   *)
(* timer runs, removes the directories of all sessions that were not       *)
(* written to for a day.  The content routes read the files one by one     *)
(* meanwhile.                                                              *)
(***************************************************************************)
EXTENDS Integers, FiniteSets

CONSTANTS
    Stores,        \* the sessions, each with a manager and a directory
    Contents,      \* ids of a session's content
    ContentReaders,
    LastContentDay \* bound on time

ASSUME ContentDayAssumption == LastContentDay \in Nat

VARIABLES
    files,     \* the files of the directories: "partial" or "whole"
    touched,   \* the day a directory was last written to; -1: there is none
    contentDay,
    timers,    \* the managers whose maintenance timer runs
    storing,   \* what each manager is storing
    cached,    \* sessionContentCache, with the day it was stored
    sweeps,    \* the maintenance of each manager
    raced,     \* history: directories written to while they were removed
    listing    \* what each reader has read

contentvars == <<files, touched, contentDay, timers, storing, cached, sweeps, raced, listing>>

Paths == Stores \X Contents
NoDirectory == -1
NotStoring == [pc |-> "idle"]
NoSweep == [todo |-> {}, removing |-> {}]
NotListing == [pc |-> "off", todo |-> {}, shown |-> {}]

ContentInit ==
    /\ files = [p \in {} |-> "whole"]
    /\ touched = [s \in Stores |-> NoDirectory]
    /\ contentDay = 0
    /\ timers = {} /\ raced = {}
    /\ storing = [s \in Stores |-> NotStoring]
    /\ cached = [p \in {} |-> 0]
    /\ sweeps = [s \in Stores |-> NoSweep]
    /\ listing = [i \in ContentReaders |-> NotListing]

------------------------------------------------------------------------------

WithFile(p, state) == [q \in DOMAIN files \union {p} |-> IF q = p THEN state ELSE files[q]]

\* The session is set up.
ManagerCreated(s) ==
    /\ s \notin timers
    /\ timers' = timers \union {s}
    /\ UNCHANGED <<files, touched, contentDay, storing, cached, sweeps, raced, listing>>

\* A plan that was executed to its end, or fell back, shuts its manager down;
\* a simple coordination never does.
Shutdown(s) ==
    /\ s \in timers
    /\ timers' = timers \ {s}
    /\ UNCHANGED <<files, touched, contentDay, storing, cached, sweeps, raced, listing>>

\* Whoever removes s at this moment has decided so before it was written to.
Touch(s) ==
    /\ touched' = [touched EXCEPT ![s] = contentDay]
    /\ raced' = IF \E m \in Stores : s \in sweeps[m].removing THEN raced \union {s} ELSE raced

\* mkdir, recursive: a directory that is there is left as it is.  Each step of a
\* session is stored once.
StoreStepContent(s, c) ==
    /\ storing[s] = NotStoring /\ <<s, c>> \notin DOMAIN files \union DOMAIN cached
    /\ storing' = [storing EXCEPT ![s] = [pc |-> "opening", content |-> c]]
    /\ IF touched[s] = NoDirectory THEN Touch(s) ELSE UNCHANGED <<touched, raced>>
    /\ UNCHANGED <<files, contentDay, timers, cached, sweeps, listing>>

\* writeFile empties or makes the file first.
ContentOpened(s) ==
    /\ storing[s].pc = "opening" /\ touched[s] # NoDirectory
    /\ Touch(s)
    /\ files' = WithFile(<<s, storing[s].content>>, "partial")
    /\ storing' = [storing EXCEPT ![s].pc = "writing"]
    /\ UNCHANGED <<contentDay, timers, cached, sweeps, listing>>

\* A file that was removed meanwhile is written all the same, and gone.
ContentWritten(s) ==
    /\ storing[s].pc = "writing"
    /\ LET p == <<s, storing[s].content>>
       IN  /\ files' = IF p \in DOMAIN files THEN WithFile(p, "whole") ELSE files
           /\ cached' = [q \in DOMAIN cached \union {p} |-> IF q = p THEN contentDay ELSE cached[q]]
    /\ storing' = [storing EXCEPT ![s] = NotStoring]
    /\ UNCHANGED <<touched, contentDay, timers, sweeps, raced, listing>>

\* Too large, or the directory is gone, or the disk is full: the step goes on.
StoreFails(s) ==
    /\ storing[s].pc = "opening"
    /\ storing' = [storing EXCEPT ![s] = NotStoring]
    /\ UNCHANGED <<files, touched, contentDay, timers, cached, sweeps, raced, listing>>

------------------------------------------------------------------------------

PerformMaintenance(s) ==
    /\ s \in timers /\ sweeps[s] = NoSweep
    /\ sweeps' = [sweeps EXCEPT ![s].todo = {d \in Stores : touched[d] # NoDirectory}]
    /\ UNCHANGED <<files, touched, contentDay, timers, storing, cached, raced, listing>>

StaleToday(d) == touched[d] <= contentDay    \* mutant: the retention is left out
Stale(d) == touched[d] < contentDay - 1

\* stat: what is stale is removed next.
Examined(s, d) ==
    /\ d \in sweeps[s].todo /\ sweeps[s].removing = {}
    /\ sweeps' = [sweeps EXCEPT ![s] = [todo |-> @.todo \ {d},
                     removing |-> IF touched[d] # NoDirectory /\ Stale(d) THEN {d} ELSE {}]]
    /\ UNCHANGED <<files, touched, contentDay, timers, storing, cached, raced, listing>>

\* rm, recursive, and the manager's own cache, which holds its own session only.
CleanupSession(s, d) ==
    /\ d \in sweeps[s].removing
    /\ files' = [p \in {q \in DOMAIN files : q[1] # d} |-> files[p]]
    /\ touched' = [touched EXCEPT ![d] = NoDirectory]
    /\ cached' = IF d = s THEN [p \in {q \in DOMAIN cached : q[1] # d} |-> cached[p]] ELSE cached
    /\ sweeps' = [sweeps EXCEPT ![s].removing = {}]
    /\ UNCHANGED <<contentDay, timers, storing, raced, listing>>

CleanupFails(s) ==
    /\ sweeps[s].removing # {}
    /\ sweeps' = [sweeps EXCEPT ![s].removing = {}]
    /\ UNCHANGED <<files, touched, contentDay, timers, storing, cached, raced, listing>>

\* A file is written within the day.
ContentDayPasses ==
    /\ contentDay < LastContentDay /\ \A s \in Stores : storing[s] = NotStoring
    /\ contentDay' = contentDay + 1
    /\ UNCHANGED <<files, touched, timers, storing, cached, sweeps, raced, listing>>

------------------------------------------------------------------------------

\* The search, and the routes of one session, look for .json files in the directory
\* above, where the program writes .md files only.
JsonAbove == {}

\* The list finds the files of all directories first.
ListingBegins(i) ==
    /\ listing[i] = NotListing
    /\ \E found \in {DOMAIN files, JsonAbove} :
          listing' = [listing EXCEPT ![i] = [pc |-> "reading", todo |-> found, shown |-> {}]]
    /\ UNCHANGED <<files, touched, contentDay, timers, storing, cached, sweeps, raced>>

\* A file that is gone, or does not parse, is left out.
FileRead(i, p) ==
    /\ p \in listing[i].todo
    /\ LET read == {p} \intersect {q \in DOMAIN files : files[q] = "whole"}
       IN  listing' = [listing EXCEPT ![i].todo = @ \ {p}, ![i].shown = @ \union read]
    /\ UNCHANGED <<files, touched, contentDay, timers, storing, cached, sweeps, raced>>

ListingAnswered(i) ==
    /\ listing[i].pc = "reading" /\ listing[i].todo = {}
    /\ listing' = [listing EXCEPT ![i] = NotListing]
    /\ UNCHANGED <<files, touched, contentDay, timers, storing, cached, sweeps, raced>>

ContentNext ==
    \/ \E s \in Stores :
          \/ ManagerCreated(s) \/ Shutdown(s)
          \/ \E c \in Contents : StoreStepContent(s, c)
          \/ ContentOpened(s) \/ ContentWritten(s) \/ StoreFails(s)
          \/ PerformMaintenance(s) \/ CleanupFails(s)
          \/ \E d \in Stores : Examined(s, d) \/ CleanupSession(s, d)
    \/ ContentDayPasses
    \/ \E i \in ContentReaders :
          \/ ListingBegins(i)
          \/ \E p \in Paths : FileRead(i, p)
          \/ ListingAnswered(i)

------------------------------------------------------------------------------

\* What a session stored within the last day is on the disk, whichever of the
\* managers cleans up, for itself and the others; unless a directory was found
\* stale and then written to before it was removed.
RecentIsKept ==
    \A p \in DOMAIN cached :
        cached[p] >= contentDay - 1 /\ p[1] \notin raced =>
            p \in DOMAIN files /\ files[p] = "whole"
==============================================================================
