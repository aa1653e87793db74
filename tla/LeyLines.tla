------------------------------ MODULE LeyLines ------------------------------
(***************************************************************************)
(* The ley lines of /realms/:realmId/ley-lines and /ley-lines: connections *)
(* between realms, kept in the memory of the process.                      *)
(***************************************************************************)
EXTENDS Naturals

CONSTANTS
    LineIds,
    LineRealms,                         \* what requests name as realms
    systemRealm, testRealm1, testRealm2,
    leyline1, leyline2                  \* the two default lines

ASSUME LinesAssumption ==
    /\ {systemRealm, testRealm1, testRealm2} \subseteq LineRealms
    /\ systemRealm # testRealm1 /\ testRealm1 # testRealm2
    /\ {leyline1, leyline2} \subseteq LineIds /\ leyline1 # leyline2

VARIABLES
    leyLines,
    connecting      \* lines whose timer of one second has not fired

lvars == <<leyLines, connecting>>

Lines == DOMAIN leyLines
Priorities == {"normal", "critical"}    \* those the code tells apart
LineStatuses == {"active", "inactive", "connecting"}

Line(source, target, status, bidirectional, priority) ==
    [source |-> source, target |-> target, status |-> status,
     bidirectional |-> bidirectional, priority |-> priority]

DefaultLeyLines ==
    [l \in {leyline1, leyline2} |->
        IF l = leyline1 THEN Line(systemRealm, testRealm1, "active", TRUE, "normal")
        ELSE Line(testRealm1, testRealm2, "active", FALSE, "normal")]

LinesInit == leyLines = DefaultLeyLines /\ connecting = {}

------------------------------------------------------------------------------

\* The lines a realm is shown.
GetLeyLinesForRealm(r) ==
    {l \in Lines : leyLines[l].source = r \/ (leyLines[l].bidirectional /\ leyLines[l].target = r)}

\* A line runs in its own direction, and backwards when it is bidirectional.
Serves(l, source, target) ==
    \/ leyLines[l].source = source /\ leyLines[l].target = target
    \/ leyLines[l].bidirectional /\ leyLines[l].source = target /\ leyLines[l].target = source

Exists(source, target) == \E l \in Lines : Serves(l, source, target)

\* POST /realms/:realmId/ley-lines; ids are never given out again.
CreateLeyLine(l) ==
    /\ l \notin Lines \union connecting
    /\ \E source, target \in LineRealms, both \in BOOLEAN, priority \in Priorities :
          /\ source # target /\ ~Exists(source, target)
          /\ leyLines' = [k \in Lines \union {l} |->
                IF k = l THEN Line(source, target, "connecting", both, priority) ELSE leyLines[k]]
    /\ connecting' = connecting \union {l}

\* One second later: only a line that is still there and still connecting.
Established(l) ==
    /\ l \in connecting
    /\ connecting' = connecting \ {l}
    /\ leyLines' = [k \in Lines |->
          IF k = l /\ leyLines[k].status = "connecting" THEN [leyLines[k] EXCEPT !.status = "active"]
          ELSE leyLines[k]]

\* PUT /ley-lines/:leyLineId.  The status is set before the configuration is
\* validated, in the stored object: a refused update leaves it behind.
UpdateLeyLine(l) ==
    /\ l \in Lines
    /\ \E status \in LineStatuses, both \in BOOLEAN, priority \in Priorities :
          leyLines' \in
             {[leyLines EXCEPT ![l].status = status],
              [leyLines EXCEPT ![l].status = status, ![l].bidirectional = both, ![l].priority = priority]}
    /\ UNCHANGED connecting

\* DELETE /ley-lines/:leyLineId: not of an active line of critical priority.
DeleteLeyLine(l) ==
    /\ l \in Lines
    /\ ~(leyLines[l].priority = "critical" /\ leyLines[l].status = "active")
    /\ leyLines' = [k \in Lines \ {l} |-> leyLines[k]]
    /\ UNCHANGED connecting

LinesNext ==
    \E l \in LineIds : CreateLeyLine(l) \/ Established(l) \/ UpdateLeyLine(l) \/ DeleteLeyLine(l)

LinesSpec == LinesInit /\ [][LinesNext]_lvars

------------------------------------------------------------------------------

LineRecords ==
    [source : LineRealms, target : LineRealms, status : LineStatuses,
     bidirectional : BOOLEAN, priority : Priorities]

\* The shape of the state.
LinesTypeOK ==
    Lines \subseteq LineIds /\ leyLines \in [Lines -> LineRecords] /\ connecting \subseteq LineIds

\* What the creation compares for: no two lines serve one direction between two
\* realms.  The code does not keep to it: neither a new line that serves the way
\* back itself nor a change to bidirectional is compared.
ServedOnce ==
    \A source, target \in LineRealms : \A k, l \in Lines :
        Serves(k, source, target) /\ Serves(l, source, target) => k = l
==============================================================================
