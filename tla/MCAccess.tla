------------------------------ MODULE MCAccess ------------------------------
EXTENDS Access, TLC

CONSTANTS root, alice

\* One tool that may be given every permission, one that may be given none.
MCAllowed == {Permissions, {}}

\* No limit, one below what any use reaches, and one for two uses.
MCLimits == {-1, 0, 2}

MCOwnerOf == [t \in Bearers |-> alice]
MCAdmins == {root}

RecordsIdle ==
    /\ leyLines = DefaultLeyLines /\ connecting = {}
    /\ toolAccess = DefaultToolAccess(0) /\ clock = 0

IdentityIdle ==
    /\ now = 0 /\ strands = [r \in Requests |-> Idle]
    /\ roles = [u \in Users |-> {}] /\ reported = [u \in Users |-> {}]
    /\ claims = [t \in Bearers |-> NoClaims] /\ entangled = {}

\* The administrator logs in while nobody else asks for anything.
RootIsAlone ==
    /\ reported[root] = {} /\ \A grant \in userGrants : grant[1] # root
    /\ \A r \in Requests :
          strands[r].user = root /\ strands[r].pc \in {"row", "admin", "clear", "sync"} =>
              \A o \in Requests \ {r} : At(o, "idle")

\* Groups and grants do not depend on the clock: it runs while there are none.
ClockAlone ==
    now > 0 => /\ userGrants = {} /\ groupGrants = {}
               /\ roles[root] = {}
               /\ \A u \in Users : {} = sessions[u] \union reported[u] \union lastLogin[u]

\* The stores share nothing but the process: each is explored while the others
\* are as they started.
MCNext ==
    \/ IdentityIdle /\ Next /\ UNCHANGED idvars
    \/ RecordsIdle /\ IdentityNext /\ UNCHANGED vars

MCSpec == AccessInit /\ [][MCNext]_avars

OneAtATime ==
    /\ \/ leyLines = DefaultLeyLines /\ connecting = {}
       \/ toolAccess = DefaultToolAccess(0) /\ clock = 0
    /\ RootIsAlone /\ ClockAlone

Symmetry == Permutations(Requests)
==============================================================================
