------------------------------ MODULE Identity ------------------------------
(***************************************************************************)
(* Who a request comes from and which druids it may drive.  A browser's    *)
(* login and a bearer token the provider vouches for both go through       *)
(* upsertOnLogin, a sequence of statements outside of any transaction; two *)
(* caches, one behind the other, spare bearer requests the provider and    *)
(* the login.                                                              *)
(*                                                                         *)
(* A strand is one request.  The table of groups is left out: it lists the *)
(* groups ever seen and decides nothing.                                   *)
(***************************************************************************)
EXTENDS Naturals, FiniteSets

CONSTANTS
    Users,          \* subjects of the provider
    Bearers,        \* access tokens
    OwnerOf,        \* the subject of each token
    Groups,
    DruidIds,
    Elementals,     \* the agents of other types
    Requests,       \* bound: requests at once
    MatchedAdmins,  \* subjects ADMIN_OIDC_SUBJECT matches
    TTL,            \* CACHE_TTL_MS and BEARER_PRINCIPAL_TTL_MS, in ticks
    MaxNow          \* bound: the clock

ASSUME IdentityAssumption ==
    /\ OwnerOf \in [Bearers -> Users]
    /\ MatchedAdmins \subseteq Users
    /\ TTL \in Nat \ {0} /\ MaxNow \in Nat

VARIABLES
    now,
    reported,       \* external: the groups the provider reports of a user
    claims,         \* accessTokenValidator's cache
    principals,     \* the middleware's cache
    sessions,       \* browser sessions: the roles of the users logged in
    roles,          \* the table user_roles
    memberships,    \* the table user_group_memberships
    userGrants,     \* the table user_assumable_druids
    groupGrants,    \* the table group_assumable_druids
    strands,
    lastLogin,      \* history: the groups of the login that last cleared them
    entangled       \* history: users whose last logins overlapped or broke off

tables == <<roles, memberships, userGrants, groupGrants>>
caches == <<claims, principals>>
history == <<lastLogin, entangled>>
idvars == <<now, reported, caches, sessions, tables, strands, history>>

NoClaims == [expiresAt |-> 0, vouched |-> 0, groups |-> {}]
NoPrincipal == [expiresAt |-> 0, vouched |-> 0, roles |-> {}]
Anybody == CHOOSE u \in Users : TRUE

\* vouched: when the provider said what the strand, or a cached value, rests on.
Idle == [pc |-> "idle", user |-> Anybody, token |-> "browser", began |-> 0, vouched |-> 0,
         groups |-> {}, left |-> {}, roles |-> {}]

IdentityInit ==
    /\ now = 0
    /\ reported \in [Users -> SUBSET Groups]
    /\ claims = [t \in Bearers |-> NoClaims]
    /\ principals = [t \in Bearers |-> NoPrincipal]
    /\ sessions = [u \in Users |-> {}]
    /\ roles = [u \in Users |-> {}] /\ memberships = [u \in Users |-> {}]
    /\ userGrants = {} /\ groupGrants = {}
    /\ strands = [r \in Requests |-> Idle]
    /\ lastLogin = [u \in Users |-> {}] /\ entangled = {}

Becomes(r, s) == strands' = [strands EXCEPT ![r] = s]
At(r, pc) == strands[r].pc = pc
Goes(r, pc) == Becomes(r, [strands[r] EXCEPT !.pc = pc])

Fresh(entry) == entry.expiresAt > now

KeptFromNow(s) == now + TTL    \* mutant

\* Both caches keep what they are given a lifetime from when the request began.
KeptUntil(s) == s.began + TTL

------------------------------------------------------------------------------
(***************************************************************************)
(* resolvePrincipal: session, bearer token, nobody                         *)
(***************************************************************************)

\* A session answers for itself, whatever the tables say by now.
ResolveSession(r) ==
    /\ At(r, "idle")
    /\ \E u \in Users :
          /\ sessions[u] # {}
          /\ Becomes(r, [Idle EXCEPT !.pc = "resolved", !.user = u, !.roles = sessions[u]])
    /\ UNCHANGED <<now, reported, caches, sessions, tables, history>>

\* Both caches are asked with the time the request began.
ResolveBearer(r) ==
    /\ At(r, "idle")
    /\ \E t \in Bearers :
          LET new == [Idle EXCEPT !.user = OwnerOf[t], !.token = t, !.began = now]
          IN  Becomes(r,
                IF Fresh(principals[t]) THEN
                    [new EXCEPT !.pc = "resolved", !.roles = principals[t].roles,
                                !.vouched = principals[t].vouched]
                ELSE IF Fresh(claims[t]) THEN
                    [new EXCEPT !.pc = "row", !.groups = claims[t].groups,
                                !.vouched = claims[t].vouched]
                ELSE [new EXCEPT !.pc = "asking"])
    /\ UNCHANGED <<now, reported, caches, sessions, tables, history>>

ProviderVouches(r) ==
    /\ At(r, "asking")
    /\ LET groups == reported[strands[r].user]
       IN  /\ Becomes(r, [strands[r] EXCEPT !.pc = "row", !.groups = groups, !.vouched = now])
           /\ claims' = [claims EXCEPT ![strands[r].token] =
                            [expiresAt |-> KeptUntil(strands[r]), vouched |-> now, groups |-> groups]]
    /\ UNCHANGED <<now, reported, principals, sessions, tables, history>>

\* Refused or not reachable: the request goes on as nobody's.
ProviderRefuses(r) ==
    /\ At(r, "asking") /\ Becomes(r, Idle)
    /\ UNCHANGED <<now, reported, caches, sessions, tables, history>>

\* GET /auth/callback with a code the provider issued.
LoginCallback(r) ==
    /\ At(r, "idle")
    /\ \E u \in Users :
          Becomes(r, [Idle EXCEPT !.pc = "row", !.user = u, !.began = now, !.vouched = now,
                                  !.groups = reported[u]])
    /\ UNCHANGED <<now, reported, caches, sessions, tables, history>>

Logout(u) ==
    /\ sessions[u] # {} /\ sessions' = [sessions EXCEPT ![u] = {}]
    /\ UNCHANGED <<now, reported, caches, tables, strands, history>>

------------------------------------------------------------------------------
(***************************************************************************)
(* upsertOnLogin, a statement at a time                                    *)
(***************************************************************************)

\* The row, then the role every user has.
GrantUserRole(r) ==
    /\ At(r, "row")
    /\ roles' = [roles EXCEPT ![strands[r].user] = @ \union {"user"}]
    /\ Goes(r, IF strands[r].user \in MatchedAdmins THEN "admin" ELSE "clear")
    /\ UNCHANGED <<now, reported, caches, sessions, memberships, userGrants, groupGrants, history>>

GrantAdminRole(r) ==
    /\ At(r, "admin")
    /\ roles' = [roles EXCEPT ![strands[r].user] = @ \union {"admin"}]
    /\ Goes(r, "clear")
    /\ UNCHANGED <<now, reported, caches, sessions, memberships, userGrants, groupGrants, history>>

Syncing(u) == {r \in Requests : At(r, "sync") /\ strands[r].user = u}

ClearsNothing(r) ==    \* mutant
    /\ At(r, "clear")
    /\ lastLogin' = [lastLogin EXCEPT ![strands[r].user] = strands[r].groups]
    /\ Becomes(r, [strands[r] EXCEPT !.pc = "sync", !.left = strands[r].groups, !.groups = {}])
    /\ UNCHANGED <<now, reported, caches, sessions, tables, entangled>>

\* syncUserGroups begins.
ClearMemberships(r) ==
    /\ At(r, "clear")
    /\ LET u == strands[r].user
       IN  /\ memberships' = [memberships EXCEPT ![u] = {}]
           /\ lastLogin' = [lastLogin EXCEPT ![u] = strands[r].groups]
           /\ entangled' = IF Syncing(u) = {} THEN entangled \ {u} ELSE entangled \union {u}
    /\ Becomes(r, [strands[r] EXCEPT !.pc = "sync", !.left = strands[r].groups, !.groups = {}])
    /\ UNCHANGED <<now, reported, caches, sessions, roles, userGrants, groupGrants>>

\* The groups in the order of the claim, which is any.
InsertMembership(r) ==
    /\ At(r, "sync")
    /\ \E g \in strands[r].left :
          /\ memberships' = [memberships EXCEPT ![strands[r].user] = @ \union {g}]
          /\ Becomes(r, [strands[r] EXCEPT !.left = @ \ {g}])
    /\ UNCHANGED <<now, reported, caches, sessions, roles, userGrants, groupGrants, history>>

\* getUserById, and what the caller keeps of the user: the callback a session,
\* the middleware a principal.
LoginEnds(r) ==
    LET s == strands[r]
        held == roles[s.user]
    IN  /\ At(r, "sync") /\ s.left = {}
        /\ IF s.token \in Bearers
           THEN /\ Becomes(r, [s EXCEPT !.pc = "resolved", !.roles = held])
                /\ principals' = [principals EXCEPT ![s.token] =
                        [expiresAt |-> KeptUntil(s), vouched |-> s.vouched, roles |-> held]]
                /\ UNCHANGED sessions
           ELSE /\ Becomes(r, Idle)
                /\ sessions' = [sessions EXCEPT ![s.user] = held]
                /\ UNCHANGED principals
        /\ UNCHANGED <<now, reported, claims, tables, history>>

\* A statement fails: the bearer's request is nobody's, the browser's login 401.
StatementFailsFor(r) ==
    /\ strands[r].pc \in {"row", "admin", "clear", "sync"}
    /\ entangled' = IF At(r, "sync") THEN entangled \union {strands[r].user} ELSE entangled
    /\ Becomes(r, Idle)
    /\ UNCHANGED <<now, reported, caches, sessions, tables, lastLogin>>

------------------------------------------------------------------------------
(***************************************************************************)
(* The gates                                                               *)
(***************************************************************************)

\* isDruidAssumable: one statement over both tables of grants.
Assumable(u, d) ==
    \/ <<u, d>> \in userGrants
    \/ \E g \in memberships[u] : <<g, d>> \in groupGrants

MayDrive(s, a) == "admin" \in s.roles \/ (a \in DruidIds /\ Assumable(s.user, a))

\* Only the agents of type druid may be assumed; an administrator drives any.
AssumeGate(r) ==
    /\ At(r, "resolved")
    /\ \E a \in DruidIds \union Elementals :
          Becomes(r, IF MayDrive(strands[r], a) THEN [Idle EXCEPT !.pc = "driving"] ELSE Idle)
    /\ UNCHANGED <<now, reported, caches, sessions, tables, history>>

HandlerEnds(r) ==
    /\ At(r, "driving") /\ Becomes(r, Idle)
    /\ UNCHANGED <<now, reported, caches, sessions, tables, history>>

\* requireAdmin, in front of the routes of users and groups.
AdminRoute(r) == At(r, "resolved") /\ "admin" \in strands[r].roles /\ Becomes(r, Idle)

GrantAssumableDruid(r) ==
    /\ AdminRoute(r)
    /\ \E u \in {v \in Users : roles[v] # {}}, d \in DruidIds : userGrants' = userGrants \union {<<u, d>>}
    /\ UNCHANGED <<now, reported, caches, sessions, roles, memberships, groupGrants, history>>

RevokeAssumableDruid(r) ==
    /\ AdminRoute(r)
    /\ \E grant \in userGrants : userGrants' = userGrants \ {grant}
    /\ UNCHANGED <<now, reported, caches, sessions, roles, memberships, groupGrants, history>>

GrantGroupAssumableDruid(r) ==
    /\ AdminRoute(r)
    /\ \E g \in Groups, d \in DruidIds : groupGrants' = groupGrants \union {<<g, d>>}
    /\ UNCHANGED <<now, reported, caches, sessions, roles, memberships, userGrants, history>>

RevokeGroupAssumableDruid(r) ==
    /\ AdminRoute(r)
    /\ \E grant \in groupGrants : groupGrants' = groupGrants \ {grant}
    /\ UNCHANGED <<now, reported, caches, sessions, roles, memberships, userGrants, history>>

------------------------------------------------------------------------------
(***************************************************************************)
(* What happens around: time, the provider, the end of the process         *)
(***************************************************************************)

ClockTicks ==
    /\ now < MaxNow /\ now' = now + 1
    /\ UNCHANGED <<reported, caches, sessions, tables, strands, history>>

ProviderChanges ==
    /\ \E u \in Users, groups \in SUBSET Groups : reported' = [reported EXCEPT ![u] = groups]
    /\ UNCHANGED <<now, caches, sessions, tables, strands, history>>

\* The caches and the requests are the process's, the sessions Redis's.
IdentityRestart ==
    /\ claims' = [t \in Bearers |-> NoClaims]
    /\ principals' = [t \in Bearers |-> NoPrincipal]
    /\ strands' = [r \in Requests |-> Idle]
    /\ entangled' = entangled \union {u \in Users : Syncing(u) # {}}
    /\ UNCHANGED <<now, reported, sessions, tables, lastLogin>>

IdentityNext ==
    \/ \E r \in Requests :
          \/ ResolveSession(r) \/ ResolveBearer(r) \/ ProviderVouches(r) \/ ProviderRefuses(r)
          \/ LoginCallback(r)
          \/ GrantUserRole(r) \/ GrantAdminRole(r) \/ ClearMemberships(r)
          \/ InsertMembership(r) \/ LoginEnds(r) \/ StatementFailsFor(r)
          \/ AssumeGate(r) \/ HandlerEnds(r)
          \/ GrantAssumableDruid(r) \/ RevokeAssumableDruid(r)
          \/ GrantGroupAssumableDruid(r) \/ RevokeGroupAssumableDruid(r)
    \/ \E u \in Users : Logout(u)
    \/ ClockTicks \/ ProviderChanges \/ IdentityRestart

------------------------------------------------------------------------------

\* Whatever a bearer token is let in on, the provider said less than two
\* lifetimes before the request began: a token it withdrew is refused by then,
\* and the caches, one of which is filled from the other, never feed each other.
VouchedForRecently ==
    \A r \in Requests :
        strands[r].token \in Bearers /\ strands[r].pc # "asking" =>
            strands[r].began < strands[r].vouched + 2 * TTL

\* The druids a user may assume are those granted to him and to the groups his
\* last login came with: except while a login of his is between its deletion and
\* its last insertion, and when logins of his overlapped or broke off there.
ReachIsTheLogins ==
    \A u \in Users \ entangled : Syncing(u) = {} =>
        {d \in DruidIds : Assumable(u, d)} =
            {d \in DruidIds : <<u, d>> \in userGrants
                                \/ \E g \in lastLogin[u] : <<g, d>> \in groupGrants}
==============================================================================
