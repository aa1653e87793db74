--------------------------- MODULE Access_proofs ----------------------------
(***************************************************************************)
(* Access, for any tokens, limits, durations, realms, lines, users,        *)
(* bearer tokens, groups and druids, and any number of restarts: who a     *)
(* request comes from, and then the tokens and the ley lines by            *)
(* themselves, which share nothing with that but the process.              *)
(***************************************************************************)
EXTENDS Access, TLAPS

------------------------------------------------------------------------------
(***************************************************************************)
(* Who a request comes from                                                *)
(***************************************************************************)

USE IdentityAssumption

Roles == {"user", "admin"}
Places == {"idle", "resolved", "asking", "row", "admin", "clear", "sync", "driving"}
LoggingIn == {"row", "admin", "clear", "sync"}

Strands ==
    [pc : Places, user : Users \union {Anybody}, token : Bearers \union {"browser"},
     began : Nat, vouched : Nat, groups : SUBSET Groups, left : SUBSET Groups,
     roles : SUBSET Roles]

\* The shape of the state, and whose the strands and the clock are.
IdentityShape ==
    /\ now \in Nat
    /\ reported \in [Users -> SUBSET Groups]
    /\ claims \in [Bearers -> [expiresAt : Nat, vouched : Nat, groups : SUBSET Groups]]
    /\ principals \in [Bearers -> [expiresAt : Nat, vouched : Nat, roles : SUBSET Roles]]
    /\ sessions \in [Users -> SUBSET Roles] /\ roles \in [Users -> SUBSET Roles]
    /\ memberships \in [Users -> SUBSET Groups] /\ lastLogin \in [Users -> SUBSET Groups]
    /\ entangled \subseteq Users
    /\ strands \in [Requests -> Strands]

\* A strand is a user's while it logs in or is resolved, asks with a bearer
\* token only, and logs in on claims that were made less than a lifetime before
\* it began.
StrandSound(s, time) ==
    /\ s.pc \notin {"idle", "driving"} => s.user \in Users
    /\ s.pc = "asking" => s.token \in Bearers
    /\ s.began <= time
    /\ s.pc \in LoggingIn => s.began < s.vouched + TTL
    /\ s.pc # "asking" => s.began < s.vouched + 2 * TTL

StrandsSound == \A r \in Requests : StrandSound(strands[r], now)

\* What the two caches rest on.
CachesSound ==
    \A t \in Bearers :
        /\ claims[t].expiresAt <= claims[t].vouched + TTL
        /\ principals[t].expiresAt < principals[t].vouched + 2 * TTL

\* One login at a time is between its deletion and its last insertion, and it
\* has left to insert what the table lacks.
MembershipsSound ==
    \A u \in Users \ entangled :
        /\ \A r, q \in Syncing(u) : r = q
        /\ \A r \in Syncing(u) : memberships[u] \union strands[r].left = lastLogin[u]
        /\ Syncing(u) = {} => memberships[u] = lastLogin[u]

IdentityInv == IdentityShape /\ StrandsSound /\ CachesSound /\ MembershipsSound

------------------------------------------------------------------------------

\* A strand that moves on is that strand, but for the fields it changes.
LEMMA StrandFields ==
    ASSUME NEW s \in Strands, NEW p
    PROVE  [s EXCEPT !.pc = p] =
             [pc |-> p, user |-> s.user, token |-> s.token, began |-> s.began,
              vouched |-> s.vouched, groups |-> s.groups, left |-> s.left, roles |-> s.roles]
BY DEF Strands

\* What a strand is when it begins: a session's, a token's, a login's.
LEMMA FromSession ==
    ASSUME NEW u, NEW h, NEW x, x = [Idle EXCEPT !.pc = "resolved", !.user = u, !.roles = h]
    PROVE  x = [pc |-> "resolved", user |-> u, token |-> "browser", began |-> 0, vouched |-> 0,
                groups |-> {}, left |-> {}, roles |-> h]
BY DEF Idle

LEMMA FromToken ==
    ASSUME NEW u, NEW t, NEW n, NEW x,
           x = [Idle EXCEPT !.user = u, !.token = t, !.began = n]
    PROVE  x = [pc |-> "idle", user |-> u, token |-> t, began |-> n, vouched |-> 0,
                groups |-> {}, left |-> {}, roles |-> {}]
BY DEF Idle

LEMMA FromCallback ==
    ASSUME NEW u, NEW n, NEW g, NEW x,
           x = [Idle EXCEPT !.pc = "row", !.user = u, !.began = n, !.vouched = n, !.groups = g]
    PROVE  x = [pc |-> "row", user |-> u, token |-> "browser", began |-> n, vouched |-> n,
                groups |-> g, left |-> {}, roles |-> {}]
BY DEF Idle

\* What it is when the provider vouched for it.
LEMMA VouchedFields ==
    ASSUME NEW s \in Strands, NEW g, NEW n, NEW y,
           y = [s EXCEPT !.pc = "row", !.groups = g, !.vouched = n]
    PROVE  y = [pc |-> "row", user |-> s.user, token |-> s.token, began |-> s.began,
                vouched |-> n, groups |-> g, left |-> s.left, roles |-> s.roles]
BY DEF Strands

LEMMA IdleSound ==
    ASSUME NEW time \in Nat
    PROVE  Idle \in Strands /\ StrandSound(Idle, time) /\ Idle.pc = "idle"
BY DEF Idle, Strands, StrandSound, Places, Roles, LoggingIn

\* One strand becomes a sound one.
LEMMA StrandPlaced ==
    ASSUME IdentityShape, StrandsSound, NEW r \in Requests, NEW s \in Strands, Becomes(r, s),
           StrandSound(s, now), now' = now
    PROVE  strands' \in [Requests -> Strands] /\ StrandsSound'
BY DEF IdentityShape, StrandsSound, Becomes, StrandSound

\* A strand that neither begins nor is between its deletion and its insertions
\* leaves the logins of all users as they are.
LEMMA SyncingKept ==
    ASSUME IdentityShape, MembershipsSound, NEW r \in Requests, NEW s, Becomes(r, s),
           strands[r].pc # "sync", s.pc # "sync",
           UNCHANGED <<memberships, lastLogin, entangled>>
    PROVE  MembershipsSound'
<1>1. \A q \in Requests : q # r => strands'[q] = strands[q]
  BY DEF Becomes, IdentityShape
<1>2. strands'[r] = s
  BY DEF Becomes, IdentityShape
<1>3. \A u \in Users : Syncing(u)' = Syncing(u)
  BY <1>1, <1>2 DEF Syncing, At
<1>4. \A u \in Users : \A q \in Syncing(u) : strands'[q] = strands[q]
  BY <1>1 DEF Syncing, At
<1> QED BY <1>3, <1>4 DEF MembershipsSound

LEMMA IdentityStarts == IdentityInit => IdentityInv
<1> SUFFICES ASSUME IdentityInit PROVE IdentityInv
  OBVIOUS
<1>1. Idle \in Strands /\ StrandSound(Idle, 0) /\ Idle.pc = "idle"
  BY IdleSound
<1>2. IdentityShape
  BY <1>1 DEF IdentityInit, IdentityShape, NoClaims, NoPrincipal
<1>3. StrandsSound
  BY <1>1 DEF IdentityInit, StrandsSound
<1>4. CachesSound
  BY DEF IdentityInit, CachesSound, NoClaims, NoPrincipal
<1>5. \A u \in Users : Syncing(u) = {}
  BY <1>1 DEF IdentityInit, Syncing, At
<1>6. MembershipsSound
  BY <1>5 DEF IdentityInit, MembershipsSound
<1> QED BY <1>2, <1>3, <1>4, <1>6 DEF IdentityInv

\* An action that only moves a strand which is in no login's insertions.
LEMMA OneStrandMoves ==
    ASSUME IdentityInv, NEW r \in Requests, NEW s \in Strands, Becomes(r, s),
           StrandSound(s, now), strands[r].pc # "sync", s.pc # "sync",
           UNCHANGED <<now, reported, memberships, lastLogin, entangled>>,
           roles' \in [Users -> SUBSET Roles], sessions' = sessions,
           claims' \in [Bearers -> [expiresAt : Nat, vouched : Nat, groups : SUBSET Groups]],
           principals' = principals, CachesSound'
    PROVE  IdentityInv'
<1>1. IdentityShape /\ StrandsSound /\ MembershipsSound
  BY DEF IdentityInv
<1>2. strands' \in [Requests -> Strands] /\ StrandsSound'
  BY <1>1, StrandPlaced
<1>3. MembershipsSound'
  BY <1>1, SyncingKept
<1>4. IdentityShape'
  BY <1>1, <1>2 DEF IdentityShape
<1> QED BY <1>2, <1>3, <1>4 DEF IdentityInv

------------------------------------------------------------------------------

LEMMA ResolvingKeeps ==
    ASSUME IdentityInv, NEW r \in Requests,
           ResolveSession(r) \/ ResolveBearer(r) \/ ProviderVouches(r) \/ ProviderRefuses(r)
             \/ LoginCallback(r)
    PROVE  IdentityInv'
<1>1. IdentityShape /\ StrandsSound /\ CachesSound /\ now \in Nat
  BY DEF IdentityInv, IdentityShape
<1>2. strands[r] \in Strands /\ StrandSound(strands[r], now)
  BY <1>1 DEF IdentityShape, StrandsSound
<1>3. Idle \in Strands /\ StrandSound(Idle, now) /\ Idle.pc = "idle"
  BY <1>1, IdleSound
<1>4. CASE ResolveSession(r)
  <2>1. PICK u \in Users : Becomes(r, [Idle EXCEPT !.pc = "resolved", !.user = u, !.roles = sessions[u]])
    BY <1>4 DEF ResolveSession
  <2> DEFINE s == [Idle EXCEPT !.pc = "resolved", !.user = u, !.roles = sessions[u]]
  <2>a. s = [pc |-> "resolved", user |-> u, token |-> "browser", began |-> 0, vouched |-> 0,
             groups |-> {}, left |-> {}, roles |-> sessions[u]]
    BY FromSession
  <2>b. sessions[u] \in SUBSET Roles
    BY <1>1 DEF IdentityShape
  <2>2. s \in Strands /\ StrandSound(s, now) /\ s.pc = "resolved"
    <3> HIDE DEF s
    <3> QED BY <1>1, <2>a, <2>b DEF Strands, Places, StrandSound, LoggingIn
  <2> HIDE DEF s
  <2>3. /\ UNCHANGED <<now, reported, memberships, lastLogin, entangled, roles, sessions, claims, principals>>
        /\ strands[r].pc # "sync"
    BY <1>4 DEF ResolveSession, At, caches, tables, history
  <2>4. CachesSound' /\ roles' \in [Users -> SUBSET Roles]
        /\ claims' \in [Bearers -> [expiresAt : Nat, vouched : Nat, groups : SUBSET Groups]]
    BY <1>1, <2>3 DEF CachesSound, IdentityShape
  <2>5. Becomes(r, s)
    BY <2>1 DEF s
  <2> QED BY <2>2, <2>3, <2>4, <2>5, OneStrandMoves
<1>5. CASE ResolveBearer(r)
  <2>1. PICK t \in Bearers :
          LET new == [Idle EXCEPT !.user = OwnerOf[t], !.token = t, !.began = now]
          IN  Becomes(r,
                IF Fresh(principals[t]) THEN
                    [new EXCEPT !.pc = "resolved", !.roles = principals[t].roles,
                                !.vouched = principals[t].vouched]
                ELSE IF Fresh(claims[t]) THEN
                    [new EXCEPT !.pc = "row", !.groups = claims[t].groups,
                                !.vouched = claims[t].vouched]
                ELSE [new EXCEPT !.pc = "asking"])
    BY <1>5 DEF ResolveBearer
  <2> DEFINE new == [Idle EXCEPT !.user = OwnerOf[t], !.token = t, !.began = now]
             s == IF Fresh(principals[t]) THEN
                    [new EXCEPT !.pc = "resolved", !.roles = principals[t].roles,
                                !.vouched = principals[t].vouched]
                ELSE IF Fresh(claims[t]) THEN
                    [new EXCEPT !.pc = "row", !.groups = claims[t].groups,
                                !.vouched = claims[t].vouched]
                ELSE [new EXCEPT !.pc = "asking"]
  <2>2. new = [pc |-> "idle", user |-> OwnerOf[t], token |-> t, began |-> now, vouched |-> 0,
               groups |-> {}, left |-> {}, roles |-> {}]
    BY FromToken
  <2>3. OwnerOf[t] \in Users
    OBVIOUS
  <2>4. principals[t] \in [expiresAt : Nat, vouched : Nat, roles : SUBSET Roles]
        /\ claims[t] \in [expiresAt : Nat, vouched : Nat, groups : SUBSET Groups]
    BY <1>1 DEF IdentityShape
  <2> HIDE DEF new
  <2>5. s \in Strands /\ StrandSound(s, now) /\ s.pc # "sync"
    <3>1. CASE Fresh(principals[t])
      <4>1. s = [pc |-> "resolved", user |-> OwnerOf[t], token |-> t, began |-> now,
                 vouched |-> principals[t].vouched, groups |-> {}, left |-> {},
                 roles |-> principals[t].roles]
        BY <3>1, <2>2
      <4>2. now < principals[t].vouched + 2 * TTL
        BY <1>1, <2>4, <3>1 DEF Fresh, CachesSound
      <4> HIDE DEF s
      <4> QED BY <4>1, <4>2, <2>3, <2>4, <1>1 DEF Strands, Places, StrandSound, LoggingIn
    <3>2. CASE ~Fresh(principals[t]) /\ Fresh(claims[t])
      <4>1. s = [pc |-> "row", user |-> OwnerOf[t], token |-> t, began |-> now,
                 vouched |-> claims[t].vouched, groups |-> claims[t].groups, left |-> {},
                 roles |-> {}]
        BY <3>2, <2>2
      <4>2. now < claims[t].vouched + TTL
        BY <1>1, <2>4, <3>2 DEF Fresh, CachesSound
      <4> HIDE DEF s
      <4> QED BY <4>1, <4>2, <2>3, <2>4, <1>1 DEF Strands, Places, StrandSound, LoggingIn
    <3>3. CASE ~Fresh(principals[t]) /\ ~Fresh(claims[t])
      <4>1. s = [pc |-> "asking", user |-> OwnerOf[t], token |-> t, began |-> now,
                 vouched |-> 0, groups |-> {}, left |-> {}, roles |-> {}]
        BY <3>3, <2>2
      <4> HIDE DEF s
      <4> QED BY <4>1, <2>3, <1>1 DEF Strands, Places, StrandSound, LoggingIn, Roles
    <3> QED BY <3>1, <3>2, <3>3
  <2>6. Becomes(r, s)
    BY <2>1 DEF new
  <2> HIDE DEF s
  <2>7. /\ UNCHANGED <<now, reported, memberships, lastLogin, entangled, roles, sessions, claims, principals>>
        /\ strands[r].pc # "sync"
    BY <1>5 DEF ResolveBearer, At, caches, tables, history
  <2>8. CachesSound' /\ roles' \in [Users -> SUBSET Roles]
        /\ claims' \in [Bearers -> [expiresAt : Nat, vouched : Nat, groups : SUBSET Groups]]
    BY <1>1, <2>7 DEF CachesSound, IdentityShape
  <2> QED BY <2>5, <2>6, <2>7, <2>8, OneStrandMoves
<1>6. CASE ProviderVouches(r)
  <2> DEFINE o == strands[r]
             s == [o EXCEPT !.pc = "row", !.groups = reported[o.user], !.vouched = now]
             c == [expiresAt |-> o.began + TTL, vouched |-> now, groups |-> reported[o.user]]
  <2>1. o.pc = "asking" /\ Becomes(r, s) /\ claims' = [claims EXCEPT ![o.token] = c]
        /\ UNCHANGED <<now, reported, memberships, lastLogin, entangled, roles, sessions, principals>>
    BY <1>6 DEF ProviderVouches, At, KeptUntil, tables, history
  <2>2. o.user \in Users /\ o.token \in Bearers /\ o.began <= now
    BY <1>2, <2>1 DEF StrandSound
  <2>3. reported[o.user] \in SUBSET Groups
    BY <1>1, <2>2 DEF IdentityShape
  <2>4. s = [pc |-> "row", user |-> o.user, token |-> o.token, began |-> o.began,
             vouched |-> now, groups |-> reported[o.user], left |-> o.left, roles |-> o.roles]
    BY <1>2, VouchedFields
  <2> HIDE DEF s
  <2>5. s \in Strands /\ StrandSound(s, now) /\ s.pc = "row"
    BY <2>2, <2>3, <2>4, <1>1, <1>2 DEF Strands, Places, StrandSound, LoggingIn
  <2>6. c \in [expiresAt : Nat, vouched : Nat, groups : SUBSET Groups] /\ c.expiresAt <= c.vouched + TTL
    BY <1>1, <1>2, <2>2, <2>3 DEF Strands
  <2> HIDE DEF c
  <2>7. claims' \in [Bearers -> [expiresAt : Nat, vouched : Nat, groups : SUBSET Groups]]
    BY <1>1, <2>1, <2>6 DEF IdentityShape
  <2>8. CachesSound'
    BY <1>1, <2>1, <2>2, <2>6 DEF CachesSound, IdentityShape
  <2>9. roles' \in [Users -> SUBSET Roles]
    BY <1>1, <2>1 DEF IdentityShape
  <2> HIDE DEF o
  <2>10. strands[r].pc # "sync"
    BY <2>1 DEF o
  <2> QED BY <2>1, <2>5, <2>7, <2>8, <2>9, <2>10, OneStrandMoves
<1>7. CASE ProviderRefuses(r)
  <2>1. /\ UNCHANGED <<now, reported, memberships, lastLogin, entangled, roles, sessions, claims, principals>>
        /\ strands[r].pc # "sync" /\ Becomes(r, Idle)
    BY <1>7 DEF ProviderRefuses, At, caches, tables, history
  <2>2. CachesSound' /\ roles' \in [Users -> SUBSET Roles]
        /\ claims' \in [Bearers -> [expiresAt : Nat, vouched : Nat, groups : SUBSET Groups]]
    BY <1>1, <2>1 DEF CachesSound, IdentityShape
  <2> QED BY <1>3, <2>1, <2>2, OneStrandMoves
<1>8. CASE LoginCallback(r)
  <2>1. PICK u \in Users :
          Becomes(r, [Idle EXCEPT !.pc = "row", !.user = u, !.began = now, !.vouched = now,
                                  !.groups = reported[u]])
    BY <1>8 DEF LoginCallback
  <2> DEFINE s == [Idle EXCEPT !.pc = "row", !.user = u, !.began = now, !.vouched = now,
                               !.groups = reported[u]]
  <2>2. s = [pc |-> "row", user |-> u, token |-> "browser", began |-> now, vouched |-> now,
             groups |-> reported[u], left |-> {}, roles |-> {}]
    BY FromCallback
  <2> HIDE DEF s
  <2>3. reported[u] \in SUBSET Groups
    BY <1>1 DEF IdentityShape
  <2>4. s \in Strands /\ StrandSound(s, now) /\ s.pc = "row"
    BY <2>2, <2>3, <1>1 DEF Strands, Places, StrandSound, LoggingIn, Roles
  <2>5. Becomes(r, s)
    BY <2>1 DEF s
  <2>6. /\ UNCHANGED <<now, reported, memberships, lastLogin, entangled, roles, sessions, claims, principals>>
        /\ strands[r].pc # "sync"
    BY <1>8 DEF LoginCallback, At, caches, tables, history
  <2>7. CachesSound' /\ roles' \in [Users -> SUBSET Roles]
        /\ claims' \in [Bearers -> [expiresAt : Nat, vouched : Nat, groups : SUBSET Groups]]
    BY <1>1, <2>6 DEF CachesSound, IdentityShape
  <2> QED BY <2>4, <2>5, <2>6, <2>7, OneStrandMoves
<1> QED BY <1>4, <1>5, <1>6, <1>7, <1>8
\* The statements of a login before those of its groups, and its failing there.
LEMMA RolesKeep ==
    ASSUME IdentityInv, NEW r \in Requests, GrantUserRole(r) \/ GrantAdminRole(r)
    PROVE  IdentityInv'
<1>1. IdentityShape /\ StrandsSound /\ CachesSound /\ now \in Nat
  BY DEF IdentityInv, IdentityShape
<1> DEFINE o == strands[r]
<1>2. o \in Strands /\ StrandSound(o, now)
  BY <1>1 DEF IdentityShape, StrandsSound
<1>3. PICK p \in {"admin", "clear"} : Becomes(r, [o EXCEPT !.pc = p])
  BY DEF GrantUserRole, GrantAdminRole, Goes
<1>4. /\ o.pc \in {"row", "admin"}
      /\ UNCHANGED <<now, reported, memberships, lastLogin, entangled, sessions, claims, principals>>
  BY DEF GrantUserRole, GrantAdminRole, At, caches, history
<1>5. roles' \in [Users -> SUBSET Roles]
  <2>1. PICK added \in SUBSET Roles : roles' = [roles EXCEPT ![o.user] = @ \union added]
    BY DEF GrantUserRole, GrantAdminRole, Roles
  <2>2. roles \in [Users -> SUBSET Roles]
    BY <1>1 DEF IdentityShape
  <2> HIDE DEF o, Roles
  <2> QED BY <2>1, <2>2
<1> DEFINE s == [o EXCEPT !.pc = p]
<1>6. s = [pc |-> p, user |-> o.user, token |-> o.token, began |-> o.began,
           vouched |-> o.vouched, groups |-> o.groups, left |-> o.left, roles |-> o.roles]
  BY <1>2, StrandFields
<1> HIDE DEF s
<1>7. s \in Strands /\ StrandSound(s, now) /\ s.pc # "sync"
  BY <1>2, <1>4, <1>6 DEF Strands, Places, StrandSound, LoggingIn
<1>8. Becomes(r, s)
  BY <1>3 DEF s
<1>9. CachesSound' /\ claims' \in [Bearers -> [expiresAt : Nat, vouched : Nat, groups : SUBSET Groups]]
  BY <1>1, <1>4 DEF CachesSound, IdentityShape
<1>10. strands[r].pc # "sync"
  BY <1>4
<1> HIDE DEF o
<1> QED BY <1>4, <1>5, <1>7, <1>8, <1>9, <1>10, OneStrandMoves

\* What remains of the invariant when only strands and memberships change.
LEMMA LoginMoves ==
    ASSUME IdentityInv, NEW r \in Requests, NEW s \in Strands, Becomes(r, s),
           StrandSound(s, now), MembershipsSound',
           UNCHANGED <<now, reported, caches, sessions, roles>>,
           memberships' \in [Users -> SUBSET Groups], lastLogin' \in [Users -> SUBSET Groups],
           entangled' \subseteq Users
    PROVE  IdentityInv'
<1>1. IdentityShape /\ StrandsSound /\ CachesSound
  BY DEF IdentityInv
<1>2. strands' \in [Requests -> Strands] /\ StrandsSound'
  BY <1>1, StrandPlaced
<1>3. claims' = claims /\ principals' = principals
  BY DEF caches
<1>4. IdentityShape'
  BY <1>1, <1>2, <1>3 DEF IdentityShape
<1>5. CachesSound'
  BY <1>1, <1>3 DEF CachesSound
<1> QED BY <1>2, <1>4, <1>5 DEF IdentityInv

\* What a strand is once its memberships are deleted, and once one is inserted.
LEMMA ClearedFields ==
    ASSUME NEW s \in Strands, NEW x,
           x = [s EXCEPT !.pc = "sync", !.left = s.groups, !.groups = {}]
    PROVE  x = [pc |-> "sync", user |-> s.user, token |-> s.token, began |-> s.began,
                vouched |-> s.vouched, groups |-> {}, left |-> s.groups, roles |-> s.roles]
BY DEF Strands

LEMMA InsertedFields ==
    ASSUME NEW s \in Strands, NEW g, NEW x, x = [s EXCEPT !.left = @ \ {g}]
    PROVE  x = [pc |-> s.pc, user |-> s.user, token |-> s.token, began |-> s.began,
                vouched |-> s.vouched, groups |-> s.groups, left |-> s.left \ {g},
                roles |-> s.roles]
BY DEF Strands

LEMMA ResolvedFields ==
    ASSUME NEW s \in Strands, NEW h, NEW x, x = [s EXCEPT !.pc = "resolved", !.roles = h]
    PROVE  x = [pc |-> "resolved", user |-> s.user, token |-> s.token, began |-> s.began,
                vouched |-> s.vouched, groups |-> s.groups, left |-> s.left, roles |-> h]
BY DEF Strands

\* Who is between deletion and insertions after one strand became another.
LEMMA SyncingAfter ==
    ASSUME IdentityShape, NEW r \in Requests, NEW s, Becomes(r, s), NEW u \in Users
    PROVE  /\ \A q \in Requests \ {r} : q \in Syncing(u)' <=> q \in Syncing(u)
           /\ r \in Syncing(u)' <=> s.pc = "sync" /\ s.user = u
           /\ \A q \in Requests \ {r} : strands'[q] = strands[q]
           /\ strands'[r] = s
           /\ Syncing(u) \subseteq Requests /\ Syncing(u)' \subseteq Requests
BY DEF IdentityShape, Becomes, Syncing, At

LEMMA ClearingKeeps ==
    ASSUME IdentityInv, NEW r \in Requests, ClearMemberships(r)
    PROVE  IdentityInv'
<1>1. IdentityShape /\ StrandsSound /\ MembershipsSound /\ now \in Nat
  BY DEF IdentityInv, IdentityShape
<1> DEFINE o == strands[r]
           v == o.user
           s == [o EXCEPT !.pc = "sync", !.left = o.groups, !.groups = {}]
<1>2. o \in Strands /\ StrandSound(o, now)
  BY <1>1 DEF IdentityShape, StrandsSound
<1>3. s = [pc |-> "sync", user |-> v, token |-> o.token, began |-> o.began,
           vouched |-> o.vouched, groups |-> {}, left |-> o.groups, roles |-> o.roles]
  BY <1>2, ClearedFields
<1>4. /\ o.pc = "clear" /\ Becomes(r, s)
      /\ memberships' = [memberships EXCEPT ![v] = {}]
      /\ lastLogin' = [lastLogin EXCEPT ![v] = o.groups]
      /\ entangled' = IF Syncing(v) = {} THEN entangled \ {v} ELSE entangled \union {v}
      /\ UNCHANGED <<now, reported, caches, sessions, roles>>
  BY DEF ClearMemberships, At
<1> HIDE DEF s
<1>5. v \in Users /\ o.groups \in SUBSET Groups
  BY <1>2, <1>4 DEF StrandSound, Strands
<1>6. s \in Strands /\ StrandSound(s, now)
  BY <1>2, <1>3, <1>4, <1>5 DEF Strands, Places, StrandSound, LoggingIn
<1>7. /\ memberships' \in [Users -> SUBSET Groups] /\ lastLogin' \in [Users -> SUBSET Groups]
      /\ entangled' \subseteq Users
  BY <1>1, <1>4, <1>5 DEF IdentityShape
<1>8. ASSUME NEW u \in Users \ entangled'
      PROVE  /\ \A q, p \in Syncing(u)' : q = p
             /\ \A q \in Syncing(u)' : memberships'[u] \union strands'[q].left = lastLogin'[u]
             /\ Syncing(u)' = {} => memberships'[u] = lastLogin'[u]
  <2>1. /\ \A q \in Requests \ {r} : q \in Syncing(u)' <=> q \in Syncing(u)
        /\ r \in Syncing(u)' <=> s.pc = "sync" /\ s.user = u
        /\ \A q \in Requests \ {r} : strands'[q] = strands[q]
        /\ strands'[r] = s
        /\ Syncing(u) \subseteq Requests /\ Syncing(u)' \subseteq Requests
    BY <1>1, <1>4, SyncingAfter
  <2>2. r \notin Syncing(u)
    BY <1>4 DEF Syncing, At
  <2>3. CASE u = v
    <3>1. Syncing(v) = {}
      BY <1>4, <1>5, <2>3
    <3>2. Syncing(u)' = {r}
      BY <1>3, <2>1, <2>3, <3>1
    <3>3. memberships'[u] = {} /\ lastLogin'[u] = o.groups /\ strands'[r].left = o.groups
      BY <1>1, <1>3, <1>4, <1>5, <2>1, <2>3 DEF IdentityShape
    <3> QED BY <3>2, <3>3
  <2>4. CASE u # v
    <3>1. Syncing(u)' = Syncing(u)
      BY SMTT(30), <1>3, <2>1, <2>2, <2>4
    <3>2. memberships'[u] = memberships[u] /\ lastLogin'[u] = lastLogin[u] /\ u \notin entangled
      BY <1>1, <1>4, <2>4 DEF IdentityShape
    <3> QED BY <1>1, <2>1, <2>2, <3>1, <3>2 DEF MembershipsSound
  <2> QED BY <2>3, <2>4
<1>9. MembershipsSound'
  BY <1>8 DEF MembershipsSound
<1> HIDE DEF o
<1> QED BY <1>4, <1>6, <1>7, <1>9, LoginMoves

LEMMA InsertingKeeps ==
    ASSUME IdentityInv, NEW r \in Requests, InsertMembership(r)
    PROVE  IdentityInv'
<1>1. IdentityShape /\ StrandsSound /\ MembershipsSound /\ now \in Nat
  BY DEF IdentityInv, IdentityShape
<1> DEFINE o == strands[r]
           v == o.user
<1>2. o \in Strands /\ StrandSound(o, now)
  BY <1>1 DEF IdentityShape, StrandsSound
<1>3. PICK g \in o.left :
         /\ memberships' = [memberships EXCEPT ![v] = @ \union {g}]
         /\ Becomes(r, [o EXCEPT !.left = @ \ {g}])
  BY DEF InsertMembership
<1> DEFINE s == [o EXCEPT !.left = @ \ {g}]
<1>4. s = [pc |-> o.pc, user |-> v, token |-> o.token, began |-> o.began,
           vouched |-> o.vouched, groups |-> o.groups, left |-> o.left \ {g}, roles |-> o.roles]
  BY <1>2, InsertedFields
<1>5. /\ o.pc = "sync" /\ Becomes(r, s)
      /\ UNCHANGED <<now, reported, caches, sessions, roles, lastLogin, entangled>>
  BY <1>3 DEF InsertMembership, At, history
<1> HIDE DEF s
<1>6. v \in Users /\ o.left \in SUBSET Groups
  BY <1>2, <1>5 DEF StrandSound, Strands
<1>7. s \in Strands /\ StrandSound(s, now)
  BY <1>2, <1>4, <1>6 DEF Strands, StrandSound
<1>8. /\ memberships' \in [Users -> SUBSET Groups] /\ lastLogin' \in [Users -> SUBSET Groups]
      /\ entangled' \subseteq Users
  BY <1>1, <1>3, <1>5, <1>6 DEF IdentityShape
<1>9. ASSUME NEW u \in Users \ entangled
      PROVE  /\ \A q, p \in Syncing(u)' : q = p
             /\ \A q \in Syncing(u)' : memberships'[u] \union strands'[q].left = lastLogin[u]
             /\ Syncing(u)' = {} => memberships'[u] = lastLogin[u]
  <2>1. /\ \A q \in Requests \ {r} : q \in Syncing(u)' <=> q \in Syncing(u)
        /\ r \in Syncing(u)' <=> s.pc = "sync" /\ s.user = u
        /\ \A q \in Requests \ {r} : strands'[q] = strands[q]
        /\ strands'[r] = s
        /\ Syncing(u) \subseteq Requests /\ Syncing(u)' \subseteq Requests
    BY <1>1, <1>5, SyncingAfter
  <2>2. r \in Syncing(u) <=> u = v
    BY <1>5 DEF Syncing, At
  <2>3. Syncing(u)' = Syncing(u)
    BY SMTT(30), <1>4, <1>5, <2>1, <2>2
  <2>4. CASE u = v
    <3>1. memberships[u] \union o.left = lastLogin[u] /\ \A q \in Syncing(u) : q = r
      BY <1>1, <2>2, <2>4 DEF MembershipsSound
    <3>2. memberships'[u] = memberships[u] \union {g} /\ strands'[r].left = o.left \ {g}
      BY <1>1, <1>3, <1>4, <1>6, <2>1, <2>4 DEF IdentityShape
    <3>3. memberships'[u] \union strands'[r].left = lastLogin[u]
      BY <1>3, <3>1, <3>2
    <3> QED BY <2>2, <2>3, <2>4, <3>1, <3>3
  <2>5. CASE u # v
    <3>1. memberships'[u] = memberships[u]
      BY <1>1, <1>3, <2>5 DEF IdentityShape
    <3> QED BY <1>1, <2>1, <2>2, <2>3, <2>5, <3>1 DEF MembershipsSound
  <2> QED BY <2>4, <2>5
<1>10. MembershipsSound'
  BY <1>5, <1>9 DEF MembershipsSound
<1> HIDE DEF o
<1> QED BY <1>5, <1>7, <1>8, <1>10, LoginMoves

\* A strand that leaves its insertions with nothing left, or with its user
\* entangled, leaves the memberships sound.
LEMMA LeavingSync ==
    ASSUME IdentityShape, MembershipsSound, NEW r \in Requests, NEW s, Becomes(r, s),
           s.pc # "sync", UNCHANGED <<memberships, lastLogin>>,
           entangled \subseteq entangled',
           strands[r].pc = "sync" => strands[r].left = {} \/ strands[r].user \in entangled'
    PROVE  MembershipsSound'
<1>1. ASSUME NEW u \in Users \ entangled'
      PROVE  /\ \A q, p \in Syncing(u)' : q = p
             /\ \A q \in Syncing(u)' : memberships[u] \union strands'[q].left = lastLogin[u]
             /\ Syncing(u)' = {} => memberships[u] = lastLogin[u]
  <2>1. /\ \A q \in Requests \ {r} : q \in Syncing(u)' <=> q \in Syncing(u)
        /\ r \notin Syncing(u)'
        /\ \A q \in Requests \ {r} : strands'[q] = strands[q]
        /\ Syncing(u) \subseteq Requests /\ Syncing(u)' \subseteq Requests
    BY SyncingAfter
  <2>2. /\ \A q, p \in Syncing(u) : q = p
        /\ \A q \in Syncing(u) : memberships[u] \union strands[q].left = lastLogin[u]
        /\ Syncing(u) = {} => memberships[u] = lastLogin[u]
    BY DEF MembershipsSound
  <2>3. CASE r \in Syncing(u)
    <3>1. strands[r].left = {}
      BY <2>3 DEF Syncing, At
    <3>2. Syncing(u)' = {} /\ memberships[u] = lastLogin[u]
      BY <2>1, <2>2, <2>3, <3>1
    <3> QED BY <3>2
  <2>4. CASE r \notin Syncing(u)
    <3>1. Syncing(u)' = Syncing(u)
      BY <2>1, <2>4
    <3> QED BY <2>1, <2>2, <3>1
  <2> QED BY <2>3, <2>4
<1> QED BY <1>1 DEF MembershipsSound

LEMMA EndingKeeps ==
    ASSUME IdentityInv, NEW r \in Requests, LoginEnds(r)
    PROVE  IdentityInv'
<1>1. IdentityShape /\ StrandsSound /\ CachesSound /\ MembershipsSound /\ now \in Nat
  BY DEF IdentityInv, IdentityShape
<1> DEFINE o == strands[r]
           held == roles[o.user]
           s == [o EXCEPT !.pc = "resolved", !.roles = held]
           k == [expiresAt |-> o.began + TTL, vouched |-> o.vouched, roles |-> held]
<1>2. o \in Strands /\ StrandSound(o, now)
  BY <1>1 DEF IdentityShape, StrandsSound
<1>3. s = [pc |-> "resolved", user |-> o.user, token |-> o.token, began |-> o.began,
           vouched |-> o.vouched, groups |-> o.groups, left |-> o.left, roles |-> held]
  BY <1>2, ResolvedFields
<1>4. /\ o.pc = "sync" /\ o.left = {}
      /\ UNCHANGED <<now, reported, claims, roles, memberships, lastLogin, entangled>>
      /\ \/ o.token \in Bearers /\ Becomes(r, s) /\ sessions' = sessions
            /\ principals' = [principals EXCEPT ![o.token] = k]
         \/ Becomes(r, Idle) /\ principals' = principals
            /\ sessions' = [sessions EXCEPT ![o.user] = held]
  BY DEF LoginEnds, At, KeptUntil, tables, history
<1> HIDE DEF s
<1>5. o.user \in Users /\ held \in SUBSET Roles
  <2>1. o.user \in Users
    BY <1>2, <1>4 DEF StrandSound
  <2> QED BY <1>1, <2>1 DEF IdentityShape
<1>6. s \in Strands /\ StrandSound(s, now) /\ s.pc = "resolved"
  BY <1>2, <1>3, <1>4, <1>5 DEF Strands, Places, StrandSound, LoggingIn
<1>7. k \in [expiresAt : Nat, vouched : Nat, roles : SUBSET Roles]
      /\ k.expiresAt < k.vouched + 2 * TTL
  BY <1>2, <1>4, <1>5 DEF Strands, StrandSound, LoggingIn
<1> HIDE DEF k
<1>8. Idle \in Strands /\ StrandSound(Idle, now) /\ Idle.pc = "idle"
  BY <1>1, IdleSound
<1>9. /\ principals' \in [Bearers -> [expiresAt : Nat, vouched : Nat, roles : SUBSET Roles]]
      /\ sessions' \in [Users -> SUBSET Roles]
      /\ \A t \in Bearers : principals'[t] = principals[t] \/ principals'[t] = k
  <2>1. /\ principals \in [Bearers -> [expiresAt : Nat, vouched : Nat, roles : SUBSET Roles]]
        /\ sessions \in [Users -> SUBSET Roles]
    BY <1>1 DEF IdentityShape
  <2> HIDE DEF o, held
  <2>2. CASE o.token \in Bearers /\ sessions' = sessions
               /\ principals' = [principals EXCEPT ![o.token] = k]
    BY <2>1, <2>2, <1>7
  <2>3. CASE principals' = principals /\ sessions' = [sessions EXCEPT ![o.user] = held]
    BY <2>1, <2>3, <1>5
  <2> QED BY <1>4, <2>2, <2>3
<1>10. CachesSound'
  BY <1>1, <1>4, <1>7, <1>9 DEF CachesSound
<1>11. PICK x \in Strands : Becomes(r, x) /\ StrandSound(x, now) /\ x.pc # "sync"
  BY <1>4, <1>6, <1>8
<1>12. strands' \in [Requests -> Strands] /\ StrandsSound'
  BY <1>1, <1>4, <1>11, StrandPlaced
<1>13. MembershipsSound'
  BY <1>1, <1>4, <1>11, LeavingSync
<1>14. IdentityShape'
  BY <1>1, <1>4, <1>9, <1>12 DEF IdentityShape
<1> QED BY <1>10, <1>12, <1>13, <1>14 DEF IdentityInv

LEMMA FailingKeeps ==
    ASSUME IdentityInv, NEW r \in Requests, StatementFailsFor(r)
    PROVE  IdentityInv'
<1>1. IdentityShape /\ StrandsSound /\ MembershipsSound /\ now \in Nat
  BY DEF IdentityInv, IdentityShape
<1>2. Idle \in Strands /\ StrandSound(Idle, now) /\ Idle.pc = "idle"
  BY <1>1, IdleSound
<1>3. strands[r].user \in Users
  BY <1>1 DEF StatementFailsFor, StrandsSound, StrandSound
<1>4. /\ Becomes(r, Idle)
      /\ UNCHANGED <<now, reported, caches, sessions, roles, memberships, lastLogin>>
      /\ entangled \subseteq entangled' /\ entangled' \subseteq Users
      /\ strands[r].pc = "sync" => strands[r].user \in entangled'
  BY <1>1, <1>3 DEF StatementFailsFor, At, tables, IdentityShape
<1>5. MembershipsSound'
  BY <1>1, <1>2, <1>4, LeavingSync
<1>6. memberships' \in [Users -> SUBSET Groups] /\ lastLogin' \in [Users -> SUBSET Groups]
  BY <1>1, <1>4 DEF IdentityShape
<1> QED BY <1>2, <1>4, <1>5, <1>6, LoginMoves

\* A gate, a handler or an administrator's route ends the strand or lets it drive.
LEMMA GatesKeep ==
    ASSUME IdentityInv, NEW r \in Requests,
           \/ AssumeGate(r) \/ HandlerEnds(r)
           \/ GrantAssumableDruid(r) \/ RevokeAssumableDruid(r)
           \/ GrantGroupAssumableDruid(r) \/ RevokeGroupAssumableDruid(r)
    PROVE  IdentityInv'
<1>1. IdentityShape /\ StrandsSound /\ CachesSound /\ MembershipsSound /\ now \in Nat
  BY DEF IdentityInv, IdentityShape
<1>2. Idle \in Strands /\ StrandSound(Idle, now) /\ Idle.pc = "idle"
  BY <1>1, IdleSound
<1> DEFINE d == [Idle EXCEPT !.pc = "driving"]
<1>3. d = [pc |-> "driving", user |-> Anybody, token |-> "browser", began |-> 0,
           vouched |-> 0, groups |-> {}, left |-> {}, roles |-> {}]
  BY DEF Idle
<1> HIDE DEF d
<1>4. d \in Strands /\ StrandSound(d, now) /\ d.pc = "driving"
  BY <1>1, <1>3 DEF Strands, Places, StrandSound, LoggingIn
<1>5. /\ strands[r].pc \in {"resolved", "driving"}
      /\ Becomes(r, Idle) \/ Becomes(r, d)
      /\ UNCHANGED <<now, reported, claims, principals, sessions, roles, memberships, lastLogin, entangled>>
  BY DEF AssumeGate, HandlerEnds, GrantAssumableDruid, RevokeAssumableDruid,
     GrantGroupAssumableDruid, RevokeGroupAssumableDruid, AdminRoute, At, caches, tables, history, d
<1>6. PICK x \in Strands : Becomes(r, x) /\ StrandSound(x, now) /\ x.pc # "sync"
  BY <1>2, <1>4, <1>5
<1>7. CachesSound' /\ roles' \in [Users -> SUBSET Roles]
      /\ claims' \in [Bearers -> [expiresAt : Nat, vouched : Nat, groups : SUBSET Groups]]
  BY <1>1, <1>5 DEF CachesSound, IdentityShape
<1> QED BY <1>5, <1>6, <1>7, OneStrandMoves

------------------------------------------------------------------------------

\* Time, the provider and users who log out leave the strands alone.
LEMMA AroundKeeps ==
    ASSUME IdentityInv, (\E u \in Users : Logout(u)) \/ ClockTicks \/ ProviderChanges
    PROVE  IdentityInv'
<1>1. IdentityShape /\ StrandsSound /\ CachesSound /\ MembershipsSound
  BY DEF IdentityInv
<1>2. /\ UNCHANGED <<claims, principals, roles, memberships, strands, lastLogin, entangled>>
      /\ now' \in Nat /\ now <= now'
  BY <1>1 DEF Logout, ClockTicks, ProviderChanges, caches, tables, history, IdentityShape
<1>3. reported' \in [Users -> SUBSET Groups] /\ sessions' \in [Users -> SUBSET Roles]
  BY <1>1 DEF Logout, ClockTicks, ProviderChanges, IdentityShape
<1>4. IdentityShape'
  BY <1>1, <1>2, <1>3 DEF IdentityShape
<1>5. StrandsSound'
  <2>1. \A r \in Requests : strands[r].began \in Nat
    BY <1>1 DEF IdentityShape, Strands
  <2> QED BY <1>1, <1>2, <2>1 DEF StrandsSound, StrandSound, IdentityShape
<1>6. CachesSound'
  BY <1>1, <1>2 DEF CachesSound
<1>7. MembershipsSound'
  BY <1>1, <1>2 DEF MembershipsSound, Syncing, At
<1> QED BY <1>4, <1>5, <1>6, <1>7 DEF IdentityInv

LEMMA RestartKeeps == IdentityInv /\ IdentityRestart => IdentityInv'
<1> SUFFICES ASSUME IdentityInv, IdentityRestart PROVE IdentityInv'
  OBVIOUS
<1>1. IdentityShape /\ StrandsSound /\ CachesSound /\ MembershipsSound /\ now \in Nat
  BY DEF IdentityInv, IdentityShape
<1>2. Idle \in Strands /\ StrandSound(Idle, now) /\ Idle.pc = "idle"
  BY <1>1, IdleSound
<1>3. UNCHANGED <<now, reported, sessions, roles, memberships, lastLogin>>
  BY DEF IdentityRestart, tables
<1>4. IdentityShape'
  BY <1>1, <1>2, <1>3 DEF IdentityShape, IdentityRestart, NoClaims, NoPrincipal
<1>5. StrandsSound'
  BY <1>2, <1>3 DEF IdentityRestart, StrandsSound
<1>6. CachesSound'
  BY DEF IdentityRestart, CachesSound, NoClaims, NoPrincipal
<1>7. \A u \in Users : Syncing(u)' = {}
  BY <1>2 DEF IdentityRestart, Syncing, At
<1>8. \A u \in Users \ entangled' : u \notin entangled /\ Syncing(u) = {}
  BY DEF IdentityRestart
<1>9. MembershipsSound'
  BY <1>1, <1>3, <1>7, <1>8 DEF MembershipsSound
<1> QED BY <1>4, <1>5, <1>6, <1>9 DEF IdentityInv

LEMMA IdentityInductive == AccessSpec => []IdentityInv
<1>1. AccessInit => IdentityInv
  BY IdentityStarts DEF AccessInit
<1>2. IdentityInv /\ [AccessNext]_avars => IdentityInv'
  <2> SUFFICES ASSUME IdentityInv, [AccessNext]_avars PROVE IdentityInv'
    OBVIOUS
  <2>1. CASE IdentityNext
    <3>1. CASE \E r \in Requests :
                  \/ ResolveSession(r) \/ ResolveBearer(r) \/ ProviderVouches(r)
                  \/ ProviderRefuses(r) \/ LoginCallback(r)
      BY <3>1, ResolvingKeeps
    <3>2. CASE \E r \in Requests : GrantUserRole(r) \/ GrantAdminRole(r)
      BY <3>2, RolesKeep
    <3>3. CASE \E r \in Requests : ClearMemberships(r) \/ InsertMembership(r)
      BY <3>3, ClearingKeeps, InsertingKeeps
    <3>4. CASE \E r \in Requests : LoginEnds(r) \/ StatementFailsFor(r)
      BY <3>4, EndingKeeps, FailingKeeps
    <3>5. CASE \E r \in Requests :
                  \/ AssumeGate(r) \/ HandlerEnds(r)
                  \/ GrantAssumableDruid(r) \/ RevokeAssumableDruid(r)
                  \/ GrantGroupAssumableDruid(r) \/ RevokeGroupAssumableDruid(r)
      BY <3>5, GatesKeep
    <3>6. CASE (\E u \in Users : Logout(u)) \/ ClockTicks \/ ProviderChanges \/ IdentityRestart
      BY <3>6, AroundKeeps, RestartKeeps
    <3> QED BY <2>1, <3>1, <3>2, <3>3, <3>4, <3>5, <3>6 DEF IdentityNext
  <2>2. CASE UNCHANGED idvars
    BY <2>2 DEF idvars, tables, caches, history, IdentityInv, IdentityShape, StrandsSound,
       CachesSound, MembershipsSound, Syncing, At
  <2>3. CASE UNCHANGED avars
    BY <2>2, <2>3 DEF avars
  <2> QED BY <2>1, <2>2, <2>3 DEF AccessNext
<1> QED BY <1>1, <1>2, PTL DEF AccessSpec

\* A bearer token is let in on what the provider said less than two lifetimes
\* before the request began (accessTokenValidator in front of it, the
\* middleware's cache of principals in front of that).
THEOREM BearersAreVouchedFor == AccessSpec => []VouchedForRecently
<1>1. IdentityInv => VouchedForRecently
  BY DEF IdentityInv, StrandsSound, StrandSound, VouchedForRecently
<1> QED BY <1>1, IdentityInductive, PTL

\* The druids in a user's reach are those of his grants and of the groups of his
\* last login, whatever deletions, insertions and logins come between
\* (syncUserGroups, isDruidAssumable).
THEOREM ReachFollowsTheLogins == AccessSpec => []ReachIsTheLogins
<1>1. IdentityInv => ReachIsTheLogins
  <2> SUFFICES ASSUME IdentityInv, NEW u \in Users \ entangled, Syncing(u) = {}
               PROVE  {d \in DruidIds : Assumable(u, d)} =
                        {d \in DruidIds : <<u, d>> \in userGrants
                                \/ \E g \in lastLogin[u] : <<g, d>> \in groupGrants}
    BY DEF ReachIsTheLogins
  <2>1. memberships[u] = lastLogin[u]
    BY DEF IdentityInv, MembershipsSound
  <2> QED BY <2>1 DEF Assumable
<1> QED BY <1>1, IdentityInductive, PTL

------------------------------------------------------------------------------
(***************************************************************************)
(* The tokens and the ley lines                                            *)
(***************************************************************************)

USE TokensAssumption, LinesAssumption

------------------------------------------------------------------------------

\* An access made from permissions, a time and two numbers is a record of the
\* store's shape (POST /tools/access and the default tokens).
LEMMA AccessType ==
    ASSUME NEW g \in SUBSET Permissions, NEW e \in Nat, NEW l \in Int, NEW u \in Nat
    PROVE  Access(g, e, l, u) \in AccessRecords
BY DEF Access, AccessRecords

\* The default tokens are well formed and below their limits, whenever the
\* process starts.
LEMMA DefaultsSound ==
    ASSUME NEW time \in Nat
    PROVE  LET d == DefaultToolAccess(time)
           IN  /\ DOMAIN d \subseteq Tokens
               /\ d \in [DOMAIN d -> AccessRecords]
               /\ \A t \in DOMAIN d : d[t].maxUsageCount # 0 =>
                      d[t].currentUsageCount < d[t].maxUsageCount
<1> DEFINE d == DefaultToolAccess(time)
<1>1. DOMAIN d = {plainToken, mcpToken}
  BY DEF DefaultToolAccess
<1>2. ASSUME NEW t \in DOMAIN d PROVE d[t] \in AccessRecords
  <2>1. /\ Access(Permissions, time + 1, DefaultLimit, DefaultUses) \in AccessRecords
        /\ Access(Permissions, time + 2, 0, DefaultUses) \in AccessRecords
    BY AccessType
  <2> QED BY <1>1, <2>1 DEF DefaultToolAccess
<1>3. ASSUME NEW t \in DOMAIN d, d[t].maxUsageCount # 0
      PROVE  d[t].currentUsageCount < d[t].maxUsageCount
  BY <1>1, <1>3 DEF DefaultToolAccess, Access
<1>4. d \in [DOMAIN d -> AccessRecords]
  BY <1>2 DEF DefaultToolAccess
<1> QED BY <1>1, <1>2, <1>3, <1>4

\* What the uses and the limits of one access must satisfy.
Within(a) ==
    a.maxUsageCount # 0 =>
        /\ a.currentUsageCount <= a.maxUsageCount \/ a.currentUsageCount <= 1
        /\ a.status = "granted" => a.currentUsageCount < a.maxUsageCount \/ a.currentUsageCount <= 0

\* The invariant of the tokens; it is inductive as it stands.
ToolInv == ToolTypeOK /\ UsageWithinLimit

\* The same, in the terms of one access.
LEMMA WithinMeans ==
    ASSUME ToolTypeOK
    PROVE  UsageWithinLimit <=> \A t \in Issued : Within(toolAccess[t])
BY DEF ToolTypeOK, AccessRecords, UsageWithinLimit, UsedUp, Within

\* A call that stores, for every token, a sound record in the place of the old
\* one keeps the invariant.
LEMMA StoresSound ==
    ASSUME ToolInv, NEW changed, Stores(changed),
           \A t \in Issued : changed[t] \in AccessRecords /\ Within(changed[t])
    PROVE  ToolInv'
<1>1. Issued' = Issued /\ clock' = clock
  BY DEF Stores, Issued
<1>2. \A t \in Issued : toolAccess'[t] = changed[t]
  BY DEF Stores
<1>3. ToolTypeOK'
  BY <1>1, <1>2 DEF ToolInv, ToolTypeOK, Stores, Issued
<1>4. UsageWithinLimit'
  BY <1>1, <1>2, <1>3 DEF ToolTypeOK, AccessRecords, UsageWithinLimit, UsedUp, Within
<1> QED BY <1>3, <1>4 DEF ToolInv

\* The records of a sound store are sound, and marking one expired keeps it so.
LEMMA RecordsSound ==
    ASSUME ToolInv, NEW t \in Issued
    PROVE  /\ toolAccess[t] \in AccessRecords /\ Within(toolAccess[t])
           /\ Expired[t] \in AccessRecords /\ Within(Expired[t])
<1>1. toolAccess[t] \in AccessRecords
  BY DEF ToolInv, ToolTypeOK
<1>2. Within(toolAccess[t])
  BY WithinMeans DEF ToolInv
<1>3. Expired[t] = [toolAccess[t] EXCEPT !.status = "expired"]
  BY DEF Expired
<1>4. Expired[t] \in AccessRecords /\ Within(Expired[t])
  BY <1>1, <1>2, <1>3 DEF AccessRecords, Within
<1> QED BY <1>1, <1>2, <1>4

\* One use more of a sound granted access leaves a sound one: it is revoked
\* exactly when the limit is reached.
LEMMA UsedSound ==
    ASSUME NEW a \in AccessRecords, Within(a), a.status = "granted"
    PROVE  Used(a) \in AccessRecords /\ Within(Used(a))
<1> DEFINE used == [a EXCEPT !.currentUsageCount = a.currentUsageCount + 1]
           revoked == [used EXCEPT !.status = "revoked"]
           last == used.maxUsageCount # 0 /\ used.currentUsageCount >= used.maxUsageCount
<1>1. Used(a) = IF last THEN revoked ELSE used
  BY DEF Used
<1>2. /\ used \in AccessRecords /\ used.maxUsageCount = a.maxUsageCount
      /\ used.currentUsageCount = a.currentUsageCount + 1 /\ used.status = "granted"
  BY DEF AccessRecords
<1> HIDE DEF used
<1>3. /\ revoked \in AccessRecords /\ revoked.maxUsageCount = a.maxUsageCount
      /\ revoked.currentUsageCount = a.currentUsageCount + 1 /\ revoked.status = "revoked"
  BY <1>2 DEF AccessRecords
<1>4. a.maxUsageCount \in Int /\ a.currentUsageCount \in Nat
  BY DEF AccessRecords
<1>5. a.maxUsageCount # 0 => a.currentUsageCount < a.maxUsageCount \/ a.currentUsageCount <= 0
  BY DEF Within
<1> HIDE DEF revoked
<1>6. CASE last
  BY <1>1, <1>2, <1>3, <1>4, <1>5, <1>6 DEF Within
<1>7. CASE ~last
  BY <1>1, <1>2, <1>4, <1>5, <1>7 DEF Within
<1> QED BY <1>6, <1>7

LEMMA ToolStep == ToolInv /\ [ToolNext]_tvars => ToolInv'
<1> SUFFICES ASSUME ToolInv, [ToolNext]_tvars PROVE ToolInv'
  OBVIOUS
<1> USE DEF ToolInv
<1>0. \A t \in Issued : toolAccess[t] \in AccessRecords /\ Within(toolAccess[t])
  BY RecordsSound
<1>1. ASSUME NEW selected \in SUBSET Issued, ListAccess(selected) PROVE ToolInv'
  <2> DEFINE changed == [t \in Issued |-> IF t \in selected /\ Granted(t) /\ OutOfTime(t)
                                          THEN Expired[t] ELSE toolAccess[t]]
  <2>1. \A t \in Issued : changed[t] \in AccessRecords /\ Within(changed[t])
    BY RecordsSound
  <2>2. Stores(changed)
    BY <1>1 DEF ListAccess
  <2> HIDE DEF changed
  <2> QED BY <2>1, <2>2, StoresSound
<1>2. ASSUME NEW t \in Tokens, RequestAccess(t) PROVE ToolInv'
  <2>1. PICK granted \in SUBSET Permissions, e \in Nat, limit \in Int :
          /\ t \notin Issued
          /\ toolAccess' = [u \in Issued \union {t} |->
                IF u = t THEN Access(granted, e, limit, 0) ELSE toolAccess[u]]
          /\ clock' = clock
    <3>1. PICK allowed \in Allowed, requested \in SUBSET Permissions,
               duration \in Durations, limit \in Limits :
            /\ t \notin Issued
            /\ toolAccess' = [u \in Issued \union {t} |->
                  IF u = t THEN Access(ValidatePermissions(allowed, requested), clock + duration, limit, 0)
                  ELSE toolAccess[u]]
            /\ clock' = clock
      BY <1>2 DEF RequestAccess
    <3>2. /\ ValidatePermissions(allowed, requested) \in SUBSET Permissions
          /\ clock + duration \in Nat /\ limit \in Int
      BY DEF ValidatePermissions, ToolTypeOK
    <3> QED BY <3>1, <3>2
  <2>2. Access(granted, e, limit, 0) \in AccessRecords
    BY AccessType
  <2>3. Within(Access(granted, e, limit, 0))
    BY DEF Within, Access
  <2>4. Issued' = Issued \union {t}
    BY <2>1 DEF Issued
  <2>5. \A u \in Issued' : toolAccess'[u] \in AccessRecords /\ Within(toolAccess'[u])
    BY <1>0, <2>1, <2>2, <2>3, <2>4
  <2>6. ToolTypeOK'
    BY <2>1, <2>4, <2>5 DEF ToolTypeOK, Issued
  <2>7. UsageWithinLimit'
    BY <2>5, <2>6 DEF ToolTypeOK, AccessRecords, UsageWithinLimit, UsedUp, Within
  <2> QED BY <2>6, <2>7
<1>3. ASSUME NEW t \in Tokens, GetAccess(t) PROVE ToolInv'
  BY <1>1, <1>3 DEF GetAccess
<1>4. ASSUME NEW t \in Tokens, RevokeAccess(t) PROVE ToolInv'
  <2> DEFINE changed == [toolAccess EXCEPT ![t].status = "revoked"]
  <2>1. \A u \in Issued : changed[u] \in AccessRecords /\ Within(changed[u])
    BY <1>0 DEF AccessRecords, Within, Issued
  <2>2. Stores(changed)
    BY <1>4 DEF RevokeAccess
  <2> HIDE DEF changed
  <2> QED BY <2>1, <2>2, StoresSound
<1>5. ASSUME NEW t \in Tokens, UseRefused(t) PROVE ToolInv'
  <2> DEFINE changed == [toolAccess EXCEPT ![t] = Expired[t]]
  <2>0. t \in Issued
    BY <1>5 DEF UseRefused, Granted
  <2>1. \A u \in Issued : changed[u] \in AccessRecords /\ Within(changed[u])
    BY <1>0, <2>0, RecordsSound DEF Issued
  <2>2. Stores(changed)
    BY <1>5 DEF UseRefused
  <2> HIDE DEF changed
  <2> QED BY <2>1, <2>2, StoresSound
<1>6. ASSUME NEW t \in Tokens, RecordUsage(t) PROVE ToolInv'
  <2> DEFINE changed == [toolAccess EXCEPT ![t] = Used(toolAccess[t])]
  <2>0. t \in Issued /\ toolAccess[t].status = "granted"
    BY <1>6 DEF RecordUsage, Granted
  <2>1. Used(toolAccess[t]) \in AccessRecords /\ Within(Used(toolAccess[t]))
    BY <1>0, <2>0, UsedSound
  <2>2. \A u \in Issued : changed[u] \in AccessRecords /\ Within(changed[u])
    BY <1>0, <2>0, <2>1 DEF Issued
  <2>3. Stores(changed)
    BY <1>6 DEF RecordUsage
  <2> HIDE DEF changed
  <2> QED BY <2>2, <2>3, StoresSound
<1>7. ASSUME NEW t \in Tokens, DeleteAccess(t) PROVE ToolInv'
  <2>1. /\ toolAccess' = [u \in Issued \ {t} |-> toolAccess[u]]
        /\ clock' = clock
    BY <1>7 DEF DeleteAccess
  <2>2. Issued' = Issued \ {t}
    BY <2>1 DEF Issued
  <2>3. \A u \in Issued' : toolAccess'[u] \in AccessRecords /\ Within(toolAccess'[u])
    BY <1>0, <2>1, <2>2
  <2>4. ToolTypeOK'
    BY <2>1, <2>2, <2>3 DEF ToolTypeOK, Issued
  <2>5. UsageWithinLimit'
    BY <2>3, <2>4 DEF ToolTypeOK, AccessRecords, UsageWithinLimit, UsedUp, Within
  <2> QED BY <2>4, <2>5
<1>8. CASE ToolTick
  BY <1>8 DEF ToolTick, ToolTypeOK, UsageWithinLimit, UsedUp, Issued
<1>9. CASE UNCHANGED tvars
  BY <1>9 DEF tvars, ToolTypeOK, UsageWithinLimit, UsedUp, Issued
<1> QED BY <1>1, <1>2, <1>3, <1>4, <1>5, <1>6, <1>7, <1>8, <1>9 DEF ToolNext

------------------------------------------------------------------------------

\* The default lines are well formed.
LEMMA LinesInitSound == LinesInit => LinesTypeOK
BY DEF LinesInit, LinesTypeOK, DefaultLeyLines, Line, Lines, LineRecords, LineStatuses, Priorities

LEMMA LinesStep == LinesTypeOK /\ [LinesNext]_lvars => LinesTypeOK'
<1> SUFFICES ASSUME LinesTypeOK, [LinesNext]_lvars PROVE LinesTypeOK'
  OBVIOUS
<1>1. ASSUME NEW l \in LineIds, CreateLeyLine(l) PROVE LinesTypeOK'
  <2>1. PICK source \in LineRealms, target \in LineRealms, both \in BOOLEAN, priority \in Priorities :
          leyLines' = [k \in Lines \union {l} |->
                IF k = l THEN Line(source, target, "connecting", both, priority) ELSE leyLines[k]]
    BY <1>1 DEF CreateLeyLine
  <2>2. Lines' = Lines \union {l} /\ connecting' = connecting \union {l}
    BY <1>1, <2>1 DEF CreateLeyLine, Lines
  <2>3. Line(source, target, "connecting", both, priority) \in LineRecords
    BY DEF Line, LineRecords, LineStatuses
  <2> QED BY <2>1, <2>2, <2>3 DEF LinesTypeOK
<1>2. ASSUME NEW l \in LineIds, Established(l) PROVE LinesTypeOK'
  <2>1. Lines' = Lines /\ connecting' \subseteq LineIds
    BY <1>2 DEF Established, Lines, LinesTypeOK
  <2>2. \A k \in Lines : leyLines'[k] \in LineRecords
    BY <1>2 DEF Established, LinesTypeOK, LineRecords, LineStatuses
  <2> QED BY <1>2, <2>1, <2>2 DEF LinesTypeOK, Established
<1>3. ASSUME NEW l \in LineIds, UpdateLeyLine(l) PROVE LinesTypeOK'
  <2>1. PICK status \in LineStatuses, both \in BOOLEAN, priority \in Priorities :
          \/ leyLines' = [leyLines EXCEPT ![l].status = status]
          \/ leyLines' = [leyLines EXCEPT ![l].status = status, ![l].bidirectional = both,
                                          ![l].priority = priority]
    BY <1>3 DEF UpdateLeyLine
  <2>2. Lines' = Lines /\ connecting' = connecting /\ l \in Lines
    BY <1>3, <2>1 DEF UpdateLeyLine, Lines
  <2>3. CASE leyLines' = [leyLines EXCEPT ![l].status = status]
    BY <2>2, <2>3 DEF LinesTypeOK, LineRecords, Lines
  <2>4. CASE leyLines' = [leyLines EXCEPT ![l].status = status, ![l].bidirectional = both,
                                          ![l].priority = priority]
    BY <2>2, <2>4 DEF LinesTypeOK, LineRecords, Lines
  <2> QED BY <2>1, <2>3, <2>4
<1>4. ASSUME NEW l \in LineIds, DeleteLeyLine(l) PROVE LinesTypeOK'
  <2>1. /\ leyLines' = [k \in Lines \ {l} |-> leyLines[k]]
        /\ connecting' = connecting
    BY <1>4 DEF DeleteLeyLine
  <2>2. Lines' = Lines \ {l}
    BY <2>1 DEF Lines
  <2> QED BY <2>1, <2>2 DEF LinesTypeOK
<1>5. CASE UNCHANGED lvars
  BY <1>5 DEF lvars, LinesTypeOK, Lines
<1> QED BY <1>1, <1>2, <1>3, <1>4, <1>5 DEF LinesNext

------------------------------------------------------------------------------

Inv == ToolInv /\ LinesTypeOK

\* Both invariants hold of the process, through all its restarts.
LEMMA InvInductive == Spec => []Inv
<1>1. Init => Inv
  <2> SUFFICES ASSUME Init PROVE Inv
    OBVIOUS
  <2>1. LinesTypeOK
    BY LinesInitSound DEF Init
  <2>2. ToolInv
    BY DefaultsSound DEF Init, ToolInit, ToolInv, ToolTypeOK, UsageWithinLimit, UsedUp,
       Issued, DefaultToolAccess, Access
  <2> QED BY <2>1, <2>2 DEF Inv
<1>2. Inv /\ [Next]_vars => Inv'
  <2> SUFFICES ASSUME Inv, [Next]_vars PROVE Inv'
    OBVIOUS
  <2>1. CASE ToolNext /\ UNCHANGED lvars
    BY <2>1, ToolStep, LinesStep DEF Inv
  <2>2. CASE LinesNext /\ UNCHANGED tvars
    BY <2>2, ToolStep, LinesStep DEF Inv
  <2>3. CASE RestartProcess
    <3>1. LinesInit'
      BY <2>3 DEF RestartProcess, LinesInit
    <3>2. LinesTypeOK'
      BY <3>1, LinesInitSound, PTL
    <3>3. clock \in Nat /\ clock' = clock /\ toolAccess' = DefaultToolAccess(clock)
      BY <2>3 DEF RestartProcess, Inv, ToolInv, ToolTypeOK
    <3>4. ToolTypeOK'
      BY <3>3, DefaultsSound DEF ToolTypeOK, Issued
    <3>5. \A t \in Issued' : toolAccess'[t].maxUsageCount # 0 =>
             toolAccess'[t].currentUsageCount < toolAccess'[t].maxUsageCount
      BY <3>3, DefaultsSound DEF Issued
    <3>6. UsageWithinLimit'
      BY <3>4, <3>5 DEF UsageWithinLimit, UsedUp, ToolTypeOK, AccessRecords
    <3> QED BY <3>2, <3>4, <3>6 DEF Inv, ToolInv
  <2>4. CASE UNCHANGED vars
    BY <2>4, ToolStep, LinesStep DEF Inv, vars
  <2> QED BY <2>1, <2>2, <2>3, <2>4 DEF Next
<1> QED BY <1>1, <1>2, PTL DEF Spec

\* The stores keep their shape.
THEOREM RecordsTypeOK == Spec => []TypeOK
<1>1. Inv => TypeOK
  BY DEF Inv, ToolInv, TypeOK
<1> QED BY <1>1, InvInductive, PTL

\* No token is used beyond its limit (POST /tools/access/:accessToken/usage),
\* which may be any number the route is sent.
THEOREM TokensWithinLimit == Spec => []UsageWithinLimit
<1>1. Inv => UsageWithinLimit
  BY DEF Inv, ToolInv
<1> QED BY <1>1, InvInductive, PTL

\* An ended token, one used up among them, stays as it is until it is deleted or
\* the process restarts.
THEOREM TokensStayEnded == Spec => EndedStaysEnded
<1>1. Inv /\ [Next]_vars => [RestartProcess \/ \A t \in Tokens : StaysEnded(t)]_vars
  <2> SUFFICES ASSUME Inv, [Next]_vars, ~RestartProcess, NEW t \in Tokens, t \in Issued, ~Granted(t)
               PROVE  t \notin Issued' \/ toolAccess'[t] = toolAccess[t]
    BY DEF StaysEnded, Inv, ToolInv, UsageWithinLimit, UsedUp, Granted
  <2>1. ASSUME NEW changed, Stores(changed), changed[t] = toolAccess[t]
        PROVE  toolAccess'[t] = toolAccess[t]
    BY <2>1 DEF Stores
  <2>2. CASE \E selected \in SUBSET Issued : ListAccess(selected)
    BY <2>1, <2>2 DEF ListAccess
  <2>3. ASSUME NEW u \in Tokens,
               RequestAccess(u) \/ GetAccess(u) \/ RevokeAccess(u)
                 \/ UseRefused(u) \/ RecordUsage(u) \/ DeleteAccess(u)
        PROVE  t \notin Issued' \/ toolAccess'[t] = toolAccess[t]
    <3>1. CASE RequestAccess(u)
      BY <3>1 DEF RequestAccess
    <3>2. CASE GetAccess(u)
      BY <2>1, <3>2 DEF GetAccess, ListAccess
    <3>3. CASE RevokeAccess(u)
      <4>1. u # t
        BY <3>3 DEF RevokeAccess
      <4> QED BY <3>3, <4>1 DEF RevokeAccess, Stores, Issued
    <3>4. CASE UseRefused(u)
      <4>1. u # t
        BY <3>4 DEF UseRefused
      <4> QED BY <3>4, <4>1 DEF UseRefused, Stores, Issued
    <3>5. CASE RecordUsage(u)
      <4>1. u # t
        BY <3>5 DEF RecordUsage
      <4> QED BY <3>5, <4>1 DEF RecordUsage, Stores, Issued
    <3>6. CASE DeleteAccess(u)
      BY <3>6 DEF DeleteAccess, Issued
    <3> QED BY <2>3, <3>1, <3>2, <3>3, <3>4, <3>5, <3>6
  <2>4. CASE ToolTick \/ UNCHANGED tvars
    BY <2>4 DEF ToolTick, tvars
  <2> QED BY <2>2, <2>3, <2>4 DEF Next, ToolNext, vars
<1> QED BY <1>1, InvInductive, PTL DEF Spec, EndedStaysEnded
=============================================================================
