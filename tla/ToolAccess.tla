----------------------------- MODULE ToolAccess -----------------------------
(***************************************************************************)
(* The access tokens of /tools/access: granted for a time and a number of  *)
(* uses, revoked by an administrator or by their last use, found expired   *)
(* when somebody looks.  They live in the memory of the process.           *)
(***************************************************************************)
EXTENDS Integers

CONSTANTS
    Tokens,
    Permissions,
    Allowed,        \* the sets of permissions some tool may be given
    Durations,      \* what requests ask for, in ticks of the clock
    Limits,         \* maxUsageCount of requests, 0 for none: nobody checks it, so it
                    \* may be negative, and a fraction stands as the next integer,
                    \* which uses reach when they reach the fraction
    plainToken, mcpToken,           \* the two default tokens
    DefaultLimit, DefaultUses,      \* of the plain one
    MaxUses,        \* bound: uses recorded on one token
    MaxTime         \* bound: the clock

ASSUME TokensAssumption ==
    /\ {plainToken, mcpToken} \subseteq Tokens /\ plainToken # mcpToken
    /\ Allowed \subseteq SUBSET Permissions
    /\ Durations \subseteq Nat \ {0} /\ Limits \subseteq Int
    /\ DefaultLimit \in Nat /\ DefaultUses \in Nat /\ DefaultUses < DefaultLimit
    /\ MaxUses \in Nat /\ MaxTime \in Nat

VARIABLES toolAccess, clock

tvars == <<toolAccess, clock>>

Issued == DOMAIN toolAccess

Access(granted, expiresAt, limit, uses) ==
    [status |-> "granted", grantedPermissions |-> granted, expiresAt |-> expiresAt,
     maxUsageCount |-> limit, currentUsageCount |-> uses]

\* The tokens a process that starts now holds.
DefaultToolAccess(now) ==
    [t \in {plainToken, mcpToken} |->
        IF t = plainToken THEN Access(Permissions, now + 1, DefaultLimit, DefaultUses)
        ELSE Access(Permissions, now + 2, 0, DefaultUses)]

ToolInit == clock = 0 /\ toolAccess = DefaultToolAccess(0)

Granted(t) == t \in Issued /\ toolAccess[t].status = "granted"

\* A token is good up to and including its last moment.
OutOfTime(t) == toolAccess[t].expiresAt < clock

Stores(changed) ==
    /\ toolAccess' = [t \in Issued |-> changed[t]]
    /\ UNCHANGED clock

Expired == [t \in Issued |-> [toolAccess[t] EXCEPT !.status = "expired"]]

------------------------------------------------------------------------------

ValidatePermissions(allowed, requested) == requested \intersect allowed

\* POST /tools/access: refused when nothing of what is requested can be granted.
RequestAccess(t) ==
    \E allowed \in Allowed, requested \in SUBSET Permissions, duration \in Durations, limit \in Limits :
        LET granted == ValidatePermissions(allowed, requested)
        IN  /\ t \notin Issued /\ granted # {}
            /\ toolAccess' = [u \in Issued \union {t} |->
                                 IF u = t THEN Access(granted, clock + duration, limit, 0)
                                 ELSE toolAccess[u]]
            /\ UNCHANGED clock

ListExpiresAny(selected) ==
    Stores([t \in Issued |-> IF t \in selected /\ OutOfTime(t) THEN Expired[t] ELSE toolAccess[t]])    \* mutant

\* GET /tools/access: of those the filters selected, the granted tokens that
\* ran out of time are marked.
ListAccess(selected) ==
    Stores([t \in Issued |-> IF t \in selected /\ Granted(t) /\ OutOfTime(t)
                             THEN Expired[t] ELSE toolAccess[t]])

\* GET /tools/access/:accessToken
GetAccess(t) == t \in Issued /\ ListAccess({t})

\* PUT /tools/access/:accessToken/revoke: any granted token, out of time or not.
RevokeAccess(t) ==
    /\ Granted(t)
    /\ Stores([toolAccess EXCEPT ![t].status = "revoked"])

\* POST /tools/access/:accessToken/usage of a token that is out of time.
UseRefused(t) ==
    /\ Granted(t) /\ OutOfTime(t)
    /\ Stores([toolAccess EXCEPT ![t] = Expired[t]])

UsedOver(access) ==
    LET used == [access EXCEPT !.currentUsageCount = @ + 1]    \* mutant
    IN  IF used.maxUsageCount # 0 /\ used.currentUsageCount > used.maxUsageCount
        THEN [used EXCEPT !.status = "revoked"] ELSE used

\* One use more; the last one a token is good for revokes it.
Used(access) ==
    LET used == [access EXCEPT !.currentUsageCount = @ + 1]
    IN  IF used.maxUsageCount # 0 /\ used.currentUsageCount >= used.maxUsageCount
        THEN [used EXCEPT !.status = "revoked"] ELSE used

\* POST /tools/access/:accessToken/usage
RecordUsage(t) ==
    /\ Granted(t) /\ ~OutOfTime(t)
    /\ toolAccess[t].currentUsageCount < MaxUses
    /\ Stores([toolAccess EXCEPT ![t] = Used(toolAccess[t])])

\* DELETE /tools/access/:accessToken: only of a token that is not granted.
DeleteAccess(t) ==
    /\ t \in Issued /\ ~Granted(t)
    /\ toolAccess' = [u \in Issued \ {t} |-> toolAccess[u]]
    /\ UNCHANGED clock

ToolTick == clock < MaxTime /\ clock' = clock + 1 /\ UNCHANGED toolAccess

ToolNext ==
    \/ \E selected \in SUBSET Issued : ListAccess(selected)
    \/ \E t \in Tokens :
          \/ RequestAccess(t) \/ GetAccess(t) \/ RevokeAccess(t)
          \/ UseRefused(t) \/ RecordUsage(t) \/ DeleteAccess(t)
    \/ ToolTick

ToolSpec == ToolInit /\ [][ToolNext]_tvars

------------------------------------------------------------------------------

AccessRecords ==
    [status : {"granted", "revoked", "expired"}, grantedPermissions : SUBSET Permissions,
     expiresAt : Nat, maxUsageCount : Int, currentUsageCount : Nat]

\* The shape of the state.
ToolTypeOK == clock \in Nat /\ Issued \subseteq Tokens /\ toolAccess \in [Issued -> AccessRecords]

\* Used as often as its limit allows, or once when the limit allows none.
UsedUp(t) ==
    LET a == toolAccess[t]
    IN  a.maxUsageCount # 0 /\ a.currentUsageCount > 0 /\ a.currentUsageCount >= a.maxUsageCount

\* A token with a limit is never used more often than the limit allows, but for
\* the first use that a limit below one does not prevent, and is no longer
\* granted once it was used that often, in whatever order uses, revocations,
\* listings and the clock come.
UsageWithinLimit ==
    \A t \in Issued :
        LET a == toolAccess[t]
        IN  a.maxUsageCount # 0 =>
                /\ a.currentUsageCount <= a.maxUsageCount \/ a.currentUsageCount <= 1
                /\ a.status = "granted" => ~UsedUp(t)

\* A token that was used up, revoked or found expired is so for good, and counts
\* no use any more: it changes only by being deleted.
StaysEnded(t) ==
    t \in Issued /\ (UsedUp(t) \/ ~Granted(t)) => t \notin Issued' \/ toolAccess'[t] = toolAccess[t]
==============================================================================
