------------------------------- MODULE Realms -------------------------------
(***************************************************************************)
(* RealmService: a map of realms in memory in front of the table realms,   *)
(* and the memo that translates the surrogate ids of the table, which some *)
(* callers still hold, to the slugs the application speaks.                *)
(*                                                                         *)
(* A call runs without interruption up to a statement it awaits and goes   *)
(* on from its answer; what the database does lies between the two.        *)
(***************************************************************************)
EXTENDS Naturals, FiniteSets

CONSTANTS
    Slugs,
    Kinds,          \* what a field that only creation writes may hold: its type
    Servers,        \* the configured MCP servers, for all that updates write
    Residents,      \* agents that may be in a realm's roster
    Clients,        \* bound: calls in flight at once
    MaxSurrogates   \* bound: rows ever inserted

ASSUME SurrogatesAssumption == MaxSurrogates \in Nat \ {0}
ASSUME SlugsAssumption == Slugs # {}

VARIABLES
    realms,     \* realms: what the service lists, by slug
    memo,       \* uuidToSlug
    rows,       \* the table, by slug, each with its surrogate id
    inserted,   \* surrogates the column default has given out
    calls,      \* the call each client has in flight
    retyped,    \* history: slugs whose type a PUT changed, in memory alone
    suspect     \* history: slugs and surrogates of calls that overlapped, lost
                \* an answer, or failed where the code goes on

vars == <<realms, memo, rows, inserted, calls, retyped, suspect>>

Surrogates == 1 .. MaxSurrogates
Realm == [kind : Kinds, servers : SUBSET Servers, agents : SUBSET Residents]
Listed == DOMAIN realms
Stored == DOMAIN rows

Put(f, k, v) == [j \in DOMAIN f \union {k} |-> IF j = k THEN v ELSE f[j]]
Without(f, ks) == [j \in DOMAIN f \ ks |-> f[j]]

\* What a request may ask of a realm, of its roster and of its servers.
RealmRequests ==
    {[op |-> op] : op \in {"get", "delete"}} \union [op : {"retype"}, kind : Kinds]
RosterRequests == [op : {"enlist", "dismiss"}, agent : Residents]
ServerRequests ==
    [op : {"assign"}, servers : SUBSET Servers]
      \union [op : {"addServer", "removeServer"}, server : Servers]
Requests == RealmRequests \union RosterRequests \union ServerRequests

Idle == [pc |-> "idle"]
NoRealms == [s \in {} |-> Idle]

Init ==
    /\ realms = NoRealms
    /\ memo = NoRealms
    /\ rows = NoRealms
    /\ inserted = 0
    /\ calls = [c \in Clients |-> Idle]
    /\ retyped = {}
    /\ suspect = {}

------------------------------------------------------------------------------
(***************************************************************************)
(* Calls in flight.  What one touches is what another must leave alone for *)
(* both to be as if they had come one after the other.                     *)
(***************************************************************************)

InFlight == {c \in Clients : calls[c].pc # "idle"}

Touches(x) == IF x.pc \in {"resolving", "loading"} THEN Slugs ELSE {x.key}

Overlap(x, y) == Touches(x) \intersect Touches(y) # {} /\ {x.pc, y.pc} # {"resolving"}

\* Client c goes on with call x: from now on x and those it overlaps are not alone.
GoesOn(c, x) ==
    LET others == {d \in InFlight \ {c} : Overlap(x, calls[d])}
    IN  calls' = [d \in Clients |->
                     IF d = c THEN [x EXCEPT !.alone = @ /\ others = {}]
                     ELSE IF d \in others THEN [calls[d] EXCEPT !.alone = FALSE]
                     ELSE calls[d]]

Ends(c, harmed) ==
    /\ calls' = [calls EXCEPT ![c] = Idle]
    /\ suspect' = suspect \union harmed

\* What a call that overlapped another may have left wrong.
HarmOf(x) == IF x.alone THEN {} ELSE Touches(x)

------------------------------------------------------------------------------
(***************************************************************************)
(* getRealm, updateRealm, deleteRealm and the calls on a realm's roster    *)
(* and servers                                                             *)
(***************************************************************************)

\* The fields a request changes in a realm in memory: every field of the body.
Changed(realm, r) ==
    CASE r.op = "retype"       -> [realm EXCEPT !.kind = r.kind]
      [] r.op = "enlist"       -> [realm EXCEPT !.agents = @ \union {r.agent}]
      [] r.op = "dismiss"      -> [realm EXCEPT !.agents = @ \ {r.agent}]
      [] r.op = "assign"       -> [realm EXCEPT !.servers = r.servers]
      [] r.op = "addServer"    -> [realm EXCEPT !.servers = @ \union {r.server}]
      [] r.op = "removeServer" -> [realm EXCEPT !.servers = @ \ {r.server}]
      [] OTHER                 -> realm

\* And those its UPDATE sets in the row: what only creation writes is not among them.
Written(body, r, new) ==
    CASE r.op = "retype" -> body
      [] r.op \in {"enlist", "dismiss"} -> [body EXCEPT !.agents = new.agents]
      [] OTHER -> [body EXCEPT !.servers = new.servers]

NothingToDo(key, r) ==
    key \in Listed =>
        \/ r.op = "get"
        \/ /\ r.op \in {"enlist", "dismiss", "addServer", "removeServer"}
           /\ Changed(realms[key], r) = realms[key]

\* The memo entries that resolve to a slug go when its realm does.
ForgetsNothing(known, key) == known    \* mutant
ForgetLegacyIdsFor(known, key) == Without(known, {u \in DOMAIN known : known[u] = key})

\* The call has its key: memory changes at once, and the row is asked to follow.
Proceeds(c, x, known) ==
    LET key == x.key
        r == x.request
        asks == [x EXCEPT !.snapshot = realms[key]]
    IN  IF NothingToDo(key, r)
        THEN /\ calls' = [calls EXCEPT ![c] = Idle]
             /\ memo' = known
             /\ UNCHANGED realms
        ELSE IF r.op = "delete"
        THEN /\ GoesOn(c, [asks EXCEPT !.pc = "deleting"])
             /\ memo' = ForgetLegacyIdsFor(known, key)
             /\ realms' = Without(realms, {key})
        ELSE /\ GoesOn(c, [asks EXCEPT !.pc = "updating", !.new = Changed(realms[key], r)])
             /\ memo' = known
             /\ realms' = [realms EXCEPT ![key] = Changed(@, r)]

Call(r, key) ==
    [pc |-> "new", request |-> r, key |-> key, snapshot |-> Idle, new |-> Idle,
     loaded |-> NoRealms, answer |-> "none", alone |-> TRUE]

CallBySlug(c, r, s) ==
    /\ c \notin InFlight
    /\ Proceeds(c, Call(r, s), memo)
    /\ UNCHANGED <<rows, inserted, retyped, suspect>>

CallByMemo(c, r, u) ==
    /\ c \notin InFlight
    /\ u \in DOMAIN memo
    /\ Proceeds(c, Call(r, memo[u]), memo)
    /\ UNCHANGED <<rows, inserted, retyped, suspect>>

CallBySurrogate(c, r, u) ==
    /\ c \notin InFlight
    /\ u \notin DOMAIN memo
    /\ GoesOn(c, [Call(r, u) EXCEPT !.pc = "resolving"])
    /\ UNCHANGED <<realms, memo, rows, inserted, retyped, suspect>>

Answers(c, answer) == calls' = [calls EXCEPT ![c].answer = answer]
Awaits(c, pc) == calls[c].pc = pc /\ calls[c].answer = "none"
Answered(c, pc) == calls[c].pc = pc /\ calls[c].answer # "none"

\* SELECT slug_id ... WHERE id = $1
SlugSelected(c) ==
    /\ Awaits(c, "resolving")
    /\ \/ \E s \in Stored : rows[s].id = calls[c].key /\ Answers(c, s)
       \/ Answers(c, "failed")    \* no such row, or an error, which is swallowed
    /\ UNCHANGED <<realms, memo, rows, inserted, retyped, suspect>>

SlugResolved(c) ==
    LET x == calls[c] IN
    /\ Answered(c, "resolving")
    /\ \/ /\ x.answer = "failed"
          /\ Ends(c, {})
          /\ UNCHANGED <<realms, memo>>
       \/ /\ x.answer # "failed"
          /\ Proceeds(c, [x EXCEPT !.key = x.answer, !.answer = "none"], Put(memo, x.key, x.answer))
          /\ suspect' = suspect \union (IF x.alone THEN {} ELSE {x.key})
    /\ UNCHANGED <<rows, inserted, retyped>>

------------------------------------------------------------------------------
\* The statements.  Each may take effect and its answer be lost, which the code
\* cannot tell from an error; a row that is gone is as good as an error.
RowUpdated(c) ==
    LET x == calls[c] IN
    /\ Awaits(c, "updating")
    /\ \/ /\ x.key \in Stored
          /\ rows' = [rows EXCEPT ![x.key].body = Written(@, x.request, x.new)]
          /\ \E answer \in {"done", "lost"} : Answers(c, answer)
       \/ Answers(c, "failed") /\ UNCHANGED rows
    /\ UNCHANGED <<realms, memo, inserted, retyped, suspect>>

\* deleteRealm's statements run on connections of their own, whatever becomes
\* of the transaction around them: its failing to commit is a lost answer too.
RowDeleted(c) ==
    /\ Awaits(c, "deleting")
    /\ \/ /\ rows' = Without(rows, {calls[c].key})
          /\ \E answer \in {"done", "lost"} : Answers(c, answer)
       \/ Answers(c, "failed") /\ UNCHANGED rows
    /\ UNCHANGED <<realms, memo, inserted, retyped, suspect>>

\* The roster's routes change the array of the realm in memory itself, which the
\* realm that is put back shares.
InPlace(r) == r.op \in {"enlist", "dismiss"}

KeptAfterFailure(x) == realms    \* mutant: no rolling back
RolledBack(x) ==
    Put(realms, x.key, IF InPlace(x.request) THEN [x.snapshot EXCEPT !.agents = x.new.agents]
                       ELSE x.snapshot)

UpdateEnds(c) ==
    LET x == calls[c] IN
    /\ Answered(c, "updating")
    /\ realms' = IF x.answer = "done" THEN realms ELSE RolledBack(x)
    /\ retyped' = IF x.answer = "done" /\ x.request.op = "retype" THEN retyped \union {x.key} ELSE retyped
    /\ Ends(c, HarmOf(x) \union
               (IF x.answer = "lost" \/ (x.answer # "done" /\ InPlace(x.request)) THEN {x.key} ELSE {}))
    /\ UNCHANGED <<memo, rows, inserted>>

DeleteEnds(c) ==
    LET x == calls[c] IN
    /\ Answered(c, "deleting")
    /\ realms' = IF x.answer = "done" THEN realms ELSE RolledBack(x)
    /\ Ends(c, HarmOf(x) \union (IF x.answer = "lost" THEN {x.key} ELSE {}))
    /\ UNCHANGED <<memo, rows, inserted, retyped>>

------------------------------------------------------------------------------
(***************************************************************************)
(* createRealm: an upsert that leaves the roster of a realm stored before  *)
(* as it is, and whose failure is logged and no more                       *)
(***************************************************************************)

CreateRealm(c, s, servers, kind) ==
    /\ c \notin InFlight
    /\ GoesOn(c, [Call([op |-> "create"], s) EXCEPT
                    !.pc = "creating",
                    !.new = [kind |-> kind, servers |-> servers, agents |-> {}]])
    /\ UNCHANGED <<realms, memo, rows, inserted, retyped, suspect>>

\* What the row holds after the upsert is what it answers with.
RowUpserted(c) ==
    LET x == calls[c]
        body == [x.new EXCEPT !.agents = IF x.key \in Stored THEN rows[x.key].body.agents ELSE {}]
    IN
    /\ Awaits(c, "creating")
    /\ \/ /\ \/ /\ x.key \in Stored
                /\ rows' = [rows EXCEPT ![x.key].body = body]
                /\ UNCHANGED inserted
             \/ /\ x.key \notin Stored
                /\ inserted < MaxSurrogates
                /\ inserted' = inserted + 1
                /\ rows' = Put(rows, x.key, [id |-> inserted + 1, body |-> body])
          /\ \/ calls' = [calls EXCEPT ![c] = [x EXCEPT !.answer = "done", !.new = body]]
             \/ Answers(c, "lost")
       \/ Answers(c, "failed") /\ UNCHANGED <<rows, inserted>>
    /\ UNCHANGED <<realms, memo, retyped, suspect>>

CreateEnds(c) ==
    LET x == calls[c] IN
    /\ Answered(c, "creating")
    /\ realms' = Put(realms, x.key, x.new)
    /\ retyped' = retyped \ {x.key}
    /\ Ends(c, IF x.answer = "done" THEN HarmOf(x) ELSE {x.key})
    /\ UNCHANGED <<memo, rows, inserted>>

------------------------------------------------------------------------------
(***************************************************************************)
(* refreshRealmCache, and a restart of the process                         *)
(***************************************************************************)

AllBodies == [s \in Stored |-> rows[s].body]

RefreshRealmCache(c) ==
    /\ c \notin InFlight
    /\ realms' = NoRealms
    /\ memo' = NoRealms
    /\ retyped' = {}
    /\ GoesOn(c, [Call([op |-> "refresh"], "all") EXCEPT !.pc = "loading"])
    /\ UNCHANGED <<rows, inserted, suspect>>

RowsSelected(c) ==
    /\ Awaits(c, "loading")
    /\ \/ calls' = [calls EXCEPT ![c].answer = "done", ![c].loaded = AllBodies]
       \/ Answers(c, "failed")
    /\ UNCHANGED <<realms, memo, rows, inserted, retyped, suspect>>

RefreshEnds(c) ==
    LET x == calls[c] IN
    /\ Answered(c, "loading")
    /\ \/ /\ x.answer = "done"
          /\ realms' = [s \in Listed \union DOMAIN x.loaded |->
                           IF s \in DOMAIN x.loaded THEN x.loaded[s] ELSE realms[s]]
          /\ calls' = [calls EXCEPT ![c] = Idle]
          /\ suspect' = IF x.alone THEN {} ELSE suspect \union Slugs
       \/ /\ x.answer = "failed"    \* swallowed: the service lists nothing
          /\ Ends(c, Slugs)
          /\ UNCHANGED realms
    /\ UNCHANGED <<memo, rows, inserted, retyped>>

Restart ==
    /\ realms' = AllBodies
    /\ memo' = NoRealms
    /\ calls' = [c \in Clients |-> Idle]
    /\ retyped' = {}
    /\ suspect' = {}
    /\ UNCHANGED <<rows, inserted>>

Next ==
    \/ \E c \in Clients :
          \/ \E r \in Requests :
                \/ \E s \in Slugs : CallBySlug(c, r, s)
                \/ \E u \in 1 .. inserted : CallByMemo(c, r, u) \/ CallBySurrogate(c, r, u)
          \/ SlugSelected(c) \/ SlugResolved(c)
          \/ RowUpdated(c) \/ UpdateEnds(c)
          \/ RowDeleted(c) \/ DeleteEnds(c)
          \/ \E s \in Slugs, servers \in SUBSET Servers, kind \in Kinds : CreateRealm(c, s, servers, kind)
          \/ RowUpserted(c) \/ CreateEnds(c)
          \/ RefreshRealmCache(c) \/ RowsSelected(c) \/ RefreshEnds(c)
    \/ Restart

Spec == Init /\ [][Next]_vars

------------------------------------------------------------------------------
(***************************************************************************)
(* Properties                                                              *)
(***************************************************************************)

\* The shape of the maps and the table.
TypeOK ==
    /\ Listed \subseteq Slugs /\ \A s \in Listed : realms[s] \in Realm
    /\ Stored \subseteq Slugs /\ \A s \in Stored : rows[s] \in [id : 1 .. inserted, body : Realm]
    /\ DOMAIN memo \subseteq 1 .. inserted /\ \A u \in DOMAIN memo : memo[u] \in Slugs
    /\ inserted \in 0 .. MaxSurrogates
    /\ retyped \subseteq Slugs
    /\ suspect \subseteq Slugs \union Surrogates

Settled(s) == s \notin suspect /\ \A c \in InFlight : s \notin Touches(calls[c])

\* The fields that updates write agree, and so does the type unless only memory has it.
SameBody(held, kept, s, loose) ==
    /\ held.servers = kept.servers /\ held.agents = kept.agents
    /\ s \in loose \/ held.kind = kept.kind

\* What the service lists is what is stored, and nothing else, in every field
\* that updates write: after updates, server and roster changes, creates over a
\* stored realm and deletes, alone on their realm, that failed at any statement,
\* too.  The type agrees as well until a PUT changes it, which reaches no row
\* before the realm is created again or read anew.  The exceptions are those the
\* code makes: calls on one realm that overlapped, a create or a refresh whose
\* failure was swallowed, a statement that took effect and whose answer was lost
\* (the delete's commit, too), and a roster change that failed, which is rolled
\* back to the array it had changed itself.
ListedIsStored ==
    \A s \in Slugs :
        Settled(s) =>
            /\ s \in Listed <=> s \in Stored
            /\ s \in Listed => SameBody(realms[s], rows[s].body, s, retyped)

\* A memoised surrogate leads to the row that has it, or to no row: a realm
\* deleted and created again is not reached by the id of the old one, save for
\* ids that were being resolved while another call was in flight.
MemoIsCurrentUnlessRaced ==
    \A u \in DOMAIN memo : u \in suspect \/ (memo[u] \in Stored => rows[memo[u]].id = u)
==============================================================================
