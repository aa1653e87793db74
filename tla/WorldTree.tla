------------------------------ MODULE WorldTree ------------------------------
(***************************************************************************)
(* The reading side of the WorldTree: the queries of WorldTreeQueryService *)
(* against the tables that coordination and ingestion write.  A query is   *)
(* one statement, but an answer is often put together from several, a page *)
(* is one of many, and a search's realms are resolved before it is made.   *)
(* What a statement reads may have changed since the one before.           *)
(***************************************************************************)
EXTENDS Integers, Sequences, SequencesExt, FiniteSetsExt

CONSTANTS
    Sessions,      \* the ids of coordination sessions
    Realms,        \* slugs; which of them exist is up to the administrator
    Steady,        \* the realms that are not deleted
    Documents,
    Refs,          \* the references to realms that clients come with
    Scopings,      \* bound: the sets of references a document is scoped by
    Searches,      \* bound: the searches that agents make
    Readers,
    Statuses,      \* of sessions; they stand for the columns that updates write
    Windows,       \* bound: the times of start asked for, each as the sessions
                   \* that start in it
    Limit,         \* the page size asked for
    TimelineLimit, \* DEFAULT_CONTRIBUTION_LIMIT
    MaxRows,       \* bound on contributions
    MaxHits        \* bound on what a knowledge gap counts

ASSUME SteadyAssumption == Steady \subseteq Realms
ASSUME LimitAssumption ==
    /\ Limit \in Nat \ {0} /\ TimelineLimit \in Nat \ {0}
    /\ MaxRows \in Nat /\ MaxHits \in Nat
ASSUME ListsAssumption == "in_progress" \in Statuses /\ Windows \subseteq SUBSET Sessions

VARIABLES
    sessions,   \* coordination_sessions: the ids, newest start first; no two
                \* start at the same instant
    statuses,   \* and their status
    contributions,   \* how many contributions of one agent there are, inside and
                     \* outside the time that is asked for
    realms,     \* the surrogate each slug has; 0: no such realm
    scopes,     \* worldtree_item_scopes of each document, as stored
    scoped,     \* history: the realms each document was last scoped to
    setting,    \* setItemScopes, on its way
    gaps,       \* knowledge_gaps
    recorded,   \* history: how many searches that found nothing were recorded
    reader      \* what each reader is at

wtvars == <<sessions, statuses, contributions, realms, scopes, scoped, setting, gaps, recorded, reader>>

\* A realm is referred to by its slug (number 0) or by one of its surrogates.
Ref(realm, number) == [realm |-> realm, number |-> number]
Global == "global"
Everywhere == Ref(Global, 0)
ASSUME GlobalAssumption == Global \notin Realms
\* A surrogate is of a realm as it is or as it may come back.
ASSUME RefsAssumption ==
    /\ Refs \subseteq [realm : Realms, number : 0 .. 2]
    /\ \A ref \in Refs : ref.realm \in Steady => ref.number # 2
ASSUME InputsAssumption ==
    /\ Scopings \subseteq SUBSET Refs
    /\ Searches \subseteq [grants : SUBSET Realms, research : SUBSET Realms,
                          explicit : SUBSET Refs, present : SUBSET Realms]

NotSetting == [pc |-> "off", document |-> Global, refs |-> {}]
NotReading == [pc |-> "off"]
AnyStatus == "any"

WorldTreeInit ==
    /\ sessions = << >>
    /\ statuses = [s \in Sessions |-> "none"]
    /\ contributions = [inside |-> 0, outside |-> 0]
    /\ realms = [r \in Realms |-> 1]
    /\ scopes = [d \in Documents |-> {Everywhere}]
    /\ scoped = [d \in Documents |-> {Global}]
    /\ setting = NotSetting
    /\ gaps = {} /\ recorded = 0
    /\ reader = [i \in Readers |-> NotReading]

------------------------------------------------------------------------------
(***************************************************************************)
(* What is written meanwhile                                               *)
(***************************************************************************)

\* The row of a session that begins, started now.
EnsureSessionRecord(s) ==
    /\ s \notin Range(sessions)
    /\ sessions' = <<s>> \o sessions
    /\ statuses' = [statuses EXCEPT ![s] = "in_progress"]
    /\ UNCHANGED <<contributions, realms, scopes, scoped, setting, gaps, recorded, reader>>

\* Which sessions a list shows, by their status and their start.
Fits(filter, s, status) == filter.status \in {AnyStatus, status} /\ s \in filter.window
Shows(filter, s) == Fits(filter, s, statuses[s])

\* The place of the k-th row among those shown.
Rank(filter, k) == Cardinality({s \in {sessions[l] : l \in 1 .. k} : Shows(filter, s)})

\* A list that is being read loses the k-th row; those behind it move forward,
\* past a reader that has its place behind it.
Loses(x, k) ==
    [x EXCEPT !.there = @ \ {sessions[k]}, !.shifted = @ \/ Rank(x.filter, k) <= x.offset]

\* A row that is there keeps its start, and takes any other status.
Updated(s, status) ==
    /\ UNCHANGED sessions
    /\ \E k \in DOMAIN sessions :
          /\ sessions[k] = s
          /\ reader' = [i \in Readers |->
                IF /\ reader[i].pc = "paging"
                   /\ Shows(reader[i].filter, s) /\ ~ Fits(reader[i].filter, s, status)
                THEN Loses(reader[i], k) ELSE reader[i]]

\* The start of a session whose first record failed is in the past.
Inserted(s) ==
    /\ s \notin Range(sessions)
    /\ \E i \in 1 .. Len(sessions) + 1 : sessions' = InsertAt(sessions, i, s)
    /\ UNCHANGED reader

PersistSession(s) ==
    /\ \E status \in Statuses :
          /\ statuses' = [statuses EXCEPT ![s] = status]
          /\ Updated(s, status) \/ Inserted(s)
    /\ UNCHANGED <<contributions, realms, scopes, scoped, setting, gaps, recorded>>

Made == contributions.inside + contributions.outside

\* A row that is recorded again keeps its agent and its time.
ContributionRecorded ==
    /\ Made < MaxRows
    /\ \/ contributions' = [contributions EXCEPT !.inside = @ + 1]
       \/ contributions' = [contributions EXCEPT !.outside = @ + 1]
    /\ UNCHANGED <<sessions, statuses, realms, scopes, scoped, setting, gaps, recorded, reader>>

\* A realm created again under its slug has another surrogate.
RealmChanges(r) ==
    /\ r \notin Steady
    /\ \/ realms[r] = 1 /\ realms' = [realms EXCEPT ![r] = 0]
       \/ realms[r] = 0 /\ realms' = [realms EXCEPT ![r] = 2]
    /\ UNCHANGED <<sessions, statuses, contributions, scopes, scoped, setting, gaps, recorded, reader>>

------------------------------------------------------------------------------
(***************************************************************************)
(* Scopes                                                                  *)
(***************************************************************************)

Known(ref) == realms[ref.realm] # 0 /\ ref.number \in {0, realms[ref.realm]}

\* A surrogate of a realm that is there becomes its slug; what is unknown stays.
Canonicalise(refs) == {IF Known(ref) THEN Ref(ref.realm, 0) ELSE ref : ref \in refs}

SetItemScopesCalled(d, refs) ==
    /\ setting = NotSetting
    /\ setting' = [pc |-> "asserted", document |-> d, refs |-> refs]
    /\ \A ref \in refs : Known(ref)      \* assertRealmsExist; otherwise it throws
    /\ UNCHANGED <<sessions, statuses, contributions, realms, scopes, scoped, gaps, recorded, reader>>

ScopesCanonicalised ==
    /\ setting.pc = "asserted"
    /\ setting' = [setting EXCEPT !.pc = "canonical", !.refs = Canonicalise(@)]
    /\ UNCHANGED <<sessions, statuses, contributions, realms, scopes, scoped, gaps, recorded, reader>>

\* The old scopes are deleted and the new ones inserted in one transaction.
ScopesReplaced ==
    /\ setting.pc = "canonical"
    /\ LET given == IF setting.refs = {} THEN {Everywhere} ELSE setting.refs
       IN  /\ scopes' = [scopes EXCEPT ![setting.document] = given]
           /\ scoped' = [scoped EXCEPT ![setting.document] =
                 IF setting.refs = {} THEN {Global} ELSE {ref.realm : ref \in setting.refs}]
    /\ setting' = NotSetting
    /\ UNCHANGED <<sessions, statuses, contributions, realms, gaps, recorded, reader>>

ScopesRefused ==
    /\ setting # NotSetting
    /\ setting' = NotSetting
    /\ UNCHANGED <<sessions, statuses, contributions, realms, scopes, scoped, gaps, recorded, reader>>

------------------------------------------------------------------------------
(***************************************************************************)
(* Views: the statements of an answer, in the order they are awaited;      *)
(* those of one set are made together                                      *)
(***************************************************************************)

ListSessions == <<{"realms"}, {"sessions"}>>
GetSession == <<{"session"}, {"contributions"}, {"publications"}>>
GetSessionPublications == <<{"publications"}>>
FindSessionsByPrompt == <<{"sessions"}>>
SearchContributions == <<{"contributions"}>>
AggregateContributions == <<{"counts"}>>
CompareSessions == <<{"session", "session of the other"}, {"counts", "counts of the other"}>>
AgentSummary == <<{"counts"}>>
TimelineFirst == SearchContributions \o AgentSummary    \* mutant
AgentActivity == AgentSummary \o SearchContributions
ListModes == <<{"modes"}>>
WorldTreeHealth == <<{"statuses", "counts", "agents", "publications"}>>
ListDocuments == <<{"realms"}, {"documents"}>>
GetDocument == <<{"document"}, {"renderings"}>>
ReadDocument == <<{"document"}>>
SearchDocuments == <<{"documents"}>>
GetDocumentChunks == <<{"chunks", "count of chunks"}>>
GetKnowledgeGaps == <<{"gaps"}>>

Views == {ListSessions, GetSession, GetSessionPublications, FindSessionsByPrompt,
          SearchContributions, AggregateContributions, CompareSessions, AgentSummary,
          AgentActivity, ListModes, WorldTreeHealth, ListDocuments, GetDocument,
          ReadDocument, SearchDocuments, GetDocumentChunks, GetKnowledgeGaps}

\* Without its first row, an answer is 404.
Keyed == {"session", "document"}

ReaderGoes(i, state) ==
    /\ reader' = [reader EXCEPT ![i] = state]
    /\ UNCHANGED <<sessions, statuses, contributions, realms, scopes, scoped, setting, gaps, recorded>>

\* since and until, where a view takes them.
Windowed == {AgentActivity, SearchContributions}

ViewAsked(i, view, windowed) ==
    /\ reader[i].pc = "off"
    /\ windowed => view \in Windowed
    /\ ReaderGoes(i, [pc |-> "viewing", view |-> view, windowed |-> windowed, left |-> view,
                      counted |-> 0, shown |-> 0])

\* The rows of the time asked for, newest first, up to the limit; a summary
\* counts those of all times.
Shown(windowed) ==
    LET n == IF windowed THEN contributions.inside ELSE Made
    IN  IF n <= TimelineLimit THEN n ELSE TimelineLimit

\* The statements of the first set, one after the other.
StatementAnswered(i) ==
    /\ reader[i].pc = "viewing"
    /\ \E s \in Head(reader[i].left) :
         LET rest == Head(reader[i].left) \ {s}
             left == (IF rest = {} THEN << >> ELSE <<rest>>) \o Tail(reader[i].left)
         IN  ReaderGoes(i,
                [reader[i] EXCEPT !.pc = IF left = << >> THEN "viewed" ELSE "viewing",
                                  !.left = left,
                                  !.counted = IF s = "counts" THEN Made ELSE @,
                                  !.shown = IF s = "contributions" THEN Shown(reader[i].windowed) ELSE @])

NotFound(i) ==
    /\ reader[i].pc = "viewing" /\ Head(reader[i].left) \cap Keyed # {}
    /\ ReaderGoes(i, NotReading)

\* A client reads the index page by page, all of it or what a filter selects.
PagingBegins(i, filter) ==
    /\ reader[i].pc = "off"
    /\ ReaderGoes(i, [pc |-> "paging", filter |-> filter, offset |-> 0, seen |-> {}, shifted |-> FALSE,
                      there |-> {s \in Range(sessions) : Shows(filter, s)}])

\* ORDER BY started_at DESC LIMIT OFFSET, of the rows that match by now.
PageAnswered(i) ==
    /\ reader[i].pc = "paging"
    /\ LET x == reader[i]
           matching == {k \in DOMAIN sessions : Shows(x.filter, sessions[k])}
           page == {k \in matching : Rank(x.filter, k) \in x.offset + 1 .. x.offset + Limit}
           full == \E k \in matching : Rank(x.filter, k) >= x.offset + Limit
       IN  ReaderGoes(i, [x EXCEPT !.pc = IF full THEN "paging" ELSE "paged",
                                   !.offset = @ + Limit,
                                   !.seen = @ \union {sessions[k] : k \in page}])

------------------------------------------------------------------------------
(***************************************************************************)
(* Searches                                                                *)
(***************************************************************************)

Slugs(rs) == {Ref(r, 0) : r \in rs}

UnclampedScope(s) ==    \* mutant: the session's research realms are taken as they are
    s.research \union (s.explicit \cap Slugs(s.grants)) \union s.current

\* resolveSearchScope: an agent's grants bound what its session and its call
\* ask for; where it is present is in scope anyway.
ResolveSearchScope(s) == ((s.research \union s.explicit) \cap Slugs(s.grants)) \union s.current

\* A search by an agent, with its grants as the running prompt has read them, or
\* one over the API for realms, or for none: then everything is searched.
SearchAsked(i, asked) ==
    /\ reader[i].pc = "off"
    /\ ReaderGoes(i, [pc |-> "resolving", grants |-> asked.grants, explicit |-> asked.explicit,
                      research |-> Slugs(asked.research), current |-> Slugs(asked.present)])

SearchAskedByApi(i, refs, unscoped) ==
    /\ reader[i].pc = "off"
    /\ ReaderGoes(i, [pc |-> "canonical", by |-> IF unscoped THEN "anyone" ELSE "api",
                      may |-> {ref.realm : ref \in refs}, realms |-> refs])

\* resolveRealmIds of the call's realms, then resolveSearchScope.
SearchResolved(i) ==
    /\ reader[i].pc = "resolving"
    /\ LET s == [reader[i] EXCEPT !.explicit = Canonicalise(@)]
           may == {r \in s.grants : \E ref \in s.research \union s.explicit : ref.realm = r}
                      \union {ref.realm : ref \in s.current}
       IN  ReaderGoes(i, [pc |-> "canonical", by |-> "agent", may |-> may,
                          realms |-> ResolveSearchScope(s)])

\* searchChunksLexical and searchChunksByVector canonicalise once more.
SearchCanonicalised(i) ==
    /\ reader[i].pc = "canonical"
    /\ ReaderGoes(i, [reader[i] EXCEPT !.pc = "querying", !.realms = Canonicalise(@)])

InScope(d, refs) == scopes[d] \cap ({Everywhere} \union refs) # {}

\* What the search is after, whatever its realms are called.
Wanted(i) == {d \in Documents : scoped[d] \cap ({Global} \union (reader[i].may \cap Steady)) # {}}
Allowed(i) == {d \in Documents : scoped[d] \cap ({Global} \union reader[i].may) # {}}

\* One statement matches, ranks and filters.  Which chunks match is up to the
\* text: none of them, or all.
SearchAnswered(i, match) ==
    /\ reader[i].pc = "querying"
    /\ LET s == reader[i]
           matching == IF match THEN Documents ELSE {}
           found == {d \in matching : s.by = "anyone" \/ InScope(d, s.realms)}
           missed == s.by = "agent" /\ found = {}
       IN  ReaderGoes(i, [pc |-> IF missed THEN "missed" ELSE "found",
                          realms |-> IF missed THEN s.realms ELSE {},
                          lost |-> (matching \cap Wanted(i)) \ found,
                          leaked |-> IF s.by = "anyone" THEN {} ELSE found \ Allowed(i)])

------------------------------------------------------------------------------
(***************************************************************************)
(* Knowledge gaps                                                          *)
(***************************************************************************)

\* new Set(...).sort()
SortedRealms(order) == SetToSeq(Range(order))

UpsertGap(key) ==
    LET old == {g \in gaps : g.realms = key}
    IN  IF old = {} THEN gaps \union {[realms |-> key, hits |-> 1, status |-> "open"]}
        ELSE (gaps \ old) \union
                 {[g EXCEPT !.hits = @ + 1, !.status = IF @ = "dismissed" THEN @ ELSE "open"] : g \in old}

\* In whichever order resolveSearchScope collected the realms.
RecordKnowledgeGap(i) ==
    /\ reader[i].pc = "missed" /\ recorded < MaxHits
    /\ \E order \in SetToSeqs({ref.realm : ref \in reader[i].realms}) :
          gaps' = UpsertGap(SortedRealms(order))
    /\ recorded' = recorded + 1
    /\ reader' = [reader EXCEPT ![i] = NotReading]
    /\ UNCHANGED <<sessions, statuses, contributions, realms, scopes, scoped, setting>>

ResolveKnowledgeGap(g, status) ==
    /\ g \in gaps
    /\ gaps' = (gaps \ {g}) \union {[g EXCEPT !.status = status]}
    /\ UNCHANGED <<sessions, statuses, contributions, realms, scopes, scoped, setting, recorded, reader>>

------------------------------------------------------------------------------

\* An answer is out, or a statement failed: 500, and a gap is only logged.
ReadEnds(i) ==
    /\ reader[i].pc # "off"
    /\ ReaderGoes(i, NotReading)

Writing ==
    \/ \E s \in Sessions : EnsureSessionRecord(s) \/ PersistSession(s)
    \/ ContributionRecorded
    \/ \E r \in Realms : RealmChanges(r)
    \/ \E d \in Documents, refs \in Scopings : SetItemScopesCalled(d, refs)
    \/ ScopesCanonicalised \/ ScopesReplaced \/ ScopesRefused
    \/ \E g \in gaps, status \in {"addressed", "dismissed"} : ResolveKnowledgeGap(g, status)

Reading(i) ==
    \/ \E view \in Views, windowed \in BOOLEAN : ViewAsked(i, view, windowed)
    \/ StatementAnswered(i) \/ NotFound(i)
    \/ \E status \in Statuses \union {AnyStatus}, window \in Windows :
          PagingBegins(i, [status |-> status, window |-> window])
    \/ PageAnswered(i)
    \/ \E asked \in Searches : SearchAsked(i, asked)
    \/ \E ref \in Refs, all \in BOOLEAN : SearchAskedByApi(i, {ref}, all)
    \/ SearchResolved(i) \/ SearchCanonicalised(i) \/ \E match \in BOOLEAN : SearchAnswered(i, match)
    \/ RecordKnowledgeGap(i) \/ ReadEnds(i)

WorldTreeNext == Writing \/ \E i \in Readers : Reading(i)

WorldTreeSpec == WorldTreeInit /\ [][WorldTreeNext]_wtvars

------------------------------------------------------------------------------

\* Of what matched when a client began to read on and matched throughout, no
\* session is skipped between two pages, whatever is added meanwhile, unless a
\* row before the client's place stopped matching and moved the others past it.
\* And an agent's activity, asked for without a time, counts no contribution
\* that its timeline does not show, until the timeline is full.
ReadsMissNothing ==
    \A i \in Readers :
        /\ reader[i].pc = "paged" /\ ~ reader[i].shifted => reader[i].there \subseteq reader[i].seen
        /\ reader[i].pc = "viewed" /\ reader[i].view = AgentActivity /\ ~ reader[i].windowed =>
              reader[i].counted <= reader[i].shown \/ reader[i].shown = TimelineLimit

\* A search finds all that is scoped to the realms it is for, by whatever name
\* they were given to either, and nothing of another realm: not while scopes
\* are replaced, nor while realms go and come back with another surrogate.
FindsItsScope ==
    \A i \in Readers :
        reader[i].pc \in {"found", "missed"} => reader[i].lost = {} /\ reader[i].leaked = {}
==============================================================================
