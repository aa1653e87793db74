-------------------------- MODULE Coordination_proofs --------------------------
(***************************************************************************)
(* Coordination sessions, for any number of sessions, plans, participants, *)
(* failures and kills.  The first part fits each session to the await its  *)
(* function is parked at, and shows that the service implements the        *)
(* lifecycle; the second is about what is recorded and published of it.    *)
(***************************************************************************)
EXTENDS Coordination, WellFoundedInduction, TLAPS

Statuses == {"none", "pending", "in_progress", "completed", "failed"}
Contents == {"none", "steps", "empty", "integrated", "concatenated", "synthesis"}
Kinds == AllEntryPoints \union {"none"}
Managers == {"agents", "content"}
Authors == {"step", "participant"} \X Nat
Writes == [step : Nat, author : Authors]

Persists == {"persistSession", "persistContributions", "publishing"}
Running == {"joining", "planning", "stepping", "asking", "integrating"} \union InStep
Settling == {"creative", "synthesizing"} \union Persists
Places == {"idle", "ended", "lost", "resolving"} \union Running \union Settling

ResultShape ==
    [present : BOOLEAN, contributions : Seq(Authors), content : Contents, publishedTo : BOOLEAN]

ObjectShape ==
    [kind : Kinds, coordinatorId : Coordinators \union {"none"}, status : Statuses,
     plan : Plans \union {<<>>}, executed : BOOLEAN, finalResult : ResultShape,
     stepOutputs : Seq(Nat), managers : SUBSET Managers]

FlowShape ==
    [pc : Places, i : Nat \ {0}, answers : Seq(Authors), todo : Seq(Writes),
     snap : [status : Statuses, content : Contents], republish : BOOLEAN]

\* What the place a session's function is parked at says of the session.
Place(o, f) ==
    /\ f.pc = "idle" => o.status = "none" \/ (o.status = "pending" /\ o.kind = "approve")
    /\ f.pc = "lost" => o.status = "none"
    /\ f.pc = "resolving" => o.status = "pending" /\ o.kind = "coordinate"
    /\ f.pc \in Running => o.status = "in_progress"
    /\ f.pc \in Settling => o.status = "completed"
    /\ f.pc = "ended" => o.status \in {"in_progress", "completed", "failed"}
    /\ f.pc = "joining" => o.kind = "orchestrate"
    /\ f.pc = "planning" => o.kind \in {"orchestrate", "coordinate"}
    /\ f.pc \in {"asking", "integrating"} => o.kind \in {"coordinate", "rerun"}
    /\ f.pc = "synthesizing" => o.kind \in {"coordinate", "approve"}
    /\ f.pc \in {"stepping", "creative"} \union InStep => o.kind \in {"orchestrate", "coordinate", "approve"}
    /\ f.pc \in Persists => o.kind # "none" /\ (f.republish => o.kind = "coordinate")
    /\ \/ o.status = "pending"
       \/ f.pc \in {"joining", "planning", "stepping"} \union InStep
       => o.managers = Managers

\* What the loops have done so far is on the session, and in its result.
Books(o) ==
    /\ \A j \in DOMAIN o.stepOutputs : o.stepOutputs[j] = j /\ j \in DOMAIN o.plan
    /\ o.executed => Len(o.stepOutputs) = Len(o.plan)
    /\ o.executed /\ o.finalResult.present =>
          o.finalResult.contributions = [j \in DOMAIN o.plan |-> <<"step", j>>]
    /\ ~ o.executed => Len(o.finalResult.contributions) <= NumParticipants
    /\ ~ o.finalResult.present => o.finalResult.contributions = <<>>

\* How far a loop is, by its variables and by the session.
Progress(o, f) ==
    /\ f.pc \in {"idle", "joining", "resolving", "planning"} => o.stepOutputs = <<>>
    /\ f.pc \in {"stepping"} \union InStep => Len(o.stepOutputs) = f.i - 1
    /\ f.pc \in InStep => f.i \in DOMAIN o.plan
    /\ f.pc = "asking" => Len(f.answers) < f.i /\ f.i <= NumParticipants + 1
    /\ f.pc = "integrating" => o.finalResult.present
    /\ f.pc = "persistContributions" => f.todo # <<>>
    /\ f.pc = "publishing" => f.todo = <<>>
    /\ f.pc \notin Settling \union {"ended"} => ~ o.executed

Fits(o, f) ==
    o \in ObjectShape /\ f \in FlowShape /\ Place(o, f) /\ Books(o) /\ Progress(o, f)

\* Every session is at one of its places; one that was never issued is at none;
\* one that is listed has an object; and the active steps are those of the
\* sessions inside a step.
Placed ==
    /\ session \in [Sessions -> ObjectShape]
    /\ flow \in [Sessions -> FlowShape]
    /\ \A s \in Sessions : Fits(session[s], flow[s])

Listed ==
    /\ sessions \subseteq issued /\ issued \subseteq Sessions
    /\ \A s \in Sessions \ issued : flow[s].pc = "idle" /\ session[s].status = "none"
    /\ \A s \in sessions : session[s].status # "none"

IInv == Placed /\ Listed /\ ActiveStepIsCurrent

------------------------------------------------------------------------------
(***************************************************************************)
(* Shapes                                                                  *)
(***************************************************************************)

LEMMA ParkedShape ==
    ASSUME NEW pc \in Places
    PROVE  Parked(pc) \in FlowShape /\ Parked(pc).pc = pc /\ ~ Parked(pc).republish
<1>1. <<>> \in Seq(Authors) /\ <<>> \in Seq(Writes)
  OBVIOUS
<1> QED
  BY <1>1 DEF Parked, FlowShape, Statuses, Contents

LEMMA ParkedPlace ==
    /\ \A pc : Parked(pc).pc = pc
    /\ \A o, republish : Persisting(o, republish).pc = "persistSession"
BY DEF Parked, Persisting

LEMMA NewShape ==
    ASSUME NEW kind \in Kinds, NEW c \in Coordinators \union {"none"}, NEW status \in Statuses,
           NEW plan \in Plans \union {<<>>}
    PROVE  NewSession(kind, c, status, plan) \in ObjectShape
<1>1. <<>> \in Seq(Authors) /\ <<>> \in Seq(Nat)
  OBVIOUS
<1> QED
  BY <1>1 DEF NewSession, NoResult, ObjectShape, ResultShape, Contents, Managers

\* Nothing was done for a new session yet.
LEMMA NewFits ==
    ASSUME NEW kind \in Kinds, NEW c \in Coordinators \union {"none"}, NEW status \in Statuses,
           NEW plan \in Plans \union {<<>>},
           NEW pc \in Places \ (Settling \union {"stepping", "integrating"} \union InStep),
           Place(NewSession(kind, c, status, plan), Parked(pc))
    PROVE  Fits(NewSession(kind, c, status, plan), Parked(pc))
<1> DEFINE o == NewSession(kind, c, status, plan)
<1>1. o \in ObjectShape
  BY NewShape
<1>2. o.executed = FALSE /\ o.stepOutputs = <<>> /\ o.finalResult = NoResult
  BY DEF NewSession
<1>3. Parked(pc) \in FlowShape
  BY ParkedShape
<1>4. Parked(pc).pc = pc /\ Parked(pc).i = 1 /\ Parked(pc).answers = <<>>
  BY DEF Parked
<1>5. NumParticipants \in Nat
  BY BoundsAssumption
<1>6. NoResult.contributions = <<>> /\ ~ NoResult.present
  BY DEF NoResult
<1> HIDE DEF o
<1>7. Books(o) /\ Progress(o, Parked(pc))
  BY <1>2, <1>4, <1>5, <1>6 DEF Books, Progress, Settling, Persists
<1> QED
  BY <1>1, <1>3, <1>7 DEF Fits, o

LEMMA NoSessionShape == NoSession \in ObjectShape /\ NoSession.status = "none"
<1>1. <<>> \in Seq(Authors) /\ <<>> \in Seq(Nat)
  OBVIOUS
<1> QED
  BY <1>1 DEF NoSession, NewSession, NoResult, ObjectShape, ResultShape, Contents, Managers, Statuses, Kinds

------------------------------------------------------------------------------
(***************************************************************************)
(* One session's step                                                      *)
(***************************************************************************)

LEMMA ParksBecomes ==
    ASSUME Placed, NEW s \in Sessions, NEW f, Parks(s, f)
    PROVE  Becomes(s, session[s], f)
BY DEF Placed, Parks, Becomes

\* One session's object and place change, to ones that fit.
LEMMA BecomesPlaced ==
    ASSUME Placed, NEW s \in Sessions, NEW o, NEW f, Becomes(s, o, f), Fits(o, f)
    PROVE  /\ Placed'
           /\ session'[s] = o /\ flow'[s] = f
           /\ \A t \in Sessions \ {s} : session'[t] = session[t] /\ flow'[t] = flow[t]
<1>1. /\ session'[s] = o /\ flow'[s] = f
      /\ \A t \in Sessions \ {s} : session'[t] = session[t] /\ flow'[t] = flow[t]
  BY DEF Placed, Becomes
<1>2. o \in ObjectShape /\ f \in FlowShape
  BY DEF Fits
<1>3. session' \in [Sessions -> ObjectShape] /\ flow' \in [Sessions -> FlowShape]
  BY <1>2 DEF Placed, Becomes
<1>4. \A t \in Sessions : Fits(session'[t], flow'[t])
  <2> TAKE t \in Sessions
  <2>1. CASE t = s
    BY <2>1, <1>1
  <2>2. CASE t # s
    BY <2>2, <1>1 DEF Placed
  <2> QED BY <2>1, <2>2
<1> QED
  BY <1>1, <1>3, <1>4 DEF Placed

\* The list of what is to be written.
LEMMA CollectShape ==
    ASSUME NEW o \in ObjectShape, Books(o)
    PROVE  Collect(o) \in Seq(Writes)
<1>1. o.stepOutputs \in Seq(Nat) /\ o.finalResult.contributions \in Seq(Authors)
  BY DEF ObjectShape, ResultShape
<1>2. o.plan \in Seq(Nat)
  <2>1. o.plan \in Plans \union {<<>>} /\ <<>> \in Seq(Nat \ {0})
    BY DEF ObjectShape
  <2>2. o.plan \in Seq(Nat \ {0})
    BY <2>1, PlansAssumption
  <2> QED BY <2>2
<1>3. CASE o.executed /\ o.stepOutputs # <<>>
  <2>1. \A j \in DOMAIN o.stepOutputs :
           [step |-> o.plan[o.stepOutputs[j]], author |-> <<"step", o.stepOutputs[j]>>] \in Writes
    BY SMTT(30), <1>1, <1>2 DEF Books, Writes, Authors
  <2>2. Len(o.stepOutputs) \in Nat /\ DOMAIN o.stepOutputs = 1 .. Len(o.stepOutputs)
    BY <1>1
  <2>3. [j \in DOMAIN o.stepOutputs |->
           [step |-> o.plan[o.stepOutputs[j]], author |-> <<"step", o.stepOutputs[j]>>]] \in Seq(Writes)
    BY <2>1, <2>2
  <2> QED
    BY <1>3, <2>3 DEF Collect
<1>4. CASE ~ (o.executed /\ o.stepOutputs # <<>>)
  <2>1. \A j \in DOMAIN o.finalResult.contributions :
           [step |-> j, author |-> o.finalResult.contributions[j]] \in Writes
    BY <1>1 DEF Writes
  <2> QED
    BY <1>1, <1>4, <2>1 DEF Collect
<1> QED BY <1>3, <1>4

LEMMA PersistingFits ==
    ASSUME NEW o \in ObjectShape, Books(o), o.status = "completed", o.kind # "none",
           NEW republish \in BOOLEAN, republish => o.kind = "coordinate"
    PROVE  Fits(o, Persisting(o, republish)) /\ Persisting(o, republish).pc = "persistSession"
<1> DEFINE f == Persisting(o, republish)
<1>1. f \in FlowShape
  <2>1. Collect(o) \in Seq(Writes)
    BY CollectShape
  <2>2. "persistSession" \in Places
    BY DEF Places, Settling, Persists
  <2>3. Parked("persistSession") \in FlowShape
    BY <2>2, ParkedShape
  <2>4. o.finalResult.content \in Contents
    BY DEF ObjectShape, ResultShape
  <2> QED BY <2>1, <2>3, <2>4 DEF Persisting, FlowShape, Statuses
<1>2. f.pc = "persistSession" /\ f.republish = republish
  BY DEF Persisting, Parked
<1> HIDE DEF f
<1>3. Place(o, f)
  BY <1>2 DEF Place, Running, Settling, Persists, InStep
<1>4. Progress(o, f)
  BY <1>2 DEF Progress, Settling, Persists, InStep
<1> QED
  BY <1>1, <1>2, <1>3, <1>4 DEF Fits, f

\* A step outside of plans' steps.
LEMMA Proceeds ==
    ASSUME IInv, NEW s \in Sessions, NEW o, NEW f, Becomes(s, o, f), Fits(o, f),
           o.status # "none", s \in issued, flow[s].pc \notin InStep, f.pc \notin InStep,
           UNCHANGED <<sessions, issued, activeSteps>>
    PROVE  IInv'
<1>1. /\ Placed'
      /\ session'[s] = o /\ flow'[s] = f
      /\ \A t \in Sessions \ {s} : session'[t] = session[t] /\ flow'[t] = flow[t]
  BY BecomesPlaced DEF IInv
<1>2. Listed'
  BY <1>1 DEF IInv, Listed
<1>3. ActiveStepIsCurrent'
  BY <1>1 DEF IInv, ActiveStepIsCurrent
<1> QED
  BY <1>1, <1>2, <1>3 DEF IInv
------------------------------------------------------------------------------
(***************************************************************************)
(* Starting                                                                *)
(***************************************************************************)

\* A session that is issued anew, with a fresh object.
LEMMA Arrives ==
    ASSUME IInv, NEW s \in Sessions, s \notin issued, NEW kind \in AllEntryPoints,
           NEW c \in Coordinators \union {"none"}, NEW status \in {"pending", "in_progress"},
           NEW plan \in Plans \union {<<>>}, NEW pc \in Places,
           LET o == NewSession(kind, c, status, plan)
           IN  Becomes(s, o, Parked(pc)) /\ Fits(o, Parked(pc)),
           pc \notin InStep, UNCHANGED activeSteps, issued' = issued \union {s},
           sessions' \in {sessions, sessions \union {s}}
    PROVE  IInv'
<1> DEFINE o == NewSession(kind, c, status, plan)
<1>1. o.status = status
  BY DEF NewSession
<1>2. /\ Placed'
      /\ session'[s] = o /\ flow'[s] = Parked(pc)
      /\ \A t \in Sessions \ {s} : session'[t] = session[t] /\ flow'[t] = flow[t]
  BY BecomesPlaced DEF IInv
<1>3. flow[s].pc = "idle" /\ Parked(pc).pc = pc
  BY ParkedShape DEF IInv, Listed
<1>4. Listed'
  BY <1>1, <1>2 DEF IInv, Listed
<1>5. ActiveStepIsCurrent'
  BY <1>2, <1>3 DEF IInv, ActiveStepIsCurrent, InStep
<1> QED
  BY <1>2, <1>4, <1>5 DEF IInv

LEMMA ArriveStep ==
    ASSUME IInv, NEW s \in Sessions, Arrive(s)
    PROVE  IInv'
<1> USE DEF Places, Running, Settling, Persists, InStep, AllEntryPoints, Kinds, Statuses
<1>1. ASSUME NEW c \in Coordinators, Orchestrate(s, c) PROVE IInv'
  <2> DEFINE o == NewSession("orchestrate", c, "in_progress", <<>>)
  <2>1. Place(o, Parked("joining"))
    BY DEF Place, NewSession, Parked, Managers
  <2>2. Fits(o, Parked("joining"))
    BY <2>1, NewFits
  <2> QED
    BY <1>1, <2>2, Arrives DEF Orchestrate, Fresh
<1>2. ASSUME NEW c \in Coordinators, Coordinate(s, c) PROVE IInv'
  <2> DEFINE o == NewSession("coordinate", c, "pending", <<>>)
  <2>1. Place(o, Parked("resolving"))
    BY DEF Place, NewSession, Parked, Managers
  <2>2. Fits(o, Parked("resolving"))
    BY <2>1, NewFits
  <2> QED
    BY <1>2, <2>2, Arrives DEF Coordinate, Fresh
<1>3. ASSUME NEW c \in Coordinators, NEW plan \in Plans, CreateCoordinationPlan(s, c, plan) PROVE IInv'
  <2> DEFINE o == NewSession("approve", c, "pending", plan)
  <2>1. Place(o, Parked("idle"))
    BY DEF Place, NewSession, Parked, Managers
  <2>2. Fits(o, Parked("idle"))
    BY <2>1, NewFits
  <2> QED
    BY <1>3, <2>2, Arrives DEF CreateCoordinationPlan, Fresh
<1>4. ASSUME NEW old \in Sessions, RerunSession(old, s) PROVE IInv'
  <2>1. session[old].coordinatorId \in Coordinators \union {"none"}
    BY DEF IInv, Placed, ObjectShape
  <2> DEFINE o == NewSession("rerun", session[old].coordinatorId, "in_progress", <<>>)
  <2>2. Place(o, Parked("asking"))
    BY DEF Place, NewSession, Parked
  <2>3. Fits(o, Parked("asking"))
    BY <2>1, <2>2, NewFits
  <2> QED
    BY <1>4, <2>1, <2>3, Arrives DEF RerunSession, Fresh
<1> QED
  BY <1>1, <1>2, <1>3, <1>4 DEF Arrive

------------------------------------------------------------------------------
(***************************************************************************)
(* Outside of steps                                                        *)
(***************************************************************************)

\* A parked function's session was issued.
LEMMA ParkedIsIssued ==
    ASSUME IInv, NEW s \in Sessions, flow[s].pc # "idle"
    PROVE  s \in issued
BY DEF IInv, Listed

\* What assignments to an object leave of its shape and of its books.
LEMMA StatusSet ==
    ASSUME NEW o \in ObjectShape, Books(o), NEW status \in Statuses
    PROVE  LET q == [o EXCEPT !.status = status]
           IN  /\ q \in ObjectShape /\ Books(q) /\ q.status = status
               /\ q.kind = o.kind /\ q.managers = o.managers /\ q.plan = o.plan
               /\ q.stepOutputs = o.stepOutputs /\ q.executed = o.executed
               /\ q.finalResult = o.finalResult
BY DEF ObjectShape, Books

LEMMA CleanedUp ==
    ASSUME NEW o \in ObjectShape, Books(o), NEW q \in {Cleanup(o), CleanupAndShutdown(o)}
    PROVE  /\ q \in ObjectShape /\ Books(q) /\ q.status = o.status /\ q.kind = o.kind
           /\ q.executed = o.executed /\ q.stepOutputs = o.stepOutputs /\ q.plan = o.plan
           /\ q.finalResult = o.finalResult
<1>1. o.managers \in SUBSET Managers
  BY DEF ObjectShape
<1> QED
  BY <1>1 DEF Cleanup, CleanupAndShutdown, ObjectShape, Books

LEMMA Failed ==
    ASSUME NEW o \in ObjectShape, Books(o)
    PROVE  /\ Fail(o) \in ObjectShape /\ Books(Fail(o))
           /\ Fail(o).status = "failed" /\ Fail(o).kind = o.kind
           /\ Fail(o).executed = o.executed /\ Fail(o).stepOutputs = o.stepOutputs
           /\ Fail(o).plan = o.plan /\ Fail(o).finalResult = o.finalResult
<1> DEFINE q == [o EXCEPT !.status = "failed"]
<1>1. "failed" \in Statuses
  BY DEF Statuses
<1>2. /\ q \in ObjectShape /\ Books(q) /\ q.status = "failed" /\ q.kind = o.kind
      /\ q.executed = o.executed /\ q.stepOutputs = o.stepOutputs /\ q.plan = o.plan
      /\ q.finalResult = o.finalResult
  BY <1>1, StatusSet
<1>3. Fail(o) = Cleanup(q)
  BY DEF Fail
<1> HIDE DEF q
<1> QED
  BY <1>2, <1>3, CleanedUp

\* A function may end with its session in any of three states.
LEMMA EndFits ==
    ASSUME NEW o \in ObjectShape, Books(o), o.status \in {"in_progress", "completed", "failed"}
    PROVE  Fits(o, Parked("ended"))
<1>1. Parked("ended") \in FlowShape /\ Parked("ended").pc = "ended"
  BY ParkedShape DEF Places
<1>2. Place(o, Parked("ended")) /\ Progress(o, Parked("ended"))
  BY <1>1 DEF Place, Progress, Running, Settling, Persists, InStep
<1> QED
  BY <1>1, <1>2 DEF Fits

LEMMA FailFits ==
    ASSUME NEW o \in ObjectShape, Books(o)
    PROVE  Fits(Fail(o), Parked("ended")) /\ Fail(o).status # "none"
BY Failed, EndFits

\* The end of a session's function, outside of steps.
LEMMA EndsStep ==
    ASSUME IInv, NEW s \in Sessions, NEW o, Ends(s, o), Fits(o, Parked("ended")),
           o.status # "none", flow[s].pc \notin InStep \union {"idle"},
           UNCHANGED <<sessions, issued, activeSteps>>
    PROVE  IInv'
<1>1. Parked("ended").pc = "ended" /\ s \in issued
  BY ParkedShape, ParkedIsIssued DEF Places
<1> QED
  BY <1>1, Proceeds DEF Ends, InStep

------------------------------------------------------------------------------
(***************************************************************************)
(* Before the steps                                                        *)
(***************************************************************************)

LEMMA JoinedStep ==
    ASSUME IInv, NEW s \in Sessions, Joined(s)
    PROVE  IInv'
<1> DEFINE f == Parked("planning")
<1>1. Placed /\ Fits(session[s], flow[s]) /\ flow[s].pc = "joining"
  BY DEF IInv, Placed, Joined, At
<1>2. f \in FlowShape /\ f.pc = "planning"
  BY ParkedShape DEF Places, Running
<1>3. Becomes(s, session[s], f)
  BY <1>1, ParksBecomes DEF Joined
<1> HIDE DEF f
<1>4. Fits(session[s], f) /\ session[s].status # "none"
  BY <1>1, <1>2 DEF Fits, Place, Progress, Running, Settling, Persists, InStep
<1>5. /\ Placed'
      /\ session'[s] = session[s] /\ flow'[s] = f
      /\ \A t \in Sessions \ {s} : session'[t] = session[t] /\ flow'[t] = flow[t]
  BY <1>1, <1>3, <1>4, BecomesPlaced
<1>6. s \in issued
  BY <1>1, ParkedIsIssued
<1>7. Listed'
  BY <1>4, <1>5, <1>6 DEF IInv, Listed, Joined
<1>8. ActiveStepIsCurrent'
  BY <1>1, <1>2, <1>5 DEF IInv, ActiveStepIsCurrent, Joined, InStep
<1> QED
  BY <1>5, <1>7, <1>8 DEF IInv

LEMMA JoinFailsStep ==
    ASSUME IInv, NEW s \in Sessions, JoinFails(s)
    PROVE  IInv'
<1>1. Placed /\ Fits(session[s], flow[s]) /\ flow[s].pc = "joining"
  BY DEF IInv, Placed, JoinFails, At
<1>2. Ends(s, session[s])
  BY <1>1, ParksBecomes DEF JoinFails, Ends
<1>3. Fits(session[s], Parked("ended")) /\ session[s].status # "none"
  BY <1>1, EndFits DEF Fits, Place, Running
<1> QED
  BY <1>1, <1>2, <1>3, EndsStep DEF JoinFails, InStep

\* The coordinator was found, or planning failed and its plan is done without.
LEMMA GoesOnStep ==
    ASSUME IInv, NEW s \in Sessions,
           \/ CoordinatorResolved(s)
           \/ PlanningFails(s) /\ session[s].kind = "coordinate"
    PROVE  IInv'
<1>1. PICK pc \in {"planning", "asking"} :
         /\ Becomes(s, [session[s] EXCEPT !.status = "in_progress"], Parked(pc))
         /\ \/ pc = "planning" /\ flow[s].pc = "resolving"
            \/ pc = "asking" /\ flow[s].pc = "planning" /\ session[s].kind = "coordinate"
         /\ UNCHANGED <<sessions, issued, activeSteps>>
  BY DEF CoordinatorResolved, PlanningFails, At
<1> DEFINE o == [session[s] EXCEPT !.status = "in_progress"]
           f == Parked(pc)
<1>2. Fits(session[s], flow[s])
  BY DEF IInv, Placed
<1>3. /\ o \in ObjectShape /\ Books(o) /\ o.status = "in_progress" /\ o.kind = session[s].kind
      /\ o.managers = session[s].managers /\ o.executed = session[s].executed
      /\ o.stepOutputs = session[s].stepOutputs
  BY <1>2, StatusSet DEF Fits, Statuses
<1>4. f \in FlowShape
  BY ParkedShape DEF Places, Running
<1>5. f.pc = pc /\ ~ f.republish /\ f.i = 1 /\ f.answers = <<>>
  BY DEF Parked
<1>6. NumParticipants \in Nat
  BY BoundsAssumption
<1>7. Becomes(s, o, f)
  BY <1>1
<1> HIDE DEF o, f
<1>8. Place(o, f) /\ Progress(o, f)
  BY <1>1, <1>2, <1>3, <1>5, <1>6
     DEF Fits, Place, Progress, Running, Settling, Persists, InStep
<1>9. Fits(o, f)
  BY <1>3, <1>4, <1>8 DEF Fits
<1>10. s \in issued /\ flow[s].pc \notin InStep /\ f.pc \notin InStep
  BY <1>1, <1>5, ParkedIsIssued DEF InStep
<1> QED
  BY <1>1, <1>3, <1>7, <1>9, <1>10, Proceeds

LEMMA PlanningFailsStep ==
    ASSUME IInv, NEW s \in Sessions, PlanningFails(s), session[s].kind # "coordinate"
    PROVE  IInv'
<1>1. Placed /\ Fits(session[s], flow[s]) /\ flow[s].pc = "planning"
  BY DEF IInv, Placed, PlanningFails, At
<1>2. Ends(s, session[s])
  BY <1>1, ParksBecomes DEF PlanningFails, Ends
<1>3. Fits(session[s], Parked("ended")) /\ session[s].status # "none"
  BY <1>1, EndFits DEF Fits, Place, Running
<1> QED
  BY <1>1, <1>2, <1>3, EndsStep DEF PlanningFails, InStep

LEMMA CoordinatorMissingStep ==
    ASSUME IInv, NEW s \in Sessions, CoordinatorMissing(s)
    PROVE  IInv'
<1>1. Fits(session[s], flow[s]) /\ flow[s].pc = "resolving"
  BY DEF IInv, Placed, CoordinatorMissing, At
<1>2. Fits(Fail(session[s]), Parked("ended")) /\ Fail(session[s]).status # "none"
  BY <1>1, FailFits DEF Fits
<1> QED
  BY <1>1, <1>2, EndsStep DEF CoordinatorMissing, InStep

LEMMA PlanMadeStep ==
    ASSUME IInv, NEW s \in Sessions, NEW plan \in Plans, PlanMade(s, plan)
    PROVE  IInv'
<1> DEFINE o == [session[s] EXCEPT !.plan = plan]
           f == Parked("stepping")
<1>1. Fits(session[s], flow[s]) /\ flow[s].pc = "planning"
  BY DEF IInv, Placed, PlanMade, At
<1>2. /\ o \in ObjectShape /\ o.status = session[s].status /\ o.kind = session[s].kind
      /\ o.managers = session[s].managers /\ o.executed = session[s].executed
      /\ o.stepOutputs = session[s].stepOutputs /\ o.finalResult = session[s].finalResult
  BY <1>1 DEF Fits, ObjectShape
<1>3. f \in FlowShape
  BY ParkedShape DEF Places, Running
<1>4. f.pc = "stepping" /\ f.i = 1
  BY DEF Parked
<1>5. Becomes(s, o, f) /\ UNCHANGED <<sessions, issued, activeSteps>>
  BY DEF PlanMade
<1> HIDE DEF o, f
<1>6. ~ session[s].executed /\ session[s].stepOutputs = <<>>
  BY <1>1 DEF Fits, Progress, Settling, Persists
<1>7. Place(o, f) /\ Progress(o, f)
  BY <1>1, <1>2, <1>4, <1>6 DEF Fits, Place, Progress, Running, Settling, Persists, InStep
<1>8. Books(o)
  BY <1>1, <1>2, <1>6 DEF Fits, Books
<1>9. Fits(o, f) /\ o.status # "none"
  BY <1>2, <1>3, <1>4, <1>7, <1>8 DEF Fits, Place, Running
<1>10. s \in issued /\ flow[s].pc \notin InStep /\ f.pc \notin InStep
  BY <1>1, <1>4, ParkedIsIssued DEF InStep
<1> QED
  BY <1>5, <1>9, <1>10, Proceeds

------------------------------------------------------------------------------
(***************************************************************************)
(* The steps of a plan                                                     *)
(***************************************************************************)

\* A step that leaves memory alone.
LEMMA MemoryKept ==
    ASSUME IInv, UNCHANGED <<sessions, session, flow, activeSteps, issued>>
    PROVE  IInv'
BY DEF IInv, Placed, Listed, ActiveStepIsCurrent

\* The loss of memory.
LEMMA MemoryLostStep ==
    ASSUME IInv, MemoryLost, UNCHANGED issued
    PROVE  IInv'
<1>1. \A s \in Sessions :
         /\ session'[s] = NoSession /\ flow'[s] = Parked(IF s \in issued THEN "lost" ELSE "idle")
  BY DEF MemoryLost
<1>2. \A pc \in {"lost", "idle"} : Parked(pc) \in FlowShape /\ Parked(pc).pc = pc
  BY ParkedShape DEF Places
<1>3. NoSession \in ObjectShape /\ NoSession.status = "none"
  BY NoSessionShape
<1>4. \A pc \in {"lost", "idle"} : Fits(NoSession, Parked(pc))
  <2>1. /\ NoSession.stepOutputs = <<>> /\ ~ NoSession.executed
        /\ NoSession.finalResult.contributions = <<>>
    BY DEF NoSession, NewSession, NoResult
  <2>2. NumParticipants \in Nat
    BY BoundsAssumption
  <2> TAKE pc \in {"lost", "idle"}
  <2>3. Place(NoSession, Parked(pc))
    BY <1>2, <1>3 DEF Place, Running, Settling, Persists, InStep
  <2>4. Books(NoSession) /\ Progress(NoSession, Parked(pc))
    BY <1>2, <2>1, <2>2 DEF Books, Progress, InStep
  <2> QED BY <1>2, <1>3, <2>3, <2>4 DEF Fits
<1>5. Placed'
  <2>1. session' \in [Sessions -> ObjectShape]
    BY <1>3 DEF MemoryLost
  <2>2. flow' \in [Sessions -> FlowShape]
    BY <1>2 DEF MemoryLost
  <2> QED BY <1>1, <1>4, <2>1, <2>2 DEF Placed
<1>6. Listed'
  BY <1>1, <1>2, <1>3 DEF IInv, Listed, MemoryLost
<1>7. ActiveStepIsCurrent'
  <2>1. DOMAIN activeSteps' = {}
    BY DEF MemoryLost
  <2>2. \A s \in Sessions : flow'[s].pc \notin InStep
    BY <1>1, <1>2 DEF InStep
  <2> QED BY <2>1, <2>2 DEF ActiveStepIsCurrent
<1> QED
  BY <1>5, <1>6, <1>7 DEF IInv

\* A session enters a step.
LEMMA StepBeginsStep ==
    ASSUME IInv, NEW s \in Sessions, StepBegins(s)
    PROVE  IInv'
<1> DEFINE f == [flow[s] EXCEPT !.pc = "ensuring"]
<1>1. Placed /\ Fits(session[s], flow[s]) /\ flow[s].pc = "stepping"
  BY DEF IInv, Placed, StepBegins, At
<1>2. f.pc = "ensuring" /\ f.i = flow[s].i /\ f \in FlowShape
  BY <1>1 DEF Fits, FlowShape, Places, Running, InStep
<1>3. Becomes(s, session[s], f)
  BY <1>1, ParksBecomes DEF StepBegins
<1> HIDE DEF f
<1>4. f.i \in DOMAIN session[s].plan
  BY <1>2 DEF StepBegins
<1>5. Place(session[s], f) /\ Progress(session[s], f)
  BY <1>1, <1>2, <1>4 DEF Fits, Place, Progress, Running, Settling, Persists, InStep
<1>6. Fits(session[s], f) /\ session[s].status # "none"
  BY <1>1, <1>2, <1>5 DEF Fits, Place, Running
<1>7. /\ Placed'
      /\ session'[s] = session[s] /\ flow'[s] = f
      /\ \A t \in Sessions \ {s} : session'[t] = session[t] /\ flow'[t] = flow[t]
  BY <1>1, <1>3, <1>6, BecomesPlaced
<1>8. Listed'
  BY <1>1, <1>6, <1>7, ParkedIsIssued DEF IInv, Listed, StepBegins
<1>9. ActiveStepIsCurrent'
  BY <1>2, <1>7 DEF IInv, ActiveStepIsCurrent, StepBegins, InStep
<1> QED
  BY <1>7, <1>8, <1>9 DEF IInv

\* A session goes on within its step.
LEMMA WithinStep ==
    ASSUME IInv, NEW s \in Sessions, NEW pc \in InStep, flow[s].pc \in InStep,
           Parks(s, [flow[s] EXCEPT !.pc = pc]), UNCHANGED <<sessions, issued, activeSteps>>
    PROVE  IInv'
<1> DEFINE f == [flow[s] EXCEPT !.pc = pc]
<1>1. Placed /\ Fits(session[s], flow[s])
  BY DEF IInv, Placed
<1>2. f.pc = pc /\ f.i = flow[s].i /\ f \in FlowShape
  BY <1>1 DEF Fits, FlowShape, Places, Running
<1>3. Becomes(s, session[s], f)
  BY <1>1, ParksBecomes
<1> HIDE DEF f
<1>4. Place(session[s], f) /\ Progress(session[s], f)
  BY <1>1, <1>2 DEF Fits, Place, Progress, Running, Settling, Persists, InStep
<1>5. Fits(session[s], f) /\ session[s].status # "none"
  BY <1>1, <1>2, <1>4 DEF Fits, Place, Running
<1>6. /\ Placed'
      /\ session'[s] = session[s] /\ flow'[s] = f
      /\ \A t \in Sessions \ {s} : session'[t] = session[t] /\ flow'[t] = flow[t]
  BY <1>1, <1>3, <1>5, BecomesPlaced
<1>7. s \in issued
  BY ParkedIsIssued DEF InStep
<1>8. Listed'
  BY <1>5, <1>6, <1>7 DEF IInv, Listed
<1>9. ActiveStepIsCurrent'
  BY <1>2, <1>6 DEF IInv, ActiveStepIsCurrent
<1> QED
  BY <1>6, <1>8, <1>9 DEF IInv

\* A session leaves a step, and its entry goes.
LEMMA LeavesStep ==
    ASSUME IInv, NEW s \in Sessions, NEW o, NEW f, Becomes(s, o, f), Fits(o, f),
           o.status # "none", flow[s].pc \in InStep, f.pc \notin InStep,
           activeSteps' = WithoutActiveStep(s), UNCHANGED <<sessions, issued>>
    PROVE  IInv'
<1>1. /\ Placed'
      /\ session'[s] = o /\ flow'[s] = f
      /\ \A t \in Sessions \ {s} : session'[t] = session[t] /\ flow'[t] = flow[t]
  BY BecomesPlaced DEF IInv
<1>2. s \in issued
  BY ParkedIsIssued DEF InStep
<1>3. Listed'
  BY <1>1, <1>2 DEF IInv, Listed
<1>4. ActiveStepIsCurrent'
  BY <1>1 DEF IInv, ActiveStepIsCurrent, WithoutActiveStep
<1> QED
  BY <1>1, <1>3, <1>4 DEF IInv

LEMMA StepStoredStep ==
    ASSUME IInv, NEW s \in Sessions, StepStored(s)
    PROVE  IInv'
<1> DEFINE o == [session[s] EXCEPT !.stepOutputs = Append(@, flow[s].i)]
           f == [flow[s] EXCEPT !.pc = "stepping", !.i = @ + 1]
<1>1. Fits(session[s], flow[s]) /\ flow[s].pc = "storing"
  BY DEF IInv, Placed, StepStored, At
<1>2. flow[s].i \in Nat \ {0} /\ session[s].stepOutputs \in Seq(Nat)
  BY <1>1 DEF Fits, FlowShape, ObjectShape
<1>3. Len(session[s].stepOutputs) = flow[s].i - 1 /\ flow[s].i \in DOMAIN session[s].plan
  BY <1>1 DEF Fits, Progress, InStep
<1>4. f.pc = "stepping" /\ f.i = flow[s].i + 1 /\ f \in FlowShape
  <2>1. flow[s].i + 1 \in Nat \ {0}
    BY <1>2
  <2>2. "stepping" \in Places
    BY DEF Places, Running
  <2> QED BY <1>1, <2>1, <2>2 DEF Fits, FlowShape
<1>5. /\ o \in ObjectShape /\ o.stepOutputs = Append(session[s].stepOutputs, flow[s].i)
      /\ o.status = session[s].status /\ o.kind = session[s].kind /\ o.plan = session[s].plan
      /\ o.managers = session[s].managers /\ o.executed = session[s].executed
      /\ o.finalResult = session[s].finalResult
  <2>1. Append(session[s].stepOutputs, flow[s].i) \in Seq(Nat)
    BY <1>2
  <2> QED BY <1>1, <2>1 DEF Fits, ObjectShape
<1>6. Becomes(s, o, f) /\ UNCHANGED <<sessions, issued>> /\ activeSteps' = WithoutActiveStep(s)
  BY DEF StepStored
<1> HIDE DEF o, f
<1>7. Len(o.stepOutputs) = f.i - 1
  BY SMTT(30), <1>2, <1>3, <1>4, <1>5
<1>8. \A j \in DOMAIN o.stepOutputs : o.stepOutputs[j] = j /\ j \in DOMAIN o.plan
  <2>1. \A j \in DOMAIN session[s].stepOutputs :
           session[s].stepOutputs[j] = j /\ j \in DOMAIN session[s].plan
    BY <1>1 DEF Fits, Books
  <2>2. /\ DOMAIN o.stepOutputs = 1 .. flow[s].i
        /\ DOMAIN session[s].stepOutputs = 1 .. flow[s].i - 1
        /\ o.stepOutputs[flow[s].i] = flow[s].i
        /\ \A j \in 1 .. flow[s].i - 1 : o.stepOutputs[j] = session[s].stepOutputs[j]
    BY <1>2, <1>3, <1>5
  <2> QED BY <1>2, <1>3, <1>5, <2>1, <2>2
<1>9. ~ session[s].executed
  BY <1>1 DEF Fits, Progress, Settling, Persists, InStep
<1>10. Books(o)
  BY <1>1, <1>5, <1>8, <1>9 DEF Fits, Books
<1>11. Place(o, f) /\ Progress(o, f)
  BY <1>1, <1>4, <1>5, <1>7, <1>9 DEF Fits, Place, Progress, Running, Settling, Persists, InStep
<1>12. Fits(o, f) /\ o.status # "none"
  BY <1>4, <1>5, <1>10, <1>11 DEF Fits, Place, Running
<1> QED
  BY <1>1, <1>4, <1>6, <1>12, LeavesStep DEF InStep

LEMMA StepFailsStep ==
    ASSUME IInv, NEW s \in Sessions, StepFails(s)
    PROVE  IInv'
<1>1. Fits(session[s], flow[s]) /\ flow[s].pc = "executing"
  BY DEF IInv, Placed, StepFails, At
<1> DEFINE failed == Fail(session[s])
<1>2. /\ failed \in ObjectShape /\ Books(failed) /\ failed.executed = session[s].executed
  BY <1>1, Failed DEF Fits
<1>3. CASE MemoryLost /\ UNCHANGED issued
  BY <1>3, MemoryLostStep
<1>4. CASE Ends(s, failed) /\ activeSteps' = WithoutActiveStep(s) /\ UNCHANGED <<sessions, issued>>
  <2>1. Fits(failed, Parked("ended")) /\ failed.status # "none"
    BY <1>1, FailFits DEF Fits
  <2>2. Parked("ended").pc = "ended"
    BY DEF Parked
  <2> QED
    BY <1>1, <1>4, <2>1, <2>2, LeavesStep DEF Ends, InStep
<1>5. CASE /\ failed.kind = "coordinate"
           /\ Becomes(s, [failed EXCEPT !.status = "in_progress"], Parked("asking"))
           /\ activeSteps' = WithoutActiveStep(s) /\ UNCHANGED <<sessions, issued>>
  <2> DEFINE o == [failed EXCEPT !.status = "in_progress"]
             f == Parked("asking")
  <2> HIDE DEF failed
  <2>1. /\ o \in ObjectShape /\ Books(o) /\ o.status = "in_progress" /\ o.kind = "coordinate"
        /\ o.executed = failed.executed
    BY <1>2, <1>5, StatusSet DEF Statuses
  <2>2. f \in FlowShape
    BY ParkedShape DEF Places, Running
  <2>3. f.pc = "asking" /\ f.i = 1 /\ f.answers = <<>>
    BY DEF Parked
  <2>4. NumParticipants \in Nat
    BY BoundsAssumption
  <2>5. Becomes(s, o, f)
    BY <1>5
  <2> HIDE DEF o, f
  <2>6. Place(o, f)
    BY <2>1, <2>3 DEF Place, Running, Settling, Persists, InStep
  <2>7. ~ session[s].executed
    BY <1>1 DEF Fits, Progress, Settling, Persists
  <2>8. Progress(o, f)
    BY <1>2, <2>1, <2>3, <2>4, <2>7 DEF Progress, InStep
  <2>9. Fits(o, f) /\ o.status # "none" /\ f.pc \notin InStep /\ flow[s].pc \in InStep
    BY <1>1, <2>1, <2>2, <2>3, <2>6, <2>8 DEF Fits, InStep
  <2> QED
    BY <1>5, <2>5, <2>9, LeavesStep
<1> QED
  BY <1>3, <1>4, <1>5 DEF StepFails

------------------------------------------------------------------------------
(***************************************************************************)
(* Completion                                                              *)
(***************************************************************************)

\* What a completed session keeps through its reviews and cleanups.
SameBooks(q, o) ==
    /\ q.executed = o.executed /\ q.stepOutputs = o.stepOutputs /\ q.plan = o.plan
    /\ q.finalResult = o.finalResult /\ q.kind = o.kind

\* The session completes: its function parks to persist, to review, or for good;
\* for good only when it was persisted, or is an approved plan's.
Completes(s, o, persists) ==
    \E q, f :
        /\ Becomes(s, q, f) /\ Fits(q, f) /\ SameBooks(q, o) /\ q.status = "completed"
        /\ f \in {Persisting(q, persists), Parked("ended"), Parked("synthesizing")}
        /\ f.pc = "ended" => flow[s].pc \in Persists \/ o.kind = "approve"

LEMMA ConcludeCompletes ==
    ASSUME NEW o \in ObjectShape, Books(o), o.kind \in {"coordinate", "approve"}, NEW s \in Sessions, Conclude(s, o)
    PROVE  Completes(s, o, TRUE)
<1> DEFINE done == [o EXCEPT !.status = "completed"]
<1>1. /\ done \in ObjectShape /\ Books(done) /\ done.status = "completed" /\ SameBooks(done, o)
  BY StatusSet DEF Statuses, SameBooks
<1>2. CASE o.kind = "coordinate"
  <2>1. Becomes(s, done, Persisting(done, TRUE))
    BY <1>2 DEF Conclude
  <2> HIDE DEF done
  <2>2. Fits(done, Persisting(done, TRUE))
    BY <1>1, <1>2, PersistingFits DEF SameBooks
  <2> QED BY <1>1, <2>1, <2>2, ParkedPlace DEF Completes
<1>3. CASE o.kind # "coordinate"
  <2> DEFINE q == CleanupAndShutdown(done)
  <2>1. Becomes(s, q, Parked("ended"))
    BY <1>3 DEF Conclude, Ends
  <2> HIDE DEF done
  <2>2. q \in ObjectShape /\ Books(q) /\ q.status = "completed" /\ SameBooks(q, o)
    BY <1>1, CleanedUp DEF SameBooks
  <2> HIDE DEF q
  <2>3. Fits(q, Parked("ended"))
    BY <2>2, EndFits
  <2> QED BY <1>3, <2>1, <2>2, <2>3, ParkedPlace DEF Completes
<1> QED BY <1>2, <1>3

LEMMA ReviewCompletes ==
    ASSUME NEW o \in ObjectShape, Books(o), o.kind \in {"coordinate", "approve"},
           o.status = "completed", NEW s \in Sessions, Review(s, o)
    PROVE  Completes(s, o, TRUE)
<1>1. CASE Becomes(s, o, Parked("synthesizing"))
  <2> DEFINE f == Parked("synthesizing")
  <2>1. f \in FlowShape /\ f.pc = "synthesizing"
    BY ParkedShape DEF Places, Settling
  <2>2. SameBooks(o, o)
    BY DEF SameBooks
  <2>3. f = Parked("synthesizing") /\ Becomes(s, o, f)
    BY <1>1
  <2> HIDE DEF f
  <2>4. Place(o, f) /\ Progress(o, f)
    BY <2>1 DEF Place, Progress, Running, Settling, Persists, InStep
  <2>5. Fits(o, f)
    BY <2>1, <2>4 DEF Fits
  <2> QED BY <2>1, <2>2, <2>3, <2>5, ParkedPlace DEF Completes
<1>2. CASE Conclude(s, o)
  BY <1>2, ConcludeCompletes
<1> QED BY <1>1, <1>2 DEF Review

LEMMA CompletesStep ==
    ASSUME IInv, NEW s \in Sessions, NEW o, NEW persists, Completes(s, o, persists),
           flow[s].pc \notin InStep \union {"idle"},
           UNCHANGED <<sessions, issued, activeSteps>>
    PROVE  IInv'
<1>1. PICK q, f : /\ Becomes(s, q, f) /\ Fits(q, f) /\ q.status = "completed"
                  /\ f \in {Persisting(q, persists), Parked("ended"), Parked("synthesizing")}
  BY DEF Completes
<1>2. f.pc \notin InStep
  <2>1. Persisting(q, persists).pc = "persistSession"
    BY DEF Persisting, Parked
  <2>2. Parked("ended").pc = "ended" /\ Parked("synthesizing").pc = "synthesizing"
    BY DEF Parked
  <2> QED BY <1>1, <2>1, <2>2 DEF InStep
<1> QED
  BY <1>1, <1>2, ParkedIsIssued, Proceeds

LEMMA PlanCompletesStep ==
    ASSUME IInv, NEW s \in Sessions, PlanCompletes(s)
    PROVE  /\ IInv'
           /\ \E o : \/ Becomes(s, o, Parked("creative"))
                     \/ Completes(s, o, FALSE) /\ flow'[s].pc = "persistSession"
<1> DEFINE plan == session[s].plan
           r == Result([j \in DOMAIN plan |-> <<"step", j>>], "steps")
           o == [session[s] EXCEPT !.status = "completed", !.executed = TRUE, !.finalResult = r]
<1>1. Fits(session[s], flow[s]) /\ flow[s].pc = "stepping" /\ flow[s].i \notin DOMAIN plan
  BY DEF IInv, Placed, PlanCompletes, At
<1>2. plan \in Seq(Nat)
  <2>1. plan \in Plans \union {<<>>} /\ <<>> \in Seq(Nat \ {0})
    BY <1>1 DEF Fits, ObjectShape
  <2>2. plan \in Seq(Nat \ {0})
    BY <2>1, PlansAssumption
  <2> QED BY <2>2
<1>3. r.contributions \in Seq(Authors) /\ r \in ResultShape
  <2>1. [j \in DOMAIN plan |-> <<"step", j>>] \in Seq(Authors)
    BY <1>2 DEF Authors
  <2> QED BY <2>1 DEF Result, ResultShape, Contents
<1>4. r.present /\ r.contributions = [j \in DOMAIN plan |-> <<"step", j>>]
  BY DEF Result
<1> HIDE DEF r, plan
<1>5. /\ o \in ObjectShape /\ o.status = "completed" /\ o.kind = session[s].kind
      /\ o.plan = session[s].plan /\ o.stepOutputs = session[s].stepOutputs
      /\ o.executed = TRUE /\ o.finalResult = r
  BY <1>1, <1>3 DEF Fits, ObjectShape, Statuses
<1>6. Becomes(s, o, Parked("creative")) \/ Becomes(s, o, Persisting(o, FALSE))
  BY DEF PlanCompletes, plan, r
<1> HIDE DEF o
<1>7. Len(o.stepOutputs) = Len(o.plan)
  <2>1. /\ \A j \in DOMAIN session[s].stepOutputs : j \in DOMAIN plan
        /\ Len(session[s].stepOutputs) = flow[s].i - 1
        /\ flow[s].i \in Nat \ {0} /\ session[s].stepOutputs \in Seq(Nat)
    BY <1>1 DEF Fits, Books, Progress, FlowShape, ObjectShape, plan
  <2>2. DOMAIN session[s].stepOutputs = 1 .. flow[s].i - 1 /\ DOMAIN plan = 1 .. Len(plan)
        /\ Len(plan) \in Nat
    BY <1>2, <2>1
  <2>3. flow[s].i > Len(plan)
    BY <1>1, <2>1, <2>2
  <2>4. flow[s].i - 1 <= Len(plan)
    <3>1. CASE flow[s].i = 1
      BY <2>2, <3>1
    <3>2. CASE flow[s].i # 1
      BY <2>1, <2>2, <3>2
    <3> QED BY <3>1, <3>2
  <2> QED BY <1>5, <2>1, <2>2, <2>3, <2>4 DEF plan
<1>8. Books(o)
  BY <1>1, <1>4, <1>5, <1>7 DEF Fits, Books, plan
<1>9. o.kind \in {"orchestrate", "coordinate", "approve"}
  BY <1>1, <1>5 DEF Fits, Place
<1>10. PICK f : Becomes(s, o, f) /\ f.pc \notin InStep /\ Fits(o, f)
  <2>1. Parked("creative") \in FlowShape /\ Parked("creative").pc = "creative"
        /\ Parked("creative").republish = FALSE
    BY ParkedShape DEF Places, Settling
  <2>2. Place(o, Parked("creative")) /\ Progress(o, Parked("creative"))
    BY <1>5, <1>9, <2>1 DEF Place, Progress, Running, Settling, Persists, InStep
  <2>3. Fits(o, Parked("creative"))
    BY <1>5, <1>8, <2>1, <2>2 DEF Fits
  <2>4. Fits(o, Persisting(o, FALSE)) /\ Persisting(o, FALSE).pc = "persistSession"
    BY <1>5, <1>8, <1>9, PersistingFits
  <2> QED BY <1>6, <2>1, <2>3, <2>4 DEF InStep
<1>11. s \in issued /\ flow[s].pc \notin InStep
  BY <1>1, ParkedIsIssued DEF InStep
<1>12. UNCHANGED <<sessions, issued, activeSteps>>
  BY DEF PlanCompletes
<1>13. IInv'
  BY <1>5, <1>10, <1>11, <1>12, Proceeds
<1>14. CASE Becomes(s, o, Persisting(o, FALSE))
  <2>1. flow'[s] = Persisting(o, FALSE)
    BY <1>14 DEF IInv, Placed, Becomes
  <2>2. Fits(o, Persisting(o, FALSE))
    BY <1>5, <1>8, <1>9, PersistingFits
  <2>3. Completes(s, o, FALSE)
    BY <1>5, <1>14, <2>2, ParkedPlace DEF Completes, SameBooks
  <2> QED BY ZenonT(60), <1>13, <2>1, <2>3, ParkedPlace
<1>15. CASE Becomes(s, o, Parked("creative"))
  <2>1. \E q : Becomes(s, q, Parked("creative"))
    BY <1>15
  <2>2. \E q : \/ Becomes(s, q, Parked("creative"))
               \/ Completes(s, q, FALSE) /\ flow'[s].pc = "persistSession"
    BY <2>1, Zenon
  <2> QED BY <1>13, <2>2
<1> QED
  BY <1>6, <1>14, <1>15

LEMMA CreativePublishedStep ==
    ASSUME IInv, NEW s \in Sessions, CreativePublished(s)
    PROVE  /\ IInv'
           /\ Completes(s, session[s], FALSE) /\ flow'[s].pc = "persistSession"
<1> DEFINE o == session[s]
<1>1. Placed /\ Fits(o, flow[s]) /\ flow[s].pc = "creative"
  BY DEF IInv, Placed, CreativePublished, At
<1>2. Becomes(s, o, Persisting(o, FALSE))
  BY <1>1, ParksBecomes DEF CreativePublished
<1>3. o \in ObjectShape /\ Books(o) /\ o.status = "completed" /\ o.kind # "none"
  BY <1>1 DEF Fits, Place, Settling
<1>4. Fits(o, Persisting(o, FALSE))
  BY <1>3, PersistingFits
<1>5. Completes(s, o, FALSE)
  BY <1>2, <1>3, <1>4, ParkedPlace DEF Completes, SameBooks
<1>6. flow'[s].pc = "persistSession"
  BY <1>1, <1>2, ParkedPlace DEF Placed, Becomes
<1> QED
  BY <1>1, <1>5, <1>6, CompletesStep DEF CreativePublished, InStep

------------------------------------------------------------------------------
(***************************************************************************)
(* Simple coordination                                                     *)
(***************************************************************************)

LEMMA ParticipantAskedStep ==
    ASSUME IInv, NEW s \in Sessions, ParticipantAsked(s)
    PROVE  IInv'
<1> DEFINE g == flow[s]
           f == [g EXCEPT !.i = @ + 1, !.answers = Append(@, <<"participant", g.i>>)]
           h == [g EXCEPT !.i = @ + 1]
<1>1. Placed /\ Fits(session[s], g) /\ g.pc = "asking" /\ g.i <= NumParticipants
  BY DEF IInv, Placed, ParticipantAsked, At
<1>2. g \in FlowShape /\ g.i \in Nat \ {0} /\ g.answers \in Seq(Authors)
  BY <1>1 DEF Fits, FlowShape
<1>3. NumParticipants \in Nat
  BY BoundsAssumption
<1>4. Len(g.answers) \in Nat /\ Len(g.answers) < g.i
  BY <1>1, <1>2 DEF Fits, Progress
<1>5. /\ f \in FlowShape /\ f.pc = "asking" /\ f.i = g.i + 1 /\ Len(f.answers) = Len(g.answers) + 1
      /\ f.republish = g.republish
  <2>1. g.i + 1 \in Nat \ {0} /\ <<"participant", g.i>> \in Authors
    BY <1>2 DEF Authors
  <2>2. Append(g.answers, <<"participant", g.i>>) \in Seq(Authors)
        /\ Len(Append(g.answers, <<"participant", g.i>>)) = Len(g.answers) + 1
    BY <1>2, <2>1
  <2> QED BY <1>1, <1>2, <2>1, <2>2 DEF FlowShape
<1>6. /\ h \in FlowShape /\ h.pc = "asking" /\ h.i = g.i + 1 /\ h.answers = g.answers
      /\ h.republish = g.republish
  <2>1. g.i + 1 \in Nat \ {0}
    BY <1>2
  <2> QED BY <1>1, <1>2, <2>1 DEF FlowShape
<1>7. PICK k : /\ k \in FlowShape /\ k.pc = "asking" /\ k.i = g.i + 1 /\ Parks(s, k)
               /\ Len(k.answers) <= Len(g.answers) + 1 /\ Len(k.answers) \in Nat
               /\ k.republish = g.republish
  <2>1. Parks(s, f) \/ Parks(s, h)
    BY DEF ParticipantAsked
  <2> HIDE DEF f, h, g
  <2> QED BY <2>1, <1>4, <1>5, <1>6
<1> HIDE DEF g
<1>8. Becomes(s, session[s], k)
  BY <1>1, <1>7, ParksBecomes
<1>9. Place(session[s], k) /\ Progress(session[s], k)
  <2>1. Len(k.answers) < k.i /\ k.i <= NumParticipants + 1
    BY <1>1, <1>2, <1>3, <1>4, <1>7
  <2> QED BY <1>1, <1>7, <2>1 DEF Fits, Place, Progress, Running, Settling, Persists, InStep
<1>10. Fits(session[s], k) /\ session[s].status # "none"
  BY <1>1, <1>7, <1>9 DEF Fits, Place, Running
<1>11. s \in issued /\ flow[s].pc \notin InStep /\ k.pc \notin InStep
  BY <1>1, <1>7, ParkedIsIssued DEF InStep, g
<1>12. UNCHANGED <<sessions, issued, activeSteps>>
  BY DEF ParticipantAsked
<1> QED
  BY <1>8, <1>10, <1>11, <1>12, Proceeds

LEMMA ParticipantMissingStep ==
    ASSUME IInv, NEW s \in Sessions, ParticipantMissing(s)
    PROVE  IInv'
<1> DEFINE o == session[s]
           q == [o EXCEPT !.status = "failed"]
<1>1. Fits(o, flow[s]) /\ flow[s].pc = "asking"
  BY DEF IInv, Placed, ParticipantMissing, At
<1>2. Ends(s, Fail(o)) \/ Ends(s, q)
  BY DEF ParticipantMissing
<1>3. Fits(Fail(o), Parked("ended")) /\ Fail(o).status # "none"
  BY <1>1, FailFits DEF Fits
<1>4. q \in ObjectShape /\ Books(q) /\ q.status = "failed"
  BY <1>1, StatusSet DEF Fits, Statuses
<1> HIDE DEF q
<1>5. Fits(q, Parked("ended"))
  BY <1>4, EndFits
<1>6. UNCHANGED <<sessions, issued, activeSteps>> /\ flow[s].pc \notin InStep \union {"idle"}
  BY <1>1 DEF ParticipantMissing, InStep
<1>7. CASE Ends(s, Fail(o))
  BY <1>3, <1>6, <1>7, EndsStep
<1>8. CASE Ends(s, q)
  BY <1>4, <1>5, <1>6, <1>8, EndsStep
<1> QED
  BY <1>2, <1>7, <1>8

\* A session that executed no plan, completed with a result of its participants.
Answered(o, r) == [o EXCEPT !.finalResult = r, !.status = "completed"]

LEMMA SimpleCompletion ==
    ASSUME IInv, NEW s \in Sessions, flow[s].pc \in {"asking", "integrating"},
           NEW r \in ResultShape, r.present, Len(r.contributions) <= NumParticipants,
           SimpleCompletes(s, r)
    PROVE  \E persists \in BOOLEAN : Completes(s, Answered(session[s], r), persists)
<1> DEFINE o == Answered(session[s], r)
<1>1. Fits(session[s], flow[s]) /\ session[s].kind \in {"coordinate", "rerun"}
  BY DEF IInv, Placed, Fits, Place
<1>2. ~ session[s].executed
  BY <1>1 DEF Fits, Progress, Settling, Persists
<1>3. o \in ObjectShape /\ Books(o) /\ o.status = "completed" /\ o.kind = session[s].kind
  BY <1>1, <1>2 DEF Fits, ObjectShape, Books, Statuses, Answered
<1>4. CASE o.kind = "coordinate"
  <2>1. Review(s, o)
    BY <1>4 DEF SimpleCompletes, Answered
  <2> HIDE DEF o
  <2>2. Completes(s, o, TRUE)
    BY <1>3, <1>4, <2>1, ReviewCompletes
  <2> QED BY <2>2 DEF o
<1>5. CASE o.kind # "coordinate"
  <2>1. Becomes(s, o, Persisting(o, FALSE))
    BY <1>5 DEF SimpleCompletes, Answered
  <2> HIDE DEF o
  <2>2. Fits(o, Persisting(o, FALSE))
    BY <1>1, <1>3, PersistingFits
  <2>3. Completes(s, o, FALSE)
    BY <1>3, <2>1, <2>2, ParkedPlace DEF Completes, SameBooks
  <2> QED BY <2>3 DEF o
<1> QED BY <1>4, <1>5

LEMMA ParticipantsDoneStep ==
    ASSUME IInv, NEW s \in Sessions, ParticipantsDone(s)
    PROVE  /\ IInv'
           /\ \/ \E persists \in BOOLEAN :
                    Completes(s, Answered(session[s], Result(<<>>, "empty")), persists)
              \/ Becomes(s, [session[s] EXCEPT !.finalResult = Result(flow[s].answers, "none")],
                         Parked("integrating"))
<1>1. Fits(session[s], flow[s]) /\ flow[s].pc = "asking"
  BY DEF IInv, Placed, ParticipantsDone, At
<1>2. NumParticipants \in Nat
  BY BoundsAssumption
<1>3. UNCHANGED <<sessions, issued, activeSteps>>
  BY DEF ParticipantsDone
<1>4. CASE flow[s].answers = <<>>
  <2> DEFINE r == Result(<<>>, "empty")
  <2>1. SimpleCompletes(s, r)
    BY <1>4 DEF ParticipantsDone
  <2>2. r \in ResultShape /\ r.present /\ r.contributions = <<>>
    BY DEF Result, ResultShape, Contents
  <2> HIDE DEF r
  <2>3. Len(r.contributions) <= NumParticipants
    BY <1>2, <2>2
  <2>4. PICK persists \in BOOLEAN : Completes(s, Answered(session[s], r), persists)
    BY <1>1, <2>1, <2>2, <2>3, SimpleCompletion
  <2>5. IInv'
    BY <1>1, <1>3, <2>4, CompletesStep DEF InStep
  <2> QED BY <2>4, <2>5 DEF r
<1>5. CASE flow[s].answers # <<>>
  <2> DEFINE r == Result(flow[s].answers, "none")
             o == [session[s] EXCEPT !.finalResult = r]
             f == Parked("integrating")
  <2>1. Becomes(s, o, f)
    BY <1>5 DEF ParticipantsDone
  <2>2. flow[s].answers \in Seq(Authors) /\ flow[s].i \in Nat
    BY <1>1 DEF Fits, FlowShape
  <2>3. r \in ResultShape /\ r.present /\ r.contributions = flow[s].answers
    BY <2>2 DEF Result, ResultShape, Contents
  <2>4. Len(r.contributions) <= NumParticipants
    BY <1>1, <1>2, <2>2, <2>3 DEF Fits, Progress
  <2>5. ~ session[s].executed
    BY <1>1 DEF Fits, Progress, Settling, Persists
  <2> HIDE DEF r
  <2>6. /\ o \in ObjectShape /\ Books(o) /\ o.status = session[s].status
        /\ o.kind = session[s].kind /\ o.executed = session[s].executed /\ o.finalResult = r
    BY <1>1, <2>3, <2>4, <2>5 DEF Fits, ObjectShape, Books
  <2>7. f \in FlowShape /\ f.pc = "integrating"
    BY ParkedShape DEF Places, Running
  <2> HIDE DEF o, f
  <2>8. Place(o, f) /\ Progress(o, f)
    BY <1>1, <2>3, <2>5, <2>6, <2>7 DEF Fits, Place, Progress, Running, Settling, Persists, InStep
  <2>9. Fits(o, f) /\ o.status # "none"
    BY <1>1, <2>6, <2>7, <2>8 DEF Fits, Place, Running
  <2>10. s \in issued /\ flow[s].pc \notin InStep /\ f.pc \notin InStep
    BY <1>1, <2>7, ParkedIsIssued DEF InStep
  <2>11. IInv'
    BY <1>3, <2>1, <2>9, <2>10, Proceeds
  <2> QED
    BY <2>1, <2>11 DEF o, f, r
<1> QED BY <1>4, <1>5

LEMMA IntegratedCompletes ==
    ASSUME IInv, NEW s \in Sessions, Integrated(s)
    PROVE  \E r, persists :
              /\ r \in ResultShape /\ r.present
              /\ r.contributions = session[s].finalResult.contributions
              /\ Completes(s, Answered(session[s], r), persists)
<1> DEFINE p == session[s].finalResult
<1>1. Fits(session[s], flow[s]) /\ flow[s].pc = "integrating"
  BY DEF IInv, Placed, Integrated, At
<1>2. PICK content \in {"integrated", "concatenated"} : SimpleCompletes(s, [p EXCEPT !.content = content])
  BY DEF Integrated
<1> DEFINE r == [p EXCEPT !.content = content]
<1>3. p \in ResultShape
  BY <1>1 DEF Fits, ObjectShape
<1>4. r \in ResultShape /\ r.present = p.present /\ r.contributions = p.contributions
  BY <1>3 DEF ResultShape, Contents
<1>5. p.present /\ Len(p.contributions) <= NumParticipants
  BY <1>1 DEF Fits, Progress, Books, Settling, Persists
<1>6. SimpleCompletes(s, r)
  BY <1>2
<1> HIDE DEF r, p
<1>7. Len(r.contributions) <= NumParticipants
  BY <1>4, <1>5
<1> QED
  BY <1>1, <1>4, <1>5, <1>6, <1>7, SimpleCompletion DEF p

------------------------------------------------------------------------------
(***************************************************************************)
(* Persisting                                                              *)
(***************************************************************************)

\* A session goes on being persisted.
LEMMA PersistsOn ==
    ASSUME IInv, NEW s \in Sessions, flow[s].pc \in Persists, NEW f \in FlowShape,
           f.pc = NextWrite(f), f.republish = flow[s].republish, Parks(s, f),
           UNCHANGED <<sessions, issued, activeSteps>>
    PROVE  IInv'
<1>1. Placed /\ Fits(session[s], flow[s])
  BY DEF IInv, Placed
<1>2. Becomes(s, session[s], f)
  BY <1>1, ParksBecomes
<1>3. Place(session[s], f) /\ Progress(session[s], f)
  BY <1>1 DEF Fits, Place, Progress, Running, Settling, Persists, InStep, NextWrite
<1>4. Fits(session[s], f) /\ session[s].status # "none"
  BY <1>1, <1>3 DEF Fits, Place, Settling
<1>5. s \in issued /\ flow[s].pc \notin InStep /\ f.pc \notin InStep
  BY ParkedIsIssued DEF InStep, Persists, NextWrite
<1> QED
  BY <1>2, <1>4, <1>5, Proceeds

LEMMA SessionPersistedStep ==
    ASSUME IInv, NEW s \in Sessions, SessionPersisted(s)
    PROVE  IInv'
<1> DEFINE pc == NextWrite(flow[s])
           f == [flow[s] EXCEPT !.pc = pc]
<1>1. flow[s] \in FlowShape /\ flow[s].pc = "persistSession"
  BY DEF IInv, Placed, SessionPersisted, At
<1>2. pc \in Persists /\ pc \in Places
  BY DEF NextWrite, Persists, Places, Settling
<1> HIDE DEF pc
<1>3. f \in FlowShape /\ f.pc = pc /\ f.republish = flow[s].republish /\ f.todo = flow[s].todo
  BY <1>1, <1>2 DEF FlowShape
<1>4. Parks(s, f) /\ UNCHANGED <<sessions, issued, activeSteps>>
  BY DEF SessionPersisted, pc
<1>5. f.pc = NextWrite(f)
  BY <1>3 DEF pc, NextWrite
<1> HIDE DEF f
<1> QED
  BY <1>1, <1>3, <1>4, <1>5, PersistsOn DEF Persists

LEMMA ContributionPersistedStep ==
    ASSUME IInv, NEW s \in Sessions, ContributionPersisted(s)
    PROVE  IInv'
<1> DEFINE rest == [flow[s] EXCEPT !.todo = Tail(@)]
           pc == NextWrite(rest)
           f == [rest EXCEPT !.pc = pc]
<1>1. flow[s] \in FlowShape /\ flow[s].pc = "persistContributions" /\ flow[s].todo # <<>>
  BY DEF IInv, Placed, ContributionPersisted, At, Fits, Progress
<1>2. rest \in FlowShape /\ rest.republish = flow[s].republish
  <2>1. flow[s].todo \in Seq(Writes)
    BY <1>1 DEF FlowShape
  <2>2. Tail(flow[s].todo) \in Seq(Writes)
    BY <1>1, <2>1
  <2> QED BY <1>1, <2>2 DEF FlowShape
<1>3. pc \in Persists /\ pc \in Places
  BY DEF NextWrite, Persists, Places, Settling
<1>4. Parks(s, f) /\ UNCHANGED <<sessions, issued, activeSteps>>
  BY DEF ContributionPersisted
<1> HIDE DEF pc, rest
<1>5. f \in FlowShape /\ f.pc = pc /\ f.republish = flow[s].republish /\ f.todo = rest.todo
  BY <1>2, <1>3 DEF FlowShape
<1>6. f.pc = NextWrite(f)
  BY <1>5 DEF pc, NextWrite
<1> HIDE DEF f
<1> QED
  BY <1>1, <1>4, <1>5, <1>6, PersistsOn DEF Persists

\* The result of a session whose persisting is over.
PersistedObject(o, published) ==
    [o EXCEPT !.finalResult = IF published /\ @.present THEN [@ EXCEPT !.publishedTo = TRUE] ELSE @]

LEMMA PersistedShape ==
    ASSUME NEW o \in ObjectShape, Books(o), NEW published \in BOOLEAN
    PROVE  LET q == PersistedObject(o, published)
           IN  /\ q \in ObjectShape /\ Books(q) /\ q.status = o.status /\ q.kind = o.kind
               /\ q.plan = o.plan /\ q.stepOutputs = o.stepOutputs /\ q.executed = o.executed
               /\ q.finalResult.contributions = o.finalResult.contributions
               /\ q.finalResult.present = o.finalResult.present
               /\ q.finalResult.content = o.finalResult.content
<1> DEFINE r == o.finalResult
           p == IF published /\ r.present THEN [r EXCEPT !.publishedTo = TRUE] ELSE r
           q == PersistedObject(o, published)
<1>1. r \in ResultShape
  BY DEF ObjectShape
<1>2. p \in ResultShape /\ p.contributions = r.contributions /\ p.present = r.present
      /\ p.content = r.content
  BY <1>1 DEF ResultShape
<1>3. q = [o EXCEPT !.finalResult = p]
  BY DEF PersistedObject
<1> HIDE DEF p, q
<1>4. /\ q \in ObjectShape /\ q.status = o.status /\ q.kind = o.kind
      /\ q.plan = o.plan /\ q.stepOutputs = o.stepOutputs /\ q.executed = o.executed
      /\ q.finalResult = p
  BY <1>2, <1>3 DEF ObjectShape
<1>5. Books(q)
  BY <1>2, <1>4 DEF Books
<1> QED
  BY <1>2, <1>4, <1>5 DEF q

\* Control returns from persisting to whoever asked for it.
LEMMA PersistedCompletes ==
    ASSUME IInv, NEW s \in Sessions, flow[s].pc \in Persists, NEW published \in BOOLEAN,
           Persisted(s, published)
    PROVE  Completes(s, PersistedObject(session[s], published), TRUE)
<1> DEFINE o == PersistedObject(session[s], published)
<1>1. /\ session[s] \in ObjectShape /\ Books(session[s]) /\ session[s].status = "completed"
      /\ session[s].kind # "none" /\ (flow[s].republish => session[s].kind = "coordinate")
      /\ flow[s].republish \in BOOLEAN
  BY DEF IInv, Placed, Fits, Place, FlowShape, Settling
<1>2. o \in ObjectShape /\ Books(o) /\ o.status = "completed" /\ o.kind = session[s].kind
  BY <1>1, PersistedShape
<1>3. o.kind \in {"rerun", "orchestrate", "approve", "coordinate"}
  BY <1>1, <1>2 DEF ObjectShape, Kinds, AllEntryPoints
<1>4. CASE o.kind = "rerun" \/ o.kind = "orchestrate" \/ (o.kind = "coordinate" /\ flow[s].republish)
  <2>1. PICK q \in {o, CleanupAndShutdown(o), Cleanup(o)} : Ends(s, q)
    BY <1>4 DEF Persisted, PersistedObject
  <2> HIDE DEF o
  <2>2. q \in ObjectShape /\ Books(q) /\ q.status = "completed" /\ SameBooks(q, o)
    BY <1>2, CleanedUp DEF SameBooks
  <2>3. Fits(q, Parked("ended"))
    BY <2>2, EndFits
  <2>4. Completes(s, o, TRUE)
    BY <2>1, <2>2, <2>3 DEF Completes, Ends
  <2> QED BY <2>4 DEF o
<1>5. CASE o.kind = "approve" \/ (o.kind = "coordinate" /\ ~ flow[s].republish)
  <2> DEFINE q == CleanupAndShutdown(o)
  <2>1. Review(s, q)
    BY <1>5 DEF Persisted, PersistedObject
  <2> HIDE DEF o
  <2>2. q \in ObjectShape /\ Books(q) /\ q.status = "completed" /\ SameBooks(q, o)
    BY <1>2, CleanedUp DEF SameBooks
  <2> HIDE DEF q
  <2>3. Completes(s, q, TRUE)
    BY <1>5, <2>1, <2>2, ReviewCompletes DEF SameBooks
  <2>4. Completes(s, o, TRUE)
    BY <2>2, <2>3 DEF Completes, SameBooks
  <2> QED BY <2>4 DEF o
<1> QED BY <1>1, <1>3, <1>4, <1>5

LEMMA PersistedStep ==
    ASSUME IInv, NEW s \in Sessions, Published(s) \/ PublicationFails(s) \/ PersistingFails(s)
    PROVE  IInv'
<1>1. PICK published \in BOOLEAN : Persisted(s, published)
  BY DEF Published, PublicationFails, PersistingFails
<1>2. flow[s].pc \in Persists /\ UNCHANGED <<sessions, issued, activeSteps>>
  BY DEF Published, PublicationFails, PersistingFails, At, Persists
<1>3. Completes(s, PersistedObject(session[s], published), TRUE)
  BY <1>1, <1>2, PersistedCompletes
<1>4. flow[s].pc \notin InStep \union {"idle"}
  BY <1>2 DEF Persists, InStep
<1> QED
  BY <1>2, <1>3, <1>4, CompletesStep

LEMMA SynthesisCompletes ==
    ASSUME IInv, NEW s \in Sessions, SynthesisReturns(s)
    PROVE  \/ ~ session[s].finalResult.present /\ Ends(s, Fail(session[s]))
           \/ Completes(s, session[s], TRUE)
           \/ Completes(s, [session[s] EXCEPT !.finalResult.content = "synthesis"], TRUE)
<1> DEFINE o == session[s]
           q == [o EXCEPT !.finalResult.content = "synthesis"]
<1>1. o \in ObjectShape /\ Books(o) /\ o.kind \in {"coordinate", "approve"}
  BY DEF IInv, Placed, SynthesisReturns, At, Fits, Place
<1>2. CASE Conclude(s, o)
  BY <1>1, <1>2, ConcludeCompletes
<1>3. CASE Conclude(s, q)
  <2>1. q \in ObjectShape /\ Books(q) /\ q.kind \in {"coordinate", "approve"}
    <3> DEFINE r == [o.finalResult EXCEPT !.content = "synthesis"]
    <3>1. /\ r \in ResultShape /\ r.contributions = o.finalResult.contributions
          /\ r.present = o.finalResult.present
      BY <1>1 DEF ObjectShape, ResultShape, Contents
    <3>2. q = [o EXCEPT !.finalResult = r]
      OBVIOUS
    <3> HIDE DEF r, q
    <3>3. q \in ObjectShape /\ q.kind = o.kind
          /\ q.plan = o.plan /\ q.stepOutputs = o.stepOutputs /\ q.executed = o.executed
          /\ q.finalResult = r
      BY <1>1, <3>1, <3>2 DEF ObjectShape
    <3> QED BY <1>1, <3>1, <3>3 DEF Books
  <2>2. Conclude(s, q)
    BY <1>3
  <2> HIDE DEF q
  <2>3. Completes(s, q, TRUE)
    BY <2>1, <2>2, ConcludeCompletes
  <2> QED BY <2>3 DEF q
<1> QED
  BY <1>2, <1>3 DEF SynthesisReturns

LEMMA SynthesisReturnsStep ==
    ASSUME IInv, NEW s \in Sessions, SynthesisReturns(s)
    PROVE  IInv'
<1>1. session[s] \in ObjectShape /\ Books(session[s]) /\ flow[s].pc = "synthesizing"
  BY DEF IInv, Placed, SynthesisReturns, At, Fits
<1>2. UNCHANGED <<sessions, issued, activeSteps>> /\ flow[s].pc \notin InStep \union {"idle"}
  BY <1>1 DEF SynthesisReturns, InStep
<1>3. CASE Ends(s, Fail(session[s]))
  <2>1. Fits(Fail(session[s]), Parked("ended")) /\ Fail(session[s]).status # "none"
    BY <1>1, FailFits
  <2> QED BY <1>2, <1>3, <2>1, EndsStep
<1> QED
  BY <1>2, <1>3, SynthesisCompletes, CompletesStep

------------------------------------------------------------------------------
(***************************************************************************)
(* Calls on sessions                                                       *)
(***************************************************************************)

LEMMA ApproveStep ==
    ASSUME IInv, NEW s \in Sessions, ApproveAndExecutePlan(s)
    PROVE  IInv'
<1> DEFINE o == [session[s] EXCEPT !.status = "in_progress"]
           f == Parked("stepping")
<1>1. Fits(session[s], flow[s]) /\ session[s].status = "pending" /\ session[s].kind = "approve"
  BY DEF IInv, Placed, ApproveAndExecutePlan
<1>2. flow[s].pc = "idle"
  BY <1>1 DEF Fits, Place, FlowShape, Places, Running, Settling
<1>3. /\ o \in ObjectShape /\ Books(o) /\ o.status = "in_progress" /\ o.kind = "approve"
      /\ o.managers = session[s].managers /\ o.executed = session[s].executed
      /\ o.stepOutputs = session[s].stepOutputs
  BY <1>1, StatusSet DEF Fits, Statuses
<1>4. f \in FlowShape
  BY ParkedShape DEF Places, Running
<1>5. f.pc = "stepping" /\ f.i = 1
  BY DEF Parked
<1>6. Becomes(s, o, f) /\ UNCHANGED <<sessions, issued, activeSteps>> /\ s \in issued
  BY DEF ApproveAndExecutePlan, IInv, Listed
<1> HIDE DEF o, f
<1>7. Place(o, f) /\ Progress(o, f)
  BY <1>1, <1>2, <1>3, <1>5 DEF Fits, Place, Progress, Running, Settling, Persists, InStep
<1>8. Fits(o, f)
  BY <1>3, <1>4, <1>7 DEF Fits
<1> QED
  BY <1>2, <1>3, <1>5, <1>6, <1>8, Proceeds DEF InStep

LEMMA DeleteStep ==
    ASSUME IInv, NEW s \in Sessions, DeleteSession(s)
    PROVE  IInv'
BY DEF IInv, Placed, Listed, ActiveStepIsCurrent, DeleteSession

\* Only the result of a session goes that settled, under a function that ended
\* or is persisting or synthesising.
LEMMA PurgeStep ==
    ASSUME IInv, NEW s \in Sessions, PurgeSessionResults(s)
    PROVE  IInv'
<1> DEFINE o == [session[s] EXCEPT !.finalResult = NoResult]
           f == flow[s]
<1>1. Placed /\ Fits(session[s], f) /\ session[s].status \notin {"pending", "in_progress", "none"}
  BY DEF IInv, Placed, Listed, PurgeSessionResults, Settled
<1>2. f.pc \in Settling \union {"ended"}
  BY <1>1 DEF Fits, Place, FlowShape, Places
<1>3. NoResult \in ResultShape /\ ~ NoResult.present /\ NoResult.contributions = <<>>
  BY DEF NoResult, ResultShape, Contents
<1>4. /\ o \in ObjectShape /\ o.status = session[s].status /\ o.kind = session[s].kind
      /\ o.plan = session[s].plan /\ o.stepOutputs = session[s].stepOutputs
      /\ o.executed = session[s].executed /\ o.finalResult = NoResult
      /\ o.managers = session[s].managers
  BY <1>1, <1>3 DEF Fits, ObjectShape
<1>5. Becomes(s, o, f) /\ UNCHANGED <<sessions, issued, activeSteps>> /\ s \in issued
  <2>1. flow \in [Sessions -> FlowShape] /\ flow' = flow
    BY <1>1 DEF Placed, PurgeSessionResults
  <2> QED BY <2>1 DEF PurgeSessionResults, Becomes, IInv, Listed
<1> HIDE DEF o, f
<1>6. NumParticipants \in Nat
  BY BoundsAssumption
<1>7. Books(o)
  BY <1>1, <1>3, <1>4, <1>6 DEF Fits, Books
<1>8. Place(o, f) /\ Progress(o, f)
  BY <1>1, <1>2, <1>4 DEF Fits, Place, Progress, Running, Settling, Persists, InStep
<1>9. Fits(o, f) /\ f.pc \notin InStep /\ o.status # "none"
  BY <1>1, <1>2, <1>4, <1>7, <1>8 DEF Fits, Settling, Persists, InStep
<1> QED
  BY <1>5, <1>9, Proceeds DEF f

------------------------------------------------------------------------------
(***************************************************************************)
(* The invariant                                                           *)
(***************************************************************************)

LEMMA AdvanceStep ==
    ASSUME IInv, NEW s \in Sessions, Advance(s)
    PROVE  IInv'
<1>1. CASE Joined(s) \/ JoinFails(s)
  BY <1>1, JoinedStep, JoinFailsStep
<1>2. CASE CoordinatorResolved(s) \/ CoordinatorMissing(s)
  BY <1>2, GoesOnStep, CoordinatorMissingStep
<1>3. CASE \E plan \in Plans : PlanMade(s, plan)
  BY <1>3, PlanMadeStep
<1>4. CASE PlanningFails(s)
  BY <1>4, GoesOnStep, PlanningFailsStep
<1>5. CASE StepBegins(s)
  BY <1>5, StepBeginsStep
<1>6. CASE SessionRecordEnsured(s)
  <2>1. /\ Parks(s, [flow[s] EXCEPT !.pc = "executing"]) /\ flow[s].pc = "ensuring"
        /\ UNCHANGED <<sessions, issued, activeSteps>>
    BY <1>6 DEF SessionRecordEnsured, At
  <2> QED BY <2>1, WithinStep DEF InStep
<1>7. CASE ToolRecords(s)
  BY <1>7, MemoryKept DEF ToolRecords, memory
<1>8. CASE StepExecuted(s)
  <2>1. /\ Parks(s, [flow[s] EXCEPT !.pc = "storing"]) /\ flow[s].pc = "executing"
        /\ UNCHANGED <<sessions, issued, activeSteps>>
    BY <1>8 DEF StepExecuted, At
  <2> QED BY <2>1, WithinStep DEF InStep
<1>9. CASE StepStored(s) \/ StepFails(s)
  BY <1>9, StepStoredStep, StepFailsStep
<1>10. CASE PlanCompletes(s) \/ CreativePublished(s)
  BY <1>10, PlanCompletesStep, CreativePublishedStep
<1>11. CASE ParticipantAsked(s) \/ ParticipantMissing(s) \/ ParticipantsDone(s)
  BY <1>11, ParticipantAskedStep, ParticipantMissingStep, ParticipantsDoneStep
<1>15. CASE Integrated(s)
  <2>1. /\ flow[s].pc \notin InStep \union {"idle"} /\ UNCHANGED <<sessions, issued, activeSteps>>
    BY <1>15 DEF Integrated, At, InStep
  <2> QED BY <1>15, <2>1, IntegratedCompletes, CompletesStep
<1>12. CASE SessionPersisted(s) \/ ContributionPersisted(s)
  BY <1>12, SessionPersistedStep, ContributionPersistedStep
<1>13. CASE Published(s) \/ PublicationFails(s) \/ PersistingFails(s)
  BY <1>13, PersistedStep
<1>14. CASE SynthesisReturns(s)
  BY <1>14, SynthesisReturnsStep
<1> QED
  BY <1>1, <1>2, <1>3, <1>4, <1>5, <1>6, <1>7, <1>8, <1>9, <1>10, <1>11, <1>12, <1>13, <1>14,
     <1>15 DEF Advance

LEMMA IInvInit == Init => IInv
<1> SUFFICES ASSUME Init PROVE IInv
  OBVIOUS
<1>1. \A s \in Sessions : session[s] = NoSession /\ flow[s] = Parked("idle")
  BY DEF Init
<1>2. Parked("idle") \in FlowShape /\ Parked("idle").pc = "idle"
  BY ParkedShape DEF Places
<1>3. NoSession \in ObjectShape /\ NoSession.status = "none"
  BY NoSessionShape
<1>4. Fits(NoSession, Parked("idle"))
  <2>1. /\ NoSession.stepOutputs = <<>> /\ ~ NoSession.executed
        /\ NoSession.finalResult.contributions = <<>>
    BY DEF NoSession, NewSession, NoResult
  <2>2. NumParticipants \in Nat
    BY BoundsAssumption
  <2>3. Place(NoSession, Parked("idle"))
    BY <1>2, <1>3 DEF Place, Running, Settling, Persists, InStep
  <2>4. Books(NoSession) /\ Progress(NoSession, Parked("idle"))
    BY <1>2, <2>1, <2>2 DEF Books, Progress, InStep
  <2> QED BY <1>2, <1>3, <2>3, <2>4 DEF Fits
<1>5. Placed
  <2>1. session \in [Sessions -> ObjectShape] /\ flow \in [Sessions -> FlowShape]
    BY <1>2, <1>3 DEF Init
  <2> QED BY <1>1, <1>4, <2>1 DEF Placed
<1>6. Listed
  BY <1>1, <1>2, <1>3 DEF Init, Listed
<1>7. ActiveStepIsCurrent
  BY <1>1, <1>2 DEF Init, ActiveStepIsCurrent, InStep
<1> QED
  BY <1>5, <1>6, <1>7 DEF IInv

LEMMA IInvStep == IInv /\ [Next]_vars => IInv'
<1> SUFFICES ASSUME IInv, [Next]_vars PROVE IInv'
  OBVIOUS
<1>1. ASSUME NEW s \in Sessions,
             Arrive(s) \/ Advance(s) \/ ApproveAndExecutePlan(s) \/ DeleteSession(s)
                \/ PurgeSessionResults(s)
      PROVE  IInv'
  BY <1>1, ArriveStep, AdvanceStep, ApproveStep, DeleteStep, PurgeStep
<1>2. CASE (\E c \in Coordinators : OrchestrateRefused(c)) \/ TimePasses \/ SlotsCleanedUp
  BY <1>2, MemoryKept DEF OrchestrateRefused, TimePasses, SlotsCleanedUp, memory
<1>3. CASE Killed
  BY <1>3, MemoryLostStep DEF Killed
<1>4. CASE Restart \/ UNCHANGED vars
  BY <1>4, MemoryKept DEF Restart, vars, memory
<1> QED
  BY <1>1, <1>2, <1>3, <1>4 DEF Next

\* Whatever a session is doing, its object, its place and its books agree.
THEOREM EverySessionFits == Spec => []IInv
<1> QED
  BY IInvInit, IInvStep, PTL DEF Spec

\* activeSteps names the sessions inside a step and the step they are in, for
\* any number of sessions and any plans.
THEOREM ActiveSteps == Spec => []ActiveStepIsCurrent
<1>1. IInv => ActiveStepIsCurrent
  BY DEF IInv
<1> QED
  BY <1>1, EverySessionFits, PTL

\* No step of a plan runs without the session's managers.
THEOREM ManagersInPlace == Spec => []StepsHaveTheirManagers
<1>1. IInv => StepsHaveTheirManagers
  BY DEF IInv, Placed, Fits, Place, StepsHaveTheirManagers, Managers
<1> QED
  BY <1>1, EverySessionFits, PTL

------------------------------------------------------------------------------
(***************************************************************************)
(* The lifecycle the API shows                                             *)
(***************************************************************************)

Reported == [s \in Sessions |-> IF s \in sessions THEN session[s].status ELSE "absent"]

\* What may become of the status of a session that is known.
MayBecome(from, to) ==
    \/ to = from
    \/ from = "pending" /\ to = "in_progress"
    \/ from \in {"pending", "in_progress"} /\ to \in {"completed", "failed"}
    \/ from = "completed" /\ to = "failed"

\* One session's status moves, under the same list of sessions and as the kind
\* of session it is.
Moves(s) ==
    /\ sessions' = sessions
    /\ \A t \in Sessions \ {s} : session'[t] = session[t]
    /\ MayBecome(session[s].status, session'[s].status)
    /\ session'[s].kind = session[s].kind

LEMMA MovesImplements ==
    ASSUME NEW s \in Sessions, Moves(s)
    PROVE  [Lifecycle!Next]_Reported
<1>1. CASE s \notin sessions \/ session'[s].status = session[s].status
  <2>1. Reported' = Reported
    BY <1>1 DEF Reported, Moves
  <2> QED BY <2>1
<1>2. CASE s \in sessions /\ session'[s].status # session[s].status
  <2>1. Reported' = [Reported EXCEPT ![s] = session'[s].status]
    <3>1. \A t \in Sessions :
             (IF t \in sessions THEN session[t].status ELSE "absent")'
                = IF t = s THEN session'[s].status
                  ELSE IF t \in sessions THEN session[t].status ELSE "absent"
      BY <1>2 DEF Moves
    <3> QED BY <3>1 DEF Reported
  <2>2. Reported[s] = session[s].status
    BY <1>2 DEF Reported
  <2>3. Lifecycle!Begin(s) \/ Lifecycle!Settle(s) \/ Lifecycle!FailLate(s)
    BY <1>2, <2>1, <2>2 DEF Moves, MayBecome, Lifecycle!Begin, Lifecycle!Settle,
       Lifecycle!FailLate, Lifecycle!Moves, Lifecycle!Terminal, Reported
  <2> QED BY <2>3 DEF Lifecycle!Next
<1> QED BY <1>1, <1>2

\* A session that is listed anew, as waiting or running.
LEMMA ListsImplements ==
    ASSUME NEW s \in Sessions, s \notin sessions, sessions' = sessions \union {s},
           \A t \in Sessions \ {s} : session'[t] = session[t],
           session'[s].status \in {"pending", "in_progress"}
    PROVE  [Lifecycle!Next]_Reported
<1>1. Reported[s] = "absent" /\ Reported' = [Reported EXCEPT ![s] = session'[s].status]
  BY DEF Reported
<1>2. Lifecycle!Create(s)
  BY <1>1 DEF Lifecycle!Create, Lifecycle!Moves, Reported
<1> QED BY <1>2 DEF Lifecycle!Next

LEMMA LossImplements ==
    ASSUME MemoryLost
    PROVE  [Lifecycle!Next]_Reported
<1>1. Reported' = [s \in Sessions |-> "absent"]
  BY DEF Reported, MemoryLost
<1>2. Lifecycle!LoseAll
  BY <1>1 DEF Lifecycle!LoseAll, Reported
<1> QED BY <1>2 DEF Lifecycle!Next

LEMMA BecomesMoves ==
    ASSUME IInv, NEW s \in Sessions, NEW o, NEW f, Becomes(s, o, f), sessions' = sessions,
           MayBecome(session[s].status, o.status), o.kind = session[s].kind
    PROVE  Moves(s)
BY DEF IInv, Placed, Becomes, Moves

LEMMA CompletesMoves ==
    ASSUME IInv, NEW s \in Sessions, NEW o, NEW persists, Completes(s, o, persists),
           session[s].status \in {"in_progress", "completed"}, sessions' = sessions,
           o.kind = session[s].kind
    PROVE  Moves(s)
BY BecomesMoves DEF Completes, MayBecome, SameBooks

LEMMA ArriveImplements ==
    ASSUME IInv, NEW s \in Sessions, Arrive(s)
    PROVE  [Lifecycle!Next]_Reported
<1>1. PICK o, f : Becomes(s, o, f) /\ o.status \in {"pending", "in_progress"}
  <2>1. \A kind, c, status, plan : NewSession(kind, c, status, plan).status = status
    BY DEF NewSession
  <2>2. CASE \E c \in Coordinators : Orchestrate(s, c)
    BY <2>1, <2>2 DEF Orchestrate
  <2>3. CASE \E c \in Coordinators : Coordinate(s, c)
    BY <2>1, <2>3 DEF Coordinate
  <2>4. CASE \E c \in Coordinators, plan \in Plans : CreateCoordinationPlan(s, c, plan)
    BY <2>1, <2>4 DEF CreateCoordinationPlan
  <2>5. CASE \E old \in Sessions : RerunSession(old, s)
    BY <2>1, <2>5 DEF RerunSession
  <2> QED BY <2>2, <2>3, <2>4, <2>5 DEF Arrive
<1>2. s \notin issued
  BY DEF Arrive, Orchestrate, Coordinate, CreateCoordinationPlan, RerunSession, Fresh
<1>3. s \notin sessions
  BY <1>2 DEF IInv, Listed
<1>4. session'[s] = o /\ \A t \in Sessions \ {s} : session'[t] = session[t]
  BY <1>1 DEF IInv, Placed, Becomes
<1>5. sessions' = sessions \/ sessions' = sessions \union {s}
  BY DEF Arrive, Orchestrate, Coordinate, CreateCoordinationPlan, RerunSession
<1>6. CASE sessions' = sessions
  BY <1>3, <1>4, <1>6 DEF Reported
<1>7. CASE sessions' = sessions \union {s}
  BY <1>1, <1>3, <1>4, <1>7, ListsImplements
<1> QED BY <1>5, <1>6, <1>7

LEMMA JoinedImplements ==
    ASSUME IInv, NEW s \in Sessions, Joined(s)
    PROVE  [Lifecycle!Next]_Reported
<1>1. session' = session /\ sessions' = sessions \union {s}
  BY DEF Joined, Parks
<1>2. session[s].status = "in_progress"
  BY DEF IInv, Placed, Fits, Place, Joined, At, Running
<1>3. CASE s \in sessions
  BY <1>1, <1>3 DEF Reported
<1>4. CASE s \notin sessions
  BY <1>1, <1>2, <1>4, ListsImplements
<1> QED BY <1>3, <1>4

\* Every other turn of a session's function moves its status as it may move,
\* but for the failure of an orchestrated step, which takes the process down.
LEMMA AdvanceMoves ==
    ASSUME IInv, NEW s \in Sessions, Advance(s), ~ Joined(s), ~ MemoryLost
    PROVE  Moves(s)
<1> DEFINE o == session[s]
<1>1. o \in ObjectShape /\ Books(o) /\ Place(o, flow[s]) /\ Fits(o, flow[s])
  BY DEF IInv, Placed, Fits
<1>2. sessions' = sessions
  BY DEF Advance, Joined, JoinFails, CoordinatorResolved, CoordinatorMissing, PlanMade,
     PlanningFails, StepBegins, SessionRecordEnsured, ToolRecords, memory, StepExecuted, StepStored,
     StepFails, PlanCompletes, CreativePublished, ParticipantAsked, ParticipantMissing,
     ParticipantsDone, Integrated, SessionPersisted, ContributionPersisted, Published,
     PublicationFails, PersistingFails, SynthesisReturns
<1>3. CASE session' = session
  BY <1>2, <1>3 DEF Moves, MayBecome
<1>4. CASE CoordinatorResolved(s) \/ CoordinatorMissing(s)
  <2>1. o.status = "pending"
    BY <1>1, <1>4 DEF CoordinatorResolved, CoordinatorMissing, At, Place
  <2>2. /\ [o EXCEPT !.status = "in_progress"].status = "in_progress" /\ Fail(o).status = "failed"
        /\ [o EXCEPT !.status = "in_progress"].kind = o.kind /\ Fail(o).kind = o.kind
    BY <1>1, StatusSet, Failed DEF Statuses
  <2> QED BY <1>2, <1>4, <2>1, <2>2, BecomesMoves
          DEF CoordinatorResolved, CoordinatorMissing, Ends, MayBecome
<1>5. CASE (\E plan \in Plans : PlanMade(s, plan)) \/ PlanningFails(s)
  <2>1. o.status = "in_progress"
    BY <1>1, <1>5 DEF PlanMade, PlanningFails, At, Place, Running
  <2>2. CASE Becomes(s, [o EXCEPT !.status = "in_progress"], Parked("asking"))
    <3>1. [o EXCEPT !.status = "in_progress"].status = "in_progress"
          /\ [o EXCEPT !.status = "in_progress"].kind = o.kind
      BY <1>1 DEF ObjectShape
    <3> QED BY <1>2, <2>1, <2>2, <3>1, BecomesMoves DEF MayBecome
  <2>3. ASSUME NEW plan \in Plans, Becomes(s, [o EXCEPT !.plan = plan], Parked("stepping"))
        PROVE  Moves(s)
    <3>1. [o EXCEPT !.plan = plan].status = "in_progress" /\ [o EXCEPT !.plan = plan].kind = o.kind
      BY <1>1, <2>1 DEF ObjectShape
    <3> QED BY <1>2, <2>1, <2>3, <3>1, BecomesMoves DEF MayBecome
  <2> QED BY <1>3, <1>5, <2>2, <2>3 DEF PlanMade, PlanningFails, Parks
<1>6. CASE StepStored(s) \/ StepFails(s)
  <2>1. o.status = "in_progress"
    BY <1>1, <1>6 DEF StepStored, StepFails, At, Place, Running, InStep
  <2>2. ASSUME NEW f, Becomes(s, [o EXCEPT !.stepOutputs = Append(@, flow[s].i)], f)
        PROVE  Moves(s)
    <3>1. /\ [o EXCEPT !.stepOutputs = Append(@, flow[s].i)].status = "in_progress"
          /\ [o EXCEPT !.stepOutputs = Append(@, flow[s].i)].kind = o.kind
      BY <1>1, <2>1 DEF ObjectShape
    <3> QED BY <1>2, <2>1, <2>2, <3>1, BecomesMoves DEF MayBecome
  <2>3. CASE Ends(s, Fail(o))
    <3>1. Fail(o).status = "failed" /\ Fail(o).kind = o.kind
      BY <1>1, Failed
    <3> QED BY <1>2, <2>1, <2>3, <3>1, BecomesMoves DEF Ends, MayBecome
  <2>4. CASE Becomes(s, [Fail(o) EXCEPT !.status = "in_progress"], Parked("asking"))
    <3>1. Fail(o) \in ObjectShape /\ Fail(o).kind = o.kind
      BY <1>1, Failed
    <3>2. /\ [Fail(o) EXCEPT !.status = "in_progress"].status = "in_progress"
          /\ [Fail(o) EXCEPT !.status = "in_progress"].kind = o.kind
      BY <3>1 DEF ObjectShape
    <3> QED BY <1>2, <2>1, <2>4, <3>2, BecomesMoves DEF MayBecome
  <2> QED BY <1>6, <2>2, <2>3, <2>4 DEF StepStored, StepFails
<1>7. CASE PlanCompletes(s)
  <2>1. o.status = "in_progress"
    BY <1>1, <1>7 DEF PlanCompletes, At, Place, Running
  <2> DEFINE q == [o EXCEPT !.status = "completed", !.executed = TRUE,
                     !.finalResult = Result([j \in DOMAIN o.plan |-> <<"step", j>>], "steps")]
  <2>2. PICK f : Becomes(s, q, f)
    BY <1>7 DEF PlanCompletes
  <2>3. q.status = "completed" /\ q.kind = o.kind
    BY <1>1 DEF ObjectShape
  <2> QED BY <1>2, <2>1, <2>2, <2>3, BecomesMoves DEF MayBecome
<1>8. CASE JoinFails(s) \/ StepBegins(s) \/ SessionRecordEnsured(s) \/ ToolRecords(s)
           \/ StepExecuted(s) \/ CreativePublished(s) \/ ParticipantAsked(s)
           \/ SessionPersisted(s) \/ ContributionPersisted(s)
  BY <1>3, <1>8 DEF JoinFails, StepBegins, SessionRecordEnsured, ToolRecords, memory, StepExecuted,
     CreativePublished, ParticipantAsked, SessionPersisted, ContributionPersisted, Parks
<1>9. CASE ParticipantMissing(s)
  <2>1. o.status = "in_progress"
    BY <1>1, <1>9 DEF ParticipantMissing, At, Place, Running
  <2>2. /\ Fail(o).status = "failed" /\ [o EXCEPT !.status = "failed"].status = "failed"
        /\ Fail(o).kind = o.kind /\ [o EXCEPT !.status = "failed"].kind = o.kind
    BY <1>1, Failed, StatusSet DEF Statuses
  <2>3. Ends(s, Fail(o)) \/ Ends(s, [o EXCEPT !.status = "failed"])
    BY <1>9 DEF ParticipantMissing
  <2> QED BY <1>2, <2>1, <2>2, <2>3, BecomesMoves DEF Ends, MayBecome
<1>10. CASE ParticipantsDone(s) \/ Integrated(s)
  <2>1. flow[s].pc \in {"asking", "integrating"}
    BY <1>10 DEF ParticipantsDone, Integrated, At
  <2>2. o.status = "in_progress"
    BY <1>1, <2>1 DEF Place, Running
  <2>3. CASE Becomes(s, [o EXCEPT !.finalResult = Result(flow[s].answers, "none")],
                     Parked("integrating"))
    <3>1. /\ [o EXCEPT !.finalResult = Result(flow[s].answers, "none")].status = "in_progress"
          /\ [o EXCEPT !.finalResult = Result(flow[s].answers, "none")].kind = o.kind
      BY <1>1, <2>2 DEF ObjectShape
    <3> QED BY <1>2, <2>2, <2>3, <3>1, BecomesMoves DEF MayBecome
  <2>4. ASSUME NEW r, NEW persists, Completes(s, Answered(o, r), persists)
        PROVE  Moves(s)
    <3>1. Answered(o, r).kind = o.kind
      BY <1>1 DEF Answered, ObjectShape
    <3> QED BY <1>2, <2>2, <2>4, <3>1, CompletesMoves
  <2> QED BY <1>10, <2>3, <2>4, ParticipantsDoneStep, IntegratedCompletes
<1>11. CASE Published(s) \/ PublicationFails(s) \/ PersistingFails(s)
  <2>1. PICK published \in BOOLEAN : Persisted(s, published)
    BY <1>11 DEF Published, PublicationFails, PersistingFails
  <2>2. flow[s].pc \in Persists
    BY <1>11 DEF Published, PublicationFails, PersistingFails, At, Persists
  <2>3. Completes(s, PersistedObject(o, published), TRUE)
    BY <2>1, <2>2, PersistedCompletes
  <2>4. o.status = "completed" /\ PersistedObject(o, published).kind = o.kind
    BY <1>1, <2>2, PersistedShape DEF Place, Settling
  <2> QED BY <1>2, <2>3, <2>4, CompletesMoves
<1>12. CASE SynthesisReturns(s)
  <2>1. o.status = "completed" /\ [o EXCEPT !.finalResult.content = "synthesis"].kind = o.kind
    BY <1>1, <1>12 DEF SynthesisReturns, At, Place, Settling, ObjectShape
  <2>2. CASE Ends(s, Fail(o))
    <3>1. Fail(o).status = "failed" /\ Fail(o).kind = o.kind
      BY <1>1, Failed
    <3> QED BY <1>2, <2>1, <2>2, <3>1, BecomesMoves DEF Ends, MayBecome
  <2> QED BY <1>2, <1>12, <2>1, <2>2, SynthesisCompletes, CompletesMoves
<1> QED
  BY <1>4, <1>5, <1>6, <1>7, <1>8, <1>9, <1>10, <1>11, <1>12 DEF Advance

\* Calls on a session, time and the process.
LEMMA OtherImplements ==
    ASSUME IInv, NEW s \in Sessions,
           ApproveAndExecutePlan(s) \/ DeleteSession(s) \/ PurgeSessionResults(s)
    PROVE  [Lifecycle!Next]_Reported
<1> DEFINE o == session[s]
<1>1. o \in ObjectShape /\ Placed
  BY DEF IInv, Placed
<1>2. CASE ApproveAndExecutePlan(s)
  <2> DEFINE q == [o EXCEPT !.status = "in_progress"]
  <2>1. q.status = "in_progress" /\ o.status = "pending" /\ sessions' = sessions
        /\ q.kind = o.kind /\ Becomes(s, q, Parked("stepping"))
    BY <1>1, <1>2 DEF ObjectShape, ApproveAndExecutePlan
  <2> HIDE DEF q
  <2>2. Moves(s)
    BY <2>1, BecomesMoves DEF MayBecome
  <2> QED BY <2>2, MovesImplements
<1>3. CASE DeleteSession(s)
  <2>1. /\ s \in sessions /\ sessions' = sessions \ {s} /\ session' = session
        /\ o.status \in {"completed", "failed"}
    BY <1>1, <1>3 DEF DeleteSession, Settled, ObjectShape, Statuses, IInv, Listed
  <2>2. Reported[s] = o.status
    BY <2>1 DEF Reported
  <2>3. Reported' = [Reported EXCEPT ![s] = "absent"]
    <3>1. \A t \in Sessions :
             (IF t \in sessions THEN session[t].status ELSE "absent")'
                = IF t = s THEN "absent"
                  ELSE IF t \in sessions THEN session[t].status ELSE "absent"
      BY <2>1
    <3> QED BY <3>1 DEF Reported
  <2>4. Lifecycle!Delete(s)
    BY <2>1, <2>2, <2>3 DEF Lifecycle!Delete, Lifecycle!Moves, Lifecycle!Terminal, Reported
  <2> QED BY <2>4 DEF Lifecycle!Next
<1>4. CASE PurgeSessionResults(s)
  <2>1. \A t \in Sessions : session'[t].status = session[t].status
    BY <1>1, <1>4 DEF PurgeSessionResults, Placed, ObjectShape
  <2>2. Reported' = Reported
    BY <1>4, <2>1 DEF Reported, PurgeSessionResults
  <2> QED BY <2>2
<1> QED BY <1>2, <1>3, <1>4

LEMMA NextImplements == IInv /\ [Next]_vars => [Lifecycle!Next]_Reported
<1> SUFFICES ASSUME IInv, [Next]_vars PROVE [Lifecycle!Next]_Reported
  OBVIOUS
<1>1. ASSUME NEW s \in Sessions, Advance(s) PROVE [Lifecycle!Next]_Reported
  BY <1>1, JoinedImplements, LossImplements, AdvanceMoves, MovesImplements
<1>2. ASSUME NEW s \in Sessions,
             Arrive(s) \/ ApproveAndExecutePlan(s) \/ DeleteSession(s) \/ PurgeSessionResults(s)
      PROVE  [Lifecycle!Next]_Reported
  BY <1>2, ArriveImplements, OtherImplements
<1>3. CASE Killed
  BY <1>3, LossImplements DEF Killed
<1>4. CASE UNCHANGED <<sessions, session>>
  BY <1>4 DEF Reported
<1>5. CASE \/ (\E c \in Coordinators : OrchestrateRefused(c)) \/ TimePasses \/ SlotsCleanedUp
           \/ Restart \/ UNCHANGED vars
  BY <1>4, <1>5 DEF OrchestrateRefused, TimePasses, SlotsCleanedUp, Restart, vars, memory
<1> QED
  BY <1>1, <1>2, <1>3, <1>5 DEF Next

\* What the coordinators API reports of the sessions follows the lifecycle: no
\* listed session disappears while it waits or runs, and none that settled runs
\* again, whatever the plans, the failures and the losses of the process.
THEOREM TheServiceFollowsTheLifecycle == Spec => ImplementsLifecycle
<1>1. Init => Lifecycle!Init
  BY DEF Init, Lifecycle!Init
<1> QED
  BY <1>1, EverySessionFits, NextImplements, PTL
     DEF Spec, ImplementsLifecycle, Lifecycle!Spec, Reported

------------------------------------------------------------------------------
(***************************************************************************)
(* What is recorded and published                                          *)
(***************************************************************************)

\* Before anything is persisted.
Early == {"idle", "resolving", "creative"} \union Running

ItemsOf(q) == {q[j] : j \in DOMAIN q}
AuthorsOf(q) == {q[j].author : j \in DOMAIN q}

\* Where a contribution of q would go under a number of its own in o, there is
\* none or the same.
Agrees(s, o, q) ==
    \A j \in DOMAIN q :
        Alone(o, q[j].step) => contributions[s][<<q[j].step, 0>>] \in {NoAuthor, q[j].author}

\* The list q of writes is one the table takes: every row exists and, under
\* numbers of their own in o, no two entries go to one place and entries for one
\* place of p and q are the same.
Writable(o, q) ==
    /\ \A j \in DOMAIN q : q[j].step \in StepNumbers
    /\ \A i, j \in DOMAIN q : Alone(o, q[i].step) /\ q[i].step = q[j].step => i = j

SameWrites(o, p, q) ==
    \A i \in DOMAIN p, j \in DOMAIN q :
        Alone(o, p[i].step) /\ p[i].step = q[j].step => p[i].author = q[j].author

\* The authors R are a record of the result of o.
Records(o, R) ==
    LET authors == ItemsOf(o.finalResult.contributions)
    IN  /\ R \subseteq authors
        /\ R = {} => authors = {}
        /\ NumbersApart(o) => R = authors

\* The record of s is the result, unless statements failed or the result went.
Recorded(s) ==
    s \notin lostWrites /\ session[s].finalResult.present
        => Records(session[s], RecordedAuthors(s))

\* What the place of a session says of its rows.
RowsOf(s) ==
    LET o == session[s]
        f == flow[s]
    IN  /\ f.pc \in Early => RecordedAuthors(s) = {}
        /\ f.pc \in Persists \union {"synthesizing"} => Agrees(s, o, Collect(o))
        /\ f.pc \in Persists =>
              /\ Writable(o, f.todo) /\ Agrees(s, o, f.todo) /\ SameWrites(o, f.todo, Collect(o))
              /\ o.finalResult.present =>
                    Records(o, RecordedAuthors(s) \union AuthorsOf(f.todo))
        /\ f.pc = "synthesizing" =>
              /\ o.finalResult.present => RecordedAuthors(s) \subseteq ResultAuthors(s)
              /\ o.kind = "approve" => Recorded(s)
        /\ f.pc = "ended" /\ o.status = "completed" => Recorded(s)

RowsType == contributions \in [Sessions -> [Positions -> Authors \union {NoAuthor}]]

RecordInv == RowsType /\ \A s \in Sessions : RowsOf(s)

------------------------------------------------------------------------------
(***************************************************************************)
(* Greatest elements                                                       *)
(***************************************************************************)

LEMMA LeastElement ==
    ASSUME NEW S \in SUBSET Nat, S # {}
    PROVE  \E x \in S : \A y \in S : x <= y
<1> DEFINE R == OpToRel(<, Nat)
<1>1. IsWellFoundedOn(R, Nat)
  BY NatLessThanWellFounded
<1>2. \A x, y \in Nat : <<y, x>> \in R <=> y < x
  BY DEF OpToRel
<1> HIDE DEF R
<1>3. PICK x \in S : \A y \in S : ~ (<<y, x>> \in R)
  BY <1>1, WFMin
<1>4. \A y \in S : x \in Nat /\ y \in Nat /\ ~ (y < x)
  BY <1>2, <1>3
<1> QED BY <1>4

LEMMA MaxIsGreatest ==
    ASSUME NEW m \in Nat, NEW S \in SUBSET (0 .. m), S # {}
    PROVE  Max(S) \in S /\ \A y \in S : y <= Max(S)
<1> DEFINE T == {m - x : x \in S}
<1>1. T \in SUBSET Nat /\ T # {}
  <2>1. \A x \in S : m - x \in Nat
    OBVIOUS
  <2> QED BY <2>1
<1>2. PICK t \in T : \A y \in T : t <= y
  BY <1>1, LeastElement
<1>3. PICK x \in S : t = m - x
  BY <1>2
<1>4. \A y \in S : x >= y
  <2> TAKE y \in S
  <2>1. m - y \in T /\ x \in 0 .. m /\ y \in 0 .. m
    OBVIOUS
  <2> QED BY SMTT(30), <1>2, <1>3, <2>1
<1>5. Max(S) \in S /\ \A y \in S : Max(S) >= y
  BY <1>4 DEF Max
<1> QED BY <1>5

\* COALESCE(MAX(sub_step_number), 0) + 1 is the number of no row, and not the
\* step's own.
LEMMA NextSubIsFree ==
    ASSUME NEW s \in Sessions, NEW n, NextSub(s, n) \in 0 .. MaxSub
    PROVE  NextSub(s, n) # 0 /\ contributions[s][<<n, NextSub(s, n)>>] = NoAuthor
<1>1. MaxSub \in Nat
  BY BoundsAssumption
<1>2. CASE SubSteps(s, n) = {}
  BY <1>1, <1>2 DEF NextSub, SubSteps
<1>3. CASE SubSteps(s, n) # {}
  <2> DEFINE m == Max(SubSteps(s, n))
  <2>1. SubSteps(s, n) \in SUBSET (0 .. MaxSub)
    BY DEF SubSteps
  <2>2. m \in SubSteps(s, n) /\ \A y \in SubSteps(s, n) : y <= m
    BY <1>1, <1>3, <2>1, MaxIsGreatest
  <2>3. NextSub(s, n) = m + 1 /\ m \in Nat
    BY <1>1, <1>3, <2>1, <2>2 DEF NextSub
  <2> HIDE DEF m
  <2>4. NextSub(s, n) \notin SubSteps(s, n)
    BY <2>2, <2>3
  <2> QED BY <2>3, <2>4 DEF SubSteps
<1> QED BY <1>2, <1>3

------------------------------------------------------------------------------
(***************************************************************************)
(* What is to be written                                                   *)
(***************************************************************************)

LEMMA ApartAlone ==
    ASSUME NEW o, NumbersApart(o), NEW n
    PROVE  Alone(o, n)
<1> SUFFICES ASSUME NEW i \in DOMAIN o.plan, NEW j \in DOMAIN o.plan,
                    o.executed, o.plan[i] = n, o.plan[j] = n
             PROVE  i = j
  BY DEF Alone
<1> QED BY DEF NumbersApart, Alone

LEMMA AloneSame ==
    ASSUME NEW o, NEW q, q.plan = o.plan, q.executed = o.executed
    PROVE  (\A n : Alone(q, n) <=> Alone(o, n)) /\ (NumbersApart(q) <=> NumbersApart(o))
BY DEF Alone, NumbersApart

\* A record is one of every object with the same plan and the same authors.
LEMMA RecordsSame ==
    ASSUME NEW o, NEW q, NEW R, q.plan = o.plan, q.executed = o.executed,
           q.finalResult.contributions = o.finalResult.contributions, Records(o, R)
    PROVE  Records(q, R)
BY AloneSame DEF Records

LEMMA CollectSame ==
    ASSUME NEW o, NEW q, SameBooks(q, o)
    PROVE  Collect(q) = Collect(o)
BY DEF SameBooks, Collect

LEMMA PersistingTodo ==
    ASSUME NEW o, NEW republish
    PROVE  Persisting(o, republish).todo = Collect(o)
BY DEF Persisting, Parked

\* The list goes to places of its own, and its authors are the result's.
LEMMA CollectWritable ==
    ASSUME NEW o \in ObjectShape, Books(o)
    PROVE  /\ Writable(o, Collect(o)) /\ SameWrites(o, Collect(o), Collect(o))
           /\ o.finalResult.present => AuthorsOf(Collect(o)) = ItemsOf(o.finalResult.contributions)
<1> DEFINE q == Collect(o)
<1>1. /\ o.stepOutputs \in Seq(Nat) /\ o.finalResult.contributions \in Seq(Authors)
      /\ o.plan \in Plans \union {<<>>}
  BY DEF ObjectShape, ResultShape
<1>2. CASE o.executed /\ o.stepOutputs # <<>>
  <2>1. o.plan \in Plans /\ Len(o.stepOutputs) = Len(o.plan)
        /\ \A j \in DOMAIN o.stepOutputs : o.stepOutputs[j] = j
    <3>1. 1 \in DOMAIN o.stepOutputs
      BY <1>1, <1>2
    <3> QED BY <1>1, <1>2, <3>1 DEF Books
  <2>2. o.plan \in Seq(Nat \ {0})
    BY <2>1, PlansAssumption
  <2>3. DOMAIN o.stepOutputs = 1 .. Len(o.plan) /\ DOMAIN o.plan = 1 .. Len(o.plan)
    BY <1>1, <2>1, <2>2
  <2>4. /\ DOMAIN q = DOMAIN o.plan
        /\ \A j \in DOMAIN o.plan : q[j].step = o.plan[j] /\ q[j].author = <<"step", j>>
    BY <1>2, <2>1, <2>3 DEF Collect
  <2> HIDE DEF q
  <2>5. \A j \in DOMAIN q : q[j].step \in StepNumbers
    BY <2>1, <2>4 DEF StepNumbers, Steps
  <2>6. \A i, j \in DOMAIN q : Alone(o, q[i].step) /\ q[i].step = q[j].step => i = j
    BY <1>2, <2>4 DEF Alone
  <2>7. ASSUME o.finalResult.present
        PROVE  AuthorsOf(q) = ItemsOf(o.finalResult.contributions)
    <3>1. o.finalResult.contributions = [j \in DOMAIN o.plan |-> <<"step", j>>]
      BY <1>2, <2>7 DEF Books
    <3>2. AuthorsOf(q) = {<<"step", j>> : j \in DOMAIN o.plan}
      BY <2>4 DEF AuthorsOf
    <3>3. ItemsOf(o.finalResult.contributions) = {<<"step", j>> : j \in DOMAIN o.plan}
      BY <3>1 DEF ItemsOf
    <3> QED BY <3>2, <3>3
  <2> QED BY <2>5, <2>6, <2>7 DEF Writable, SameWrites, q
<1>3. CASE ~ (o.executed /\ o.stepOutputs # <<>>)
  <2> DEFINE r == o.finalResult.contributions
  <2>1. /\ DOMAIN q = DOMAIN r
        /\ \A j \in DOMAIN r : q[j].step = j /\ q[j].author = r[j]
    BY <1>3 DEF Collect
  <2>2. Len(r) <= NumParticipants
    <3>1. CASE o.executed
      <4>1. Len(o.plan) = 0
        BY <1>3, <3>1 DEF Books
      <4>2. CASE o.finalResult.present
        <5>1. o.plan \in Seq(Nat \ {0})
          <6>1. <<>> \in Seq(Nat \ {0})
            OBVIOUS
          <6> QED BY <1>1, <6>1, PlansAssumption
        <5>2. DOMAIN o.plan = {}
          BY <4>1, <5>1
        <5>3. DOMAIN r = {}
          BY <3>1, <4>2, <5>2 DEF Books
        <5>4. Len(r) = 0
          <6>1. DOMAIN r = 1 .. Len(r) /\ Len(r) \in Nat
            BY <1>1
          <6> HIDE DEF r
          <6>2. 1 \notin 1 .. Len(r)
            BY <5>3, <6>1
          <6> QED BY <6>1, <6>2
        <5> QED BY <5>4, BoundsAssumption
      <4>3. CASE ~ o.finalResult.present
        BY <4>3, BoundsAssumption DEF Books
      <4> QED BY <4>2, <4>3
    <3>2. CASE ~ o.executed
      BY <3>2 DEF Books
    <3> QED BY <3>1, <3>2
  <2>3. \A j \in DOMAIN r : j \in 1 .. NumParticipants
    BY <1>1, <2>2, BoundsAssumption
  <2> HIDE DEF q, r
  <2>4. Writable(o, q)
    BY <2>1, <2>3 DEF Writable, StepNumbers
  <2>5. AuthorsOf(q) = ItemsOf(r)
    BY <2>1 DEF AuthorsOf, ItemsOf
  <2> QED BY <2>4, <2>5 DEF Writable, SameWrites, q, r
<1> QED BY <1>2, <1>3

------------------------------------------------------------------------------
(***************************************************************************)
(* Steps                                                                   *)
(***************************************************************************)

\* What a step of s says nothing about stays as it is.
LEMMA OthersKeepRows ==
    ASSUME RecordInv, NEW t \in Sessions, session'[t] = session[t], flow'[t] = flow[t],
           contributions'[t] = contributions[t], lostWrites \subseteq lostWrites'
    PROVE  RowsOf(t)'
<1>1. RowsOf(t)
  BY DEF RecordInv
<1>2. RecordedAuthors(t)' = RecordedAuthors(t) /\ ResultAuthors(t)' = ResultAuthors(t)
  BY DEF RecordedAuthors, ResultAuthors
<1>3. /\ Agrees(t, session[t], Collect(session[t]))
           => Agrees(t, session[t], Collect(session[t]))'
      /\ Agrees(t, session[t], flow[t].todo) => Agrees(t, session[t], flow[t].todo)'
  BY DEF Agrees
<1>4. Recorded(t) => Recorded(t)'
  BY <1>2 DEF Recorded
<1>5. /\ Writable(session[t], flow[t].todo) => Writable(session[t], flow[t].todo)'
      /\ SameWrites(session[t], flow[t].todo, Collect(session[t]))
           => SameWrites(session[t], flow[t].todo, Collect(session[t]))'
      /\ Records(session[t], RecordedAuthors(t) \union AuthorsOf(flow[t].todo))
           => Records(session[t], RecordedAuthors(t) \union AuthorsOf(flow[t].todo))'
  BY <1>2
<1> QED
  BY <1>1, <1>2, <1>3, <1>4, <1>5 DEF RowsOf

LEMMA StepRecords ==
    ASSUME RecordInv, NEW s \in Sessions, RowsOf(s)', RowsType', lostWrites \subseteq lostWrites',
           \A t \in Sessions \ {s} : session'[t] = session[t] /\ flow'[t] = flow[t]
                                       /\ contributions'[t] = contributions[t]
    PROVE  RecordInv'
<1>1. \A t \in Sessions : RowsOf(t)'
  BY OthersKeepRows
<1> QED
  BY <1>1 DEF RecordInv

\* One session's step that writes no contribution.
LEMMA BecomesRecords ==
    ASSUME IInv, RecordInv, NEW s \in Sessions, NEW o, NEW f, Becomes(s, o, f), RowsOf(s)',
           contributions' = contributions, lostWrites \subseteq lostWrites'
    PROVE  RecordInv'
<1>1. \A t \in Sessions \ {s} : session'[t] = session[t] /\ flow'[t] = flow[t]
  BY DEF IInv, Placed, Becomes
<1>2. RowsType'
  BY DEF RecordInv, RowsType
<1> QED
  BY <1>1, <1>2, StepRecords

\* Before anything is persisted, only the place changes.
LEMMA EarlyRecords ==
    ASSUME IInv, RecordInv, NEW s \in Sessions, NEW o, NEW f, Becomes(s, o, f),
           flow[s].pc \in Early, f.pc \in Early,
           contributions' = contributions, lostWrites \subseteq lostWrites'
    PROVE  RecordInv'
<1>1. flow'[s] = f /\ session'[s] = o
  BY DEF IInv, Placed, Becomes
<1>2. RecordedAuthors(s)' = {}
  BY DEF RecordInv, RowsOf, RecordedAuthors
<1>3. RowsOf(s)'
  BY <1>1, <1>2 DEF RowsOf, Early, Persists, Running, InStep
<1> QED
  BY <1>3, BecomesRecords

\* An end without completion.
LEMMA EndsRecords ==
    ASSUME IInv, RecordInv, NEW s \in Sessions, NEW o, Ends(s, o), o.status # "completed",
           contributions' = contributions, lostWrites \subseteq lostWrites'
    PROVE  RecordInv'
<1>1. flow'[s].pc = "ended" /\ session'[s] = o
  BY ParkedPlace DEF IInv, Placed, Ends, Becomes
<1>2. RowsOf(s)'
  BY <1>1 DEF RowsOf, Early, Persists, Running, InStep
<1> QED
  BY <1>2, BecomesRecords DEF Ends

LEMMA CompletesRecords ==
    ASSUME IInv, RecordInv, NEW s \in Sessions, NEW o, NEW persists,
           Completes(s, o, persists), Agrees(s, o, Collect(o)),
           o.finalResult.present => RecordedAuthors(s) \subseteq ItemsOf(o.finalResult.contributions),
           (flow[s].pc \in Persists \/ o.kind = "approve") /\ flow'[s].pc # "persistSession" =>
              (s \notin lostWrites' /\ o.finalResult.present => Records(o, RecordedAuthors(s))),
           contributions' = contributions, lostWrites \subseteq lostWrites'
    PROVE  RecordInv'
<1>1. PICK q, f :
         /\ Becomes(s, q, f) /\ Fits(q, f) /\ SameBooks(q, o) /\ q.status = "completed"
         /\ f \in {Persisting(q, persists), Parked("ended"), Parked("synthesizing")}
         /\ f.pc = "ended" => flow[s].pc \in Persists \/ o.kind = "approve"
  BY DEF Completes
<1>2. /\ session'[s] = q /\ flow'[s] = f
  BY <1>1 DEF IInv, Placed, Becomes
<1>3. /\ q.finalResult = o.finalResult /\ q.kind = o.kind /\ Collect(q) = Collect(o)
      /\ q \in ObjectShape /\ Books(q) /\ q.plan = o.plan /\ q.executed = o.executed
  BY <1>1, CollectSame DEF SameBooks, Fits
<1>4. /\ RecordedAuthors(s)' = RecordedAuthors(s)
      /\ ResultAuthors(s)' = ItemsOf(o.finalResult.contributions)
  BY <1>2, <1>3 DEF RecordedAuthors, ResultAuthors, ItemsOf
<1>5. Agrees(s, session[s], Collect(session[s]))'
  <2>1. Agrees(s, q, Collect(q))
    BY <1>3, AloneSame DEF Agrees
  <2> QED BY <1>2, <2>1 DEF Agrees
<1>6. RowsOf(s)'
  <2>1. CASE f = Persisting(q, persists)
    <3>1. f.pc = "persistSession" /\ f.todo = Collect(q)
      BY <2>1, ParkedPlace, PersistingTodo
    <3>2. /\ Writable(q, Collect(q)) /\ SameWrites(q, Collect(q), Collect(q))
          /\ q.finalResult.present =>
                AuthorsOf(Collect(q)) = ItemsOf(q.finalResult.contributions)
      BY <1>3, CollectWritable
    <3>3. flow'[s].todo = Collect(session[s])' /\ session'[s] = q
      BY <1>2, <3>1 DEF Collect
    <3>4. /\ Writable(session[s], flow[s].todo)'
          /\ SameWrites(session[s], flow[s].todo, Collect(session[s]))'
          /\ Agrees(s, session[s], flow[s].todo)'
      BY <1>2, <1>5, <3>1, <3>2, <3>3
         DEF Writable, SameWrites, Agrees, Alone, StepNumbers, Steps
    <3>5. session'[s].finalResult.present =>
             Records(session[s], RecordedAuthors(s) \union AuthorsOf(flow[s].todo))'
      <4>1. AuthorsOf(flow[s].todo)' = AuthorsOf(Collect(q))
        BY <1>2, <3>1 DEF AuthorsOf
      <4>2. ItemsOf(session[s].finalResult.contributions)' = ItemsOf(q.finalResult.contributions)
        BY <1>2 DEF ItemsOf
      <4>3. q.finalResult.present =>
               (RecordedAuthors(s) \union AuthorsOf(flow[s].todo))'
                  = ItemsOf(q.finalResult.contributions)
        BY <1>3, <1>4, <3>2, <4>1
      <4> QED BY <1>2, <4>2, <4>3 DEF Records
    <3> QED BY <1>2, <1>5, <3>1, <3>4, <3>5 DEF RowsOf, Early, Persists, Running, InStep
  <2>2. CASE f = Parked("ended")
    <3>1. f.pc = "ended"
      BY <2>2, ParkedPlace
    <3>2. s \notin lostWrites' /\ q.finalResult.present => Records(q, RecordedAuthors(s))
      BY <1>1, <1>2, <1>3, <3>1, RecordsSame
    <3>3. Recorded(s)'
      BY <1>2, <1>4, <3>2 DEF Recorded
    <3> QED BY <1>2, <3>1, <3>3 DEF RowsOf, Early, Persists, Running, InStep
  <2>3. CASE f = Parked("synthesizing")
    <3>1. f.pc = "synthesizing"
      BY <2>3, ParkedPlace
    <3>2. o.kind = "approve" /\ s \notin lostWrites' /\ q.finalResult.present
             => Records(q, RecordedAuthors(s))
      BY <1>2, <1>3, <3>1, RecordsSame
    <3>3. o.kind = "approve" => Recorded(s)'
      BY <1>2, <1>4, <3>2 DEF Recorded
    <3> QED BY <1>2, <1>3, <1>4, <1>5, <3>1, <3>3 DEF RowsOf, Early, Persists, Running, InStep
  <2> QED BY <1>1, <2>1, <2>2, <2>3
<1> QED
  BY <1>1, <1>6, BecomesRecords

\* Nothing is persisted by a session that is early: it has no rows.
LEMMA EarlyCompletes ==
    ASSUME IInv, RecordInv, NEW s \in Sessions, flow[s].pc \in Early,
           NEW o, NEW persists, Completes(s, o, persists),
           o.kind # "approve" \/ flow'[s].pc = "persistSession",
           contributions' = contributions, lostWrites \subseteq lostWrites'
    PROVE  RecordInv'
<1>1. RecordedAuthors(s) = {}
  BY DEF RecordInv, RowsOf
<1>2. Agrees(s, o, Collect(o))
  <2>1. PICK q : q \in ObjectShape /\ Books(q) /\ SameBooks(q, o)
    BY DEF Completes, Fits
  <2>2. Writable(q, Collect(o))
    BY <2>1, CollectSame, CollectWritable
  <2> QED BY <1>1, <2>2 DEF Agrees, Writable, RecordedAuthors
<1>3. flow[s].pc \notin Persists
  BY DEF Early, Persists, Running, InStep
<1> QED
  BY <1>1, <1>2, <1>3, CompletesRecords

LEMMA ArriveIsEarly ==
    ASSUME IInv, NEW s \in Sessions, Arrive(s)
    PROVE  /\ flow[s].pc \in Early
           /\ \E o, f : Becomes(s, o, f) /\ f.pc \in Early
<1>1. PICK o, f : Becomes(s, o, f) /\ f.pc \in Early
  <2>1. CASE \E c \in Coordinators : Orchestrate(s, c)
    BY <2>1, ParkedPlace DEF Orchestrate, Early, Running
  <2>2. CASE \E c \in Coordinators : Coordinate(s, c)
    BY <2>2, ParkedPlace DEF Coordinate, Early, Running
  <2>3. CASE \E c \in Coordinators, plan \in Plans : CreateCoordinationPlan(s, c, plan)
    BY <2>3, ParkedPlace DEF CreateCoordinationPlan, Early, Running
  <2>4. CASE \E old \in Sessions : RerunSession(old, s)
    BY <2>4, ParkedPlace DEF RerunSession, Early, Running
  <2> QED BY <2>1, <2>2, <2>3, <2>4 DEF Arrive
<1>2. s \notin issued
  BY DEF Arrive, Orchestrate, Coordinate, CreateCoordinationPlan, RerunSession, Fresh
<1>3. flow[s].pc \in Early
  BY <1>2 DEF IInv, Listed, Early
<1> QED
  BY <1>1, <1>3

LEMMA ArriveRecords ==
    ASSUME IInv, RecordInv, NEW s \in Sessions, Arrive(s)
    PROVE  RecordInv'
<1>1. contributions' = contributions /\ lostWrites' = lostWrites
  BY DEF Arrive, Orchestrate, Coordinate, CreateCoordinationPlan, RerunSession, database
<1> QED
  BY <1>1, ArriveIsEarly, EarlyRecords

\* The turns of a function before its session completes.
LEMMA RunningIsEarly ==
    ASSUME IInv, NEW s \in Sessions,
           \/ Joined(s) \/ CoordinatorResolved(s) \/ (\E plan \in Plans : PlanMade(s, plan))
           \/ StepBegins(s) \/ SessionRecordEnsured(s) \/ StepExecuted(s) \/ StepStored(s)
           \/ ParticipantAsked(s) \/ ApproveAndExecutePlan(s)
    PROVE  /\ flow[s].pc \in Early
           /\ \E o, f : Becomes(s, o, f) /\ f.pc \in Early
<1>1. Placed /\ flow[s] \in FlowShape /\ Place(session[s], flow[s])
  BY DEF IInv, Placed, Fits
<1>3. \A f : Parks(s, f) => Becomes(s, session[s], f)
  BY <1>1, ParksBecomes
<1>4. PICK o, f : Becomes(s, o, f) /\ f.pc \in Early
  <2>1. CASE Joined(s)
    BY <1>3, <2>1, ParkedPlace DEF Joined, Early, Running
  <2>2. CASE CoordinatorResolved(s)
    BY <2>2, ParkedPlace DEF CoordinatorResolved, Early, Running
  <2>3. CASE \E plan \in Plans : PlanMade(s, plan)
    BY <2>3, ParkedPlace DEF PlanMade, Early, Running
  <2>4. CASE StepBegins(s) \/ SessionRecordEnsured(s) \/ StepExecuted(s)
    <3>1. PICK pc \in InStep : Parks(s, [flow[s] EXCEPT !.pc = pc])
      BY <2>4 DEF StepBegins, SessionRecordEnsured, StepExecuted, InStep
    <3>2. [flow[s] EXCEPT !.pc = pc].pc = pc
      BY <1>1 DEF FlowShape
    <3> QED BY <1>3, <3>1, <3>2 DEF Early, Running
  <2>5. CASE StepStored(s)
    <3> DEFINE f == [flow[s] EXCEPT !.pc = "stepping", !.i = @ + 1]
    <3>1. f.pc = "stepping"
      BY <1>1 DEF FlowShape
    <3> QED BY <2>5, <3>1 DEF StepStored, Early, Running
  <2>6. CASE ParticipantAsked(s)
    <3> DEFINE f == [flow[s] EXCEPT !.i = @ + 1, !.answers = Append(@, <<"participant", flow[s].i>>)]
               g == [flow[s] EXCEPT !.i = @ + 1]
    <3>1. f.pc = "asking" /\ g.pc = "asking"
      BY <1>1, <2>6 DEF FlowShape, ParticipantAsked, At
    <3>2. Parks(s, f) \/ Parks(s, g)
      BY <2>6 DEF ParticipantAsked
    <3> HIDE DEF f, g
    <3> QED BY <1>3, <3>1, <3>2 DEF Early, Running
  <2>7. CASE ApproveAndExecutePlan(s)
    BY <2>7, ParkedPlace DEF ApproveAndExecutePlan, Early, Running
  <2> QED BY <2>1, <2>2, <2>3, <2>4, <2>5, <2>6, <2>7
<1>5. flow[s].pc \in Early
  <2>1. CASE ApproveAndExecutePlan(s)
    BY <1>1, <2>1 DEF ApproveAndExecutePlan, Place, FlowShape, Places, Settling, Early, Running
  <2>2. CASE ~ ApproveAndExecutePlan(s)
    BY <2>2 DEF Joined, CoordinatorResolved, PlanMade, StepBegins, SessionRecordEnsured,
       StepExecuted, StepStored, ParticipantAsked, At, Early, Running, InStep
  <2> QED BY <2>1, <2>2
<1> QED
  BY <1>4, <1>5

LEMMA RunningRecords ==
    ASSUME IInv, RecordInv, NEW s \in Sessions,
           \/ Joined(s) \/ CoordinatorResolved(s) \/ (\E plan \in Plans : PlanMade(s, plan))
           \/ StepBegins(s) \/ SessionRecordEnsured(s) \/ StepExecuted(s) \/ StepStored(s)
           \/ ParticipantAsked(s) \/ ApproveAndExecutePlan(s)
    PROVE  RecordInv'
<1>1. contributions' = contributions /\ lostWrites \subseteq lostWrites'
  BY DEF Joined, CoordinatorResolved, PlanMade, StepBegins, SessionRecordEnsured, StepExecuted,
     StepStored, ParticipantAsked, ApproveAndExecutePlan, database
<1> QED
  BY <1>1, RunningIsEarly, EarlyRecords

\* The failures that end a function or send it on to its participants.
LEMMA FailingEnds ==
    ASSUME IInv, NEW s \in Sessions, ~ MemoryLost,
           \/ JoinFails(s) \/ CoordinatorMissing(s) \/ PlanningFails(s) \/ StepFails(s)
           \/ ParticipantMissing(s)
    PROVE  /\ flow[s].pc \in Early
           /\ \/ Ends(s, session[s]) /\ flow[s].pc \in Running
              \/ Ends(s, Fail(session[s])) \/ Ends(s, [session[s] EXCEPT !.status = "failed"])
              \/ \E q : Becomes(s, q, Parked("asking"))
<1> DEFINE o == session[s]
<1>1. flow[s].pc \in Early
  BY DEF JoinFails, CoordinatorMissing, PlanningFails, StepFails, ParticipantMissing, At,
     Early, Running, InStep
<1>2. \A f : Parks(s, f) => Becomes(s, o, f)
  BY ParksBecomes DEF IInv
<1>3. CASE JoinFails(s) \/ PlanningFails(s)
  BY <1>1, <1>2, <1>3 DEF JoinFails, PlanningFails, Ends, At, Running
<1>4. CASE CoordinatorMissing(s) \/ ParticipantMissing(s)
  BY <1>1, <1>4 DEF CoordinatorMissing, ParticipantMissing
<1>5. CASE StepFails(s)
  BY <1>1, <1>5 DEF StepFails
<1> QED
  BY <1>3, <1>4, <1>5

LEMMA FailingRecords ==
    ASSUME IInv, RecordInv, NEW s \in Sessions, ~ MemoryLost,
           \/ JoinFails(s) \/ CoordinatorMissing(s) \/ PlanningFails(s) \/ StepFails(s)
           \/ ParticipantMissing(s)
    PROVE  RecordInv'
<1> DEFINE o == session[s]
<1>1. o \in ObjectShape /\ Books(o) /\ Place(o, flow[s])
  BY DEF IInv, Placed, Fits
<1>2. contributions' = contributions /\ lostWrites' = lostWrites
  BY DEF JoinFails, CoordinatorMissing, PlanningFails, StepFails, ParticipantMissing, database
<1>3. Fail(o).status = "failed" /\ [o EXCEPT !.status = "failed"].status = "failed"
  BY <1>1, Failed DEF ObjectShape
<1>4. CASE Ends(s, o) /\ flow[s].pc \in Running
  <2>1. o.status # "completed"
    BY <1>1, <1>4 DEF Place
  <2> QED BY <1>2, <1>4, <2>1, EndsRecords
<1>5. CASE Ends(s, Fail(o)) \/ Ends(s, [o EXCEPT !.status = "failed"])
  BY <1>2, <1>3, <1>5, EndsRecords
<1>6. CASE \E q : Becomes(s, q, Parked("asking"))
  BY <1>2, <1>6, FailingEnds, ParkedPlace, EarlyRecords DEF Early, Running
<1> QED
  BY <1>4, <1>5, <1>6, FailingEnds

\* The turns that complete a session for the first time.
LEMMA CompletingRecords ==
    ASSUME IInv, RecordInv, NEW s \in Sessions,
           PlanCompletes(s) \/ CreativePublished(s) \/ ParticipantsDone(s) \/ Integrated(s)
    PROVE  RecordInv'
<1>1. contributions' = contributions /\ lostWrites' = lostWrites
  BY DEF PlanCompletes, CreativePublished, ParticipantsDone, Integrated, database
<1>2. flow[s].pc \in Early
  BY DEF PlanCompletes, CreativePublished, ParticipantsDone, Integrated, At, Early, Running
<1>3. session[s] \in ObjectShape /\ Place(session[s], flow[s])
  BY DEF IInv, Placed, Fits
<1>4. CASE PlanCompletes(s)
  BY <1>1, <1>2, <1>4, PlanCompletesStep, ParkedPlace, EarlyRecords, EarlyCompletes DEF Early
<1>5. CASE CreativePublished(s)
  BY <1>1, <1>2, <1>5, CreativePublishedStep, EarlyCompletes
<1>6. CASE ParticipantsDone(s) \/ Integrated(s)
  <2>1. session[s].kind # "approve"
    BY <1>3, <1>6 DEF ParticipantsDone, Integrated, At, Place
  <2>2. \A r : Answered(session[s], r).kind = session[s].kind
    BY <1>3 DEF Answered, ObjectShape
  <2>3. CASE \E r, persists : Completes(s, Answered(session[s], r), persists)
    BY <1>1, <1>2, <2>1, <2>2, <2>3, EarlyCompletes
  <2>4. CASE \E o : Becomes(s, o, Parked("integrating"))
    BY <1>1, <1>2, <2>4, ParkedPlace, EarlyRecords DEF Early, Running
  <2> QED BY <1>6, <2>3, <2>4, ParticipantsDoneStep, IntegratedCompletes
<1> QED
  BY <1>4, <1>5, <1>6

LEMMA SessionPersistedRecords ==
    ASSUME IInv, RecordInv, NEW s \in Sessions, SessionPersisted(s)
    PROVE  RecordInv'
<1> DEFINE f == [flow[s] EXCEPT !.pc = NextWrite(flow[s])]
<1>1. Placed /\ flow[s] \in FlowShape /\ flow[s].pc = "persistSession"
  BY DEF IInv, Placed, Fits, SessionPersisted, At
<1>2. f.todo = flow[s].todo /\ f.pc \in {"persistContributions", "publishing"}
  BY <1>1 DEF FlowShape, NextWrite
<1>3. Becomes(s, session[s], f) /\ contributions' = contributions /\ lostWrites' = lostWrites
  BY <1>1, ParksBecomes DEF SessionPersisted
<1> HIDE DEF f
<1>4. flow'[s] = f /\ session'[s] = session[s]
  BY <1>1, <1>3 DEF Placed, Becomes
<1>5. RowsOf(s)
  BY DEF RecordInv
<1>6. /\ RecordedAuthors(s)' = RecordedAuthors(s) /\ ResultAuthors(s)' = ResultAuthors(s)
  BY <1>3, <1>4 DEF RecordedAuthors, ResultAuthors
<1>7. flow'[s].todo = flow[s].todo /\ session'[s] = session[s]
  BY <1>2, <1>4
<1>8. /\ Agrees(s, session[s], Collect(session[s]))
      /\ Writable(session[s], flow[s].todo) /\ Agrees(s, session[s], flow[s].todo)
      /\ SameWrites(session[s], flow[s].todo, Collect(session[s]))
      /\ session[s].finalResult.present =>
            Records(session[s], RecordedAuthors(s) \union AuthorsOf(flow[s].todo))
  BY <1>1, <1>5 DEF RowsOf, Persists
<1>9. /\ Agrees(s, session[s], Collect(session[s]))' /\ Agrees(s, session[s], flow[s].todo)'
      /\ Writable(session[s], flow[s].todo)'
      /\ SameWrites(session[s], flow[s].todo, Collect(session[s]))'
  BY <1>3, <1>7, <1>8 DEF Agrees
<1>10. session'[s].finalResult.present =>
          Records(session[s], RecordedAuthors(s) \union AuthorsOf(flow[s].todo))'
  BY <1>6, <1>7, <1>8
<1>11. RowsOf(s)'
  BY <1>2, <1>4, <1>9, <1>10 DEF RowsOf, Early, Persists, Running, InStep
<1> QED
  BY <1>3, <1>11, BecomesRecords

\* One upsert: it takes a free row of its own, or writes what is there.
LEMMA ContributionPersistedRecords ==
    ASSUME IInv, RecordInv, NEW s \in Sessions, ContributionPersisted(s)
    PROVE  /\ RecordInv'
           /\ \A t \in Sessions, p \in Positions :
                 p[2] # 0 \/ Alone(session[t], p[1]) => Kept(t, p)
<1> DEFINE q == flow[s].todo
           c == Head(q)
           place == <<c.step, 0>>
           rest == [flow[s] EXCEPT !.todo = Tail(@)]
           f == [rest EXCEPT !.pc = NextWrite(rest)]
           o == session[s]
<1>1. Placed /\ flow[s] \in FlowShape /\ flow[s].pc = "persistContributions" /\ q # <<>>
  BY DEF IInv, Placed, Fits, Progress, ContributionPersisted, At
<1>2. q \in Seq(Writes)
  BY <1>1 DEF FlowShape
<1>3. /\ 1 \in DOMAIN q /\ c = q[1] /\ c \in Writes
      /\ DOMAIN Tail(q) = 1 .. Len(q) - 1
      /\ \A j \in DOMAIN Tail(q) : j + 1 \in DOMAIN q /\ Tail(q)[j] = q[j + 1]
      /\ \A j \in DOMAIN q : j # 1 => j - 1 \in DOMAIN Tail(q) /\ Tail(q)[j - 1] = q[j]
  BY SMTT(30), <1>1, <1>2
<1>4. f.todo = Tail(q) /\ f.pc \in {"persistContributions", "publishing"}
  BY <1>1 DEF FlowShape, NextWrite
<1>5. /\ Becomes(s, o, f) /\ lostWrites' = lostWrites
      /\ contributions' = [contributions EXCEPT ![s][place] = c.author]
  BY <1>1, ParksBecomes DEF ContributionPersisted
<1> HIDE DEF f, rest
<1>6. /\ flow'[s] = f /\ session'[s] = o
      /\ \A t \in Sessions \ {s} : session'[t] = session[t] /\ flow'[t] = flow[t]
  BY <1>1, <1>5 DEF Placed, Becomes
<1>7. /\ Writable(o, q) /\ Agrees(s, o, q) /\ SameWrites(o, q, Collect(o))
      /\ Agrees(s, o, Collect(o))
      /\ o.finalResult.present => Records(o, RecordedAuthors(s) \union AuthorsOf(q))
  BY <1>1 DEF RecordInv, RowsOf, Persists
<1>8. place \in Positions /\ c.step \in StepNumbers
  <2>1. c.step \in StepNumbers
    BY <1>3, <1>7 DEF Writable
  <2>2. 0 \in 0 .. MaxSub
    BY BoundsAssumption
  <2> QED BY <2>1, <2>2 DEF Positions
<1>9. /\ contributions'[s][place] = c.author
      /\ \A p \in Positions \ {place} : contributions'[s][p] = contributions[s][p]
      /\ \A t \in Sessions \ {s} : contributions'[t] = contributions[t]
      /\ Alone(o, c.step) => contributions[s][place] \in {NoAuthor, c.author}
  <2>1. contributions \in [Sessions -> [Positions -> Authors \union {NoAuthor}]]
    BY DEF RecordInv, RowsType
  <2>2. Alone(o, c.step) => contributions[s][place] \in {NoAuthor, c.author}
    BY <1>3, <1>7 DEF Agrees
  <2> HIDE DEF o
  <2> QED BY <1>5, <1>8, <2>1, <2>2
<1>10. c.author \in Authors /\ c.author # NoAuthor
  BY <1>3 DEF Writes, Authors, NoAuthor
<1>11. RowsType'
  BY <1>5, <1>10 DEF RecordInv, RowsType
<1> HIDE DEF q, c, place, o
<1>12. /\ RecordedAuthors(s)' \subseteq RecordedAuthors(s) \union {c.author}
       /\ c.author \in RecordedAuthors(s)'
       /\ Alone(o, c.step) => RecordedAuthors(s)' = RecordedAuthors(s) \union {c.author}
  <2>1. 0 \in 0 .. MaxSub
    BY BoundsAssumption
  <2>2. \A n \in StepNumbers :
           contributions'[s][<<n, 0>>] = IF n = c.step THEN c.author ELSE contributions[s][<<n, 0>>]
    BY <1>9, <2>1 DEF place, Positions
  <2>3. Alone(o, c.step) => contributions[s][<<c.step, 0>>] \in {NoAuthor, c.author}
    BY <1>9 DEF place
  <2>4. RecordedAuthors(s)' = {contributions'[s][<<n, 0>>] : n \in StepNumbers} \ {NoAuthor}
    BY DEF RecordedAuthors
  <2>5. c.author \in RecordedAuthors(s)'
    BY <1>8, <1>10, <2>2, <2>4
  <2>6. RecordedAuthors(s)' \subseteq RecordedAuthors(s) \union {c.author}
    BY <1>8, <2>2, <2>4 DEF RecordedAuthors
  <2>7. ASSUME Alone(o, c.step), NEW n \in StepNumbers, contributions[s][<<n, 0>>] # NoAuthor
        PROVE  contributions[s][<<n, 0>>] \in RecordedAuthors(s)'
    <3>1. contributions'[s][<<n, 0>>] = contributions[s][<<n, 0>>]
      BY <2>2, <2>3, <2>7
    <3> QED BY <2>4, <2>7, <3>1
  <2>8. Alone(o, c.step) => RecordedAuthors(s) \subseteq RecordedAuthors(s)'
    BY <2>7 DEF RecordedAuthors
  <2> QED BY <2>5, <2>6, <2>8
<1>13. AuthorsOf(q) = AuthorsOf(Tail(q)) \union {c.author}
  <2>1. ASSUME NEW a PROVE a \in AuthorsOf(q) <=> a \in AuthorsOf(Tail(q)) \union {c.author}
    <3>1. ASSUME NEW j \in DOMAIN q
          PROVE  q[j].author \in AuthorsOf(Tail(q)) \union {c.author}
      <4>1. CASE j = 1
        BY <1>3, <4>1
      <4>2. CASE j # 1
        BY <1>3, <4>2 DEF AuthorsOf
      <4> QED BY <4>1, <4>2
    <3>2. a \in AuthorsOf(Tail(q)) \union {c.author} => a \in AuthorsOf(q)
      BY <1>3 DEF AuthorsOf
    <3> QED BY <3>1, <3>2 DEF AuthorsOf
  <2> QED BY <2>1
<1>14. Writable(o, Tail(q)) /\ SameWrites(o, Tail(q), Collect(o))
  BY <1>2, <1>3, <1>7 DEF Writable, SameWrites
<1>15. \A j \in DOMAIN Tail(q) : Alone(o, Tail(q)[j].step) => Tail(q)[j].step # c.step
  BY <1>2, <1>3, <1>7 DEF Writable
<1>16. \A j \in DOMAIN Tail(q) :
          Alone(o, Tail(q)[j].step) =>
             contributions'[s][<<Tail(q)[j].step, 0>>] \in {NoAuthor, Tail(q)[j].author}
  <2>1. \A j \in DOMAIN Tail(q) :
           Alone(o, Tail(q)[j].step) => contributions'[s][<<Tail(q)[j].step, 0>>]
                                          = contributions[s][<<Tail(q)[j].step, 0>>]
    <3> SUFFICES ASSUME NEW j \in DOMAIN Tail(q), Alone(o, Tail(q)[j].step)
                 PROVE  contributions'[s][<<Tail(q)[j].step, 0>>]
                          = contributions[s][<<Tail(q)[j].step, 0>>]
      OBVIOUS
    <3>1. Tail(q)[j].step \in StepNumbers /\ Tail(q)[j].step # c.step /\ 0 \in 0 .. MaxSub
      BY <1>14, <1>15, BoundsAssumption DEF Writable
    <3> QED BY <1>9, <3>1 DEF Positions, place
  <2>2. \A j \in DOMAIN Tail(q) :
           Alone(o, Tail(q)[j].step) =>
              contributions[s][<<Tail(q)[j].step, 0>>] \in {NoAuthor, Tail(q)[j].author}
    BY <1>3, <1>7 DEF Agrees
  <2> QED BY <2>1, <2>2
<1>17. Agrees(s, session[s], Collect(session[s]))'
  <2>1. \A j \in DOMAIN Collect(o) :
           Alone(o, Collect(o)[j].step) =>
              contributions'[s][<<Collect(o)[j].step, 0>>] \in {NoAuthor, Collect(o)[j].author}
    <3> SUFFICES ASSUME NEW j \in DOMAIN Collect(o), Alone(o, Collect(o)[j].step)
                 PROVE  contributions'[s][<<Collect(o)[j].step, 0>>]
                           \in {NoAuthor, Collect(o)[j].author}
      OBVIOUS
    <3>1. contributions[s][<<Collect(o)[j].step, 0>>] \in {NoAuthor, Collect(o)[j].author}
      BY <1>7 DEF Agrees
    <3>2. CASE Collect(o)[j].step = c.step
      <4>1. Collect(o)[j].author = c.author
        BY <1>3, <1>7, <3>2 DEF SameWrites
      <4> QED BY <1>9, <3>2, <4>1 DEF place
    <3>3. CASE Collect(o)[j].step # c.step
      BY <3>1, <3>3, <1>5, <1>8 DEF place, RecordInv, RowsType
    <3> QED BY <3>2, <3>3
  <2> QED BY <2>1, <1>6 DEF Agrees
<1>19. RowsOf(s)'
  <2>1. f.todo = Tail(q)
    BY <1>4 DEF q
  <2>2. flow'[s].todo = Tail(q) /\ session'[s] = o
    BY <1>6, <2>1
  <2>3. /\ Agrees(s, session[s], flow[s].todo)' /\ Writable(session[s], flow[s].todo)'
        /\ SameWrites(session[s], flow[s].todo, Collect(session[s]))'
    BY <1>14, <1>16, <2>2 DEF Agrees
  <2> DEFINE before == RecordedAuthors(s) \union AuthorsOf(q)
             after == RecordedAuthors(s)' \union AuthorsOf(Tail(q))
  <2>4. after \subseteq before /\ after # {} /\ (NumbersApart(o) => after = before)
    <3>1. NumbersApart(o) => Alone(o, c.step)
      BY ApartAlone
    <3> QED BY <1>12, <1>13, <3>1
  <2>5. o.finalResult.present => Records(o, after)
    <3> HIDE DEF before, after
    <3>1. o.finalResult.present => Records(o, before)
      BY <1>7 DEF before
    <3> QED BY <2>4, <3>1 DEF Records
  <2>6. session'[s].finalResult.present =>
           Records(session[s], RecordedAuthors(s) \union AuthorsOf(flow[s].todo))'
    <3>1. AuthorsOf(flow[s].todo)' = AuthorsOf(Tail(q))
      BY <2>2 DEF AuthorsOf
    <3> QED BY <2>2, <2>5, <3>1
  <2> QED BY <1>4, <1>6, <1>17, <2>3, <2>6 DEF RowsOf, Early, Persists, Running, InStep
<1>20. RecordInv'
  BY <1>5, <1>6, <1>9, <1>11, <1>19, StepRecords
<1>21. ASSUME NEW t \in Sessions, NEW p \in Positions, contributions[t][p] # NoAuthor,
              p[2] # 0 \/ Alone(session[t], p[1])
       PROVE  contributions'[t][p] = contributions[t][p]
  <2>1. CASE t = s /\ p = place
    <3>1. Alone(o, c.step)
      BY <1>21, <2>1 DEF place, o
    <3> QED BY <1>9, <1>21, <2>1, <3>1
  <2>2. CASE t # s \/ p # place
    BY <1>9, <2>2
  <2> QED BY <2>1, <2>2
<1> QED
  BY <1>20, <1>21 DEF Kept

\* Persisting is over: everything is written, or a statement failed.
LEMMA PersistedRecords ==
    ASSUME IInv, RecordInv, NEW s \in Sessions,
           Published(s) \/ PublicationFails(s) \/ PersistingFails(s)
    PROVE  RecordInv'
<1>1. PICK published \in BOOLEAN : Persisted(s, published)
  BY DEF Published, PublicationFails, PersistingFails
<1>2. flow[s].pc \in Persists /\ contributions' = contributions /\ lostWrites \subseteq lostWrites'
  BY DEF Published, PublicationFails, PersistingFails, At, Persists
<1>3. Placed /\ session[s] \in ObjectShape /\ Books(session[s])
  BY DEF IInv, Placed, Fits
<1> DEFINE o == PersistedObject(session[s], published)
<1>4. Completes(s, o, TRUE)
  BY <1>1, <1>2, PersistedCompletes
<1>5. /\ o.finalResult.contributions = session[s].finalResult.contributions
      /\ o.finalResult.present = session[s].finalResult.present
      /\ o.plan = session[s].plan /\ o.stepOutputs = session[s].stepOutputs
      /\ o.executed = session[s].executed
  BY <1>3, PersistedShape
<1> HIDE DEF o
<1>6. Collect(o) = Collect(session[s])
  BY <1>5 DEF Collect
<1>7. /\ Agrees(s, o, Collect(o))
      /\ o.finalResult.present => Records(o, RecordedAuthors(s) \union AuthorsOf(flow[s].todo))
  <2>1. /\ Agrees(s, session[s], Collect(session[s]))
        /\ session[s].finalResult.present =>
              Records(session[s], RecordedAuthors(s) \union AuthorsOf(flow[s].todo))
    BY <1>2 DEF RecordInv, RowsOf
  <2>2. Agrees(s, o, Collect(o))
    BY <1>5, <1>6, <2>1, AloneSame DEF Agrees
  <2> QED BY <1>5, <2>1, <2>2, RecordsSame
<1>8. s \notin lostWrites' => AuthorsOf(flow[s].todo) = {}
  <2>1. CASE Published(s)
    <3>1. flow[s].todo = <<>>
      BY <1>3, <2>1 DEF Placed, Fits, Progress, Published, At
    <3> QED BY <3>1 DEF AuthorsOf
  <2>2. CASE PublicationFails(s) \/ PersistingFails(s)
    BY <2>2 DEF PublicationFails, PersistingFails
  <2> QED BY <2>1, <2>2
<1>9. /\ o.finalResult.present => RecordedAuthors(s) \subseteq ItemsOf(o.finalResult.contributions)
      /\ s \notin lostWrites' /\ o.finalResult.present => Records(o, RecordedAuthors(s))
  <2>1. AuthorsOf(flow[s].todo) = {} =>
           RecordedAuthors(s) \union AuthorsOf(flow[s].todo) = RecordedAuthors(s)
    OBVIOUS
  <2> QED BY <1>7, <1>8, <2>1 DEF Records
<1> QED
  BY <1>2, <1>4, <1>7, <1>9, CompletesRecords

LEMMA SynthesisRecords ==
    ASSUME IInv, RecordInv, NEW s \in Sessions, SynthesisReturns(s)
    PROVE  RecordInv'
<1> DEFINE o == session[s]
           q == [o EXCEPT !.finalResult.content = "synthesis"]
<1>1. Placed /\ o \in ObjectShape /\ Books(o) /\ flow[s].pc = "synthesizing"
  BY DEF IInv, Placed, Fits, SynthesisReturns, At
<1>2. contributions' = contributions /\ lostWrites' = lostWrites
  BY DEF SynthesisReturns, database
<1>3. RowsOf(s)
  BY DEF RecordInv
<1>4. /\ Agrees(s, o, Collect(o))
      /\ o.finalResult.present => RecordedAuthors(s) \subseteq ItemsOf(o.finalResult.contributions)
      /\ o.kind = "approve" /\ s \notin lostWrites /\ o.finalResult.present =>
            Records(o, RecordedAuthors(s))
  BY <1>1, <1>3 DEF RowsOf, Recorded, ResultAuthors, ItemsOf
<1>5. flow[s].pc \notin Persists
  BY <1>1 DEF Persists
<1>6. CASE Ends(s, Fail(o))
  <2>1. Fail(o).status # "completed"
    BY <1>1, Failed
  <2> QED BY <1>2, <1>6, <2>1, EndsRecords
<1>7. CASE Completes(s, o, TRUE)
  BY <1>2, <1>4, <1>5, <1>7, CompletesRecords
<1>8. CASE Completes(s, q, TRUE)
  <2>1. /\ q.finalResult.contributions = o.finalResult.contributions
        /\ q.finalResult.present = o.finalResult.present
        /\ q.plan = o.plan /\ q.stepOutputs = o.stepOutputs /\ q.executed = o.executed
        /\ q.kind = o.kind
    BY <1>1 DEF ObjectShape, ResultShape
  <2>2. Completes(s, q, TRUE)
    BY <1>8
  <2> HIDE DEF q
  <2>3. Collect(q) = Collect(o)
    BY <2>1 DEF Collect
  <2>4. Agrees(s, q, Collect(q))
    BY <1>4, <2>1, <2>3, AloneSame DEF Agrees
  <2>5. q.kind = "approve" /\ s \notin lostWrites /\ q.finalResult.present =>
            Records(q, RecordedAuthors(s))
    BY <1>4, <2>1, RecordsSame
  <2> QED BY <1>2, <1>4, <1>5, <2>1, <2>2, <2>4, <2>5, CompletesRecords
<1> QED
  BY <1>6, <1>7, <1>8, SynthesisCompletes

\* A purge takes the result, and with it what an unplanned session would write.
LEMMA PurgeRecords ==
    ASSUME IInv, RecordInv, NEW s \in Sessions, PurgeSessionResults(s)
    PROVE  RecordInv'
<1> DEFINE o == session[s]
           q == [o EXCEPT !.finalResult = NoResult]
<1>1. Placed /\ o \in ObjectShape /\ Place(o, flow[s]) /\ o.status \notin {"pending", "in_progress", "none"}
  BY DEF IInv, Placed, Fits, Listed, PurgeSessionResults, Settled
<1>2. flow' = flow /\ contributions' = contributions /\ lostWrites' = lostWrites
  BY DEF PurgeSessionResults, database
<1>3. /\ session'[s] = q
      /\ \A t \in Sessions \ {s} : session'[t] = session[t]
  BY <1>1 DEF Placed, PurgeSessionResults
<1>4. /\ ~ q.finalResult.present /\ q.finalResult.contributions = <<>> /\ q.status = o.status
      /\ q.plan = o.plan /\ q.stepOutputs = o.stepOutputs /\ q.executed = o.executed
      /\ q.kind = o.kind
  BY <1>1 DEF ObjectShape, NoResult
<1> HIDE DEF q
<1>5. Collect(q) = Collect(o) \/ DOMAIN Collect(q) = {}
  BY <1>4 DEF Collect
<1>6. RecordedAuthors(s)' = RecordedAuthors(s)
  BY <1>2 DEF RecordedAuthors
<1>7. RowsOf(s)
  BY DEF RecordInv
<1>8. /\ ~ session'[s].finalResult.present
      /\ flow[s].pc \in Persists \union {"synthesizing"} =>
            Agrees(s, session[s], Collect(session[s]))'
      /\ flow[s].pc \in Persists =>
            /\ Writable(session[s], flow[s].todo)' /\ Agrees(s, session[s], flow[s].todo)'
            /\ SameWrites(session[s], flow[s].todo, Collect(session[s]))'
  <2>1. Collect(session[s])' = Collect(q)
    BY <1>3 DEF Collect
  <2>2. \A n : Alone(session[s], n)' <=> Alone(o, n)
    BY <1>3, <1>4 DEF Alone
  <2>3. flow[s].pc \in Persists \union {"synthesizing"} =>
           Agrees(s, session[s], Collect(session[s]))'
    BY <1>2, <1>5, <1>7, <2>1, <2>2 DEF RowsOf, Agrees
  <2>4. flow[s].pc \in Persists =>
            /\ Writable(session[s], flow[s].todo)' /\ Agrees(s, session[s], flow[s].todo)'
            /\ SameWrites(session[s], flow[s].todo, Collect(session[s]))'
    BY <1>2, <1>5, <1>7, <2>1, <2>2 DEF RowsOf, Agrees, Writable, SameWrites, StepNumbers, Steps
  <2> QED BY <1>3, <1>4, <2>3, <2>4
<1>9. RowsOf(s)'
  BY <1>2, <1>6, <1>7, <1>8 DEF RowsOf, Recorded
<1>10. RowsType'
  BY <1>2 DEF RecordInv, RowsType
<1> QED
  BY <1>2, <1>3, <1>9, <1>10, StepRecords

\* A tool call records under a number of its own, never in a step's own place.
LEMMA ToolRecordsStep ==
    ASSUME IInv, RecordInv, NEW s \in Sessions, ToolRecords(s)
    PROVE  /\ RecordInv'
           /\ \A t \in Sessions, p \in Positions :
                 contributions[t][p] # NoAuthor => contributions'[t][p] = contributions[t][p]
<1> DEFINE n == activeSteps[s]
           k == NextSub(s, n)
           place == <<n, k>>
           author == <<"step", flow[s].i>>
<1>1. /\ session' = session /\ flow' = flow /\ lostWrites' = lostWrites /\ k <= MaxSub
      /\ contributions' = [contributions EXCEPT ![s][place] = author]
  BY DEF ToolRecords, memory
<1>2. flow[s] \in FlowShape /\ flow[s].pc = "executing"
  BY DEF IInv, Placed, Fits, ToolRecords, At
<1>3. author \in Authors
  BY <1>2 DEF FlowShape, Authors
<1>4. contributions \in [Sessions -> [Positions -> Authors \union {NoAuthor}]]
  BY DEF RecordInv, RowsType
<1> HIDE DEF n, k, author
<1>5. /\ \A p \in Positions \ {place} : contributions'[s][p] = contributions[s][p]
      /\ \A t \in Sessions \ {s} : contributions'[t] = contributions[t]
      /\ place \in Positions => contributions'[s][place] = author
  BY <1>1, <1>4
<1>6. place \in Positions => k # 0 /\ contributions[s][place] = NoAuthor
  <2>1. place \in Positions => k \in 0 .. MaxSub
    BY DEF Positions
  <2> QED BY <2>1, NextSubIsFree DEF k
<1>7. RowsType'
  BY <1>1, <1>3 DEF RecordInv, RowsType
<1>8. \A m \in StepNumbers : contributions'[s][<<m, 0>>] = contributions[s][<<m, 0>>]
  <2>1. \A m \in StepNumbers : <<m, 0>> \in Positions
    BY BoundsAssumption DEF Positions
  <2> QED BY <1>5, <1>6, <2>1
<1>9. RecordedAuthors(s)' = RecordedAuthors(s)
  BY <1>8 DEF RecordedAuthors, StepNumbers, Steps
<1>10. RowsOf(s)
  BY DEF RecordInv
<1>11. RowsOf(s)'
  BY <1>1, <1>2, <1>9, <1>10 DEF RowsOf, Persists, Early, Running, InStep
<1>12. RecordInv'
  BY <1>1, <1>5, <1>7, <1>11, StepRecords
<1>13. ASSUME NEW t \in Sessions, NEW p \in Positions, contributions[t][p] # NoAuthor
       PROVE  contributions'[t][p] = contributions[t][p]
  BY <1>5, <1>6, <1>13
<1> QED
  BY <1>12, <1>13

LEMMA LossRecords ==
    ASSUME IInv, RecordInv, MemoryLost, UNCHANGED <<contributions, lostWrites>>
    PROVE  RecordInv'
<1>1. \A s \in Sessions :
         /\ session'[s] = NoSession /\ flow'[s] = Parked(IF s \in issued THEN "lost" ELSE "idle")
  BY DEF MemoryLost
<1>2. ASSUME NEW s \in Sessions
      PROVE  RowsOf(s)'
  <2>1. CASE s \in issued
    BY <1>1, <2>1, ParkedPlace DEF RowsOf, Early, Persists, Running, InStep
  <2>2. CASE s \notin issued
    <3>1. flow[s].pc = "idle" /\ flow'[s].pc = "idle"
      BY <1>1, <2>2, ParkedPlace DEF IInv, Listed
    <3>2. RecordedAuthors(s)' = {}
      BY <3>1 DEF RecordInv, RowsOf, RecordedAuthors, Early
    <3> QED BY <3>1, <3>2 DEF RowsOf, Persists
  <2> QED BY <2>1, <2>2
<1>3. RowsType'
  BY DEF RecordInv, RowsType
<1> QED
  BY <1>2, <1>3 DEF RecordInv

LEMMA StillRecords ==
    ASSUME RecordInv, UNCHANGED <<session, flow, contributions, lostWrites>>
    PROVE  RecordInv'
<1>1. \A t \in Sessions : RowsOf(t)'
  BY OthersKeepRows
<1> QED
  BY <1>1 DEF RecordInv, RowsType

------------------------------------------------------------------------------
(***************************************************************************)
(* The record                                                              *)
(***************************************************************************)

LEMMA RecordInit == Init => RecordInv
<1> SUFFICES ASSUME Init PROVE RecordInv
  OBVIOUS
<1>1. RowsType
  BY DEF Init, RowsType
<1>2. \A s \in Sessions : flow[s].pc = "idle"
  BY ParkedPlace DEF Init
<1>3. \A s \in Sessions : RecordedAuthors(s) = {}
  <2>1. \A n \in StepNumbers : <<n, 0>> \in Positions
    BY BoundsAssumption DEF Positions
  <2> QED BY <2>1 DEF Init, RecordedAuthors
<1>4. \A s \in Sessions : RowsOf(s)
  BY <1>2, <1>3 DEF RowsOf, Persists
<1> QED
  BY <1>1, <1>4 DEF RecordInv

\* A turn in which the process goes writes nothing.
LEMMA OnlyFailuresLose ==
    ASSUME NEW s \in Sessions, Advance(s), MemoryLost
    PROVE  UNCHANGED <<contributions, publication, lostWrites>>
<1>1. up' = FALSE
  BY DEF MemoryLost
<1>2. CASE StepFails(s)
  BY <1>2 DEF StepFails, database
<1>3. CASE ~ StepFails(s)
  <2>1. up' = up /\ up
    BY <1>3 DEF Advance, Joined, JoinFails, CoordinatorResolved, CoordinatorMissing, PlanMade,
       PlanningFails, StepBegins, SessionRecordEnsured, ToolRecords, StepExecuted, StepStored,
       PlanCompletes, CreativePublished, ParticipantAsked, ParticipantMissing, ParticipantsDone,
       Integrated, SessionPersisted, ContributionPersisted, Published, PublicationFails,
       PersistingFails, SynthesisReturns, process, At
  <2> QED BY <1>1, <2>1
<1> QED BY <1>2, <1>3

\* Contributions are written by the two that record them.
LEMMA OnlyTwoWrite ==
    ASSUME [Next]_vars
    PROVE  contributions' = contributions
              \/ \E t \in Sessions : ContributionPersisted(t) \/ ToolRecords(t)
<1>1. ASSUME NEW s \in Sessions, Advance(s), ~ ContributionPersisted(s), ~ ToolRecords(s)
      PROVE  contributions' = contributions
  BY <1>1 DEF Advance, Joined, JoinFails, CoordinatorResolved, CoordinatorMissing, PlanMade,
     PlanningFails, StepBegins, SessionRecordEnsured, StepExecuted, StepStored, StepFails,
     PlanCompletes, CreativePublished, ParticipantAsked, ParticipantMissing, ParticipantsDone,
     Integrated, SessionPersisted, Published, PublicationFails, PersistingFails,
     SynthesisReturns, database
<1>2. ASSUME NEW s \in Sessions,
             Arrive(s) \/ ApproveAndExecutePlan(s) \/ DeleteSession(s) \/ PurgeSessionResults(s)
      PROVE  contributions' = contributions
  BY <1>2 DEF Arrive, Orchestrate, Coordinate, CreateCoordinationPlan, RerunSession,
     ApproveAndExecutePlan, DeleteSession, PurgeSessionResults, database
<1>3. ASSUME \/ (\E c \in Coordinators : OrchestrateRefused(c)) \/ TimePasses \/ SlotsCleanedUp
             \/ Killed \/ Restart \/ UNCHANGED vars
      PROVE  contributions' = contributions
  BY <1>3 DEF OrchestrateRefused, TimePasses, SlotsCleanedUp, Killed, Restart, vars, database
<1> QED
  BY <1>1, <1>2, <1>3 DEF Next

LEMMA RecordStep == IInv /\ RecordInv /\ [Next]_vars => RecordInv'
<1> SUFFICES ASSUME IInv, RecordInv, [Next]_vars PROVE RecordInv'
  OBVIOUS
<1>1. ASSUME NEW s \in Sessions, Advance(s) PROVE RecordInv'
  <2>1. CASE MemoryLost
    <3>1. UNCHANGED <<contributions, lostWrites>>
      BY <1>1, <2>1, OnlyFailuresLose
    <3> QED BY <2>1, <3>1, LossRecords
  <2>2. CASE ~ MemoryLost
    BY <1>1, <2>2, RunningRecords, FailingRecords, CompletingRecords, SessionPersistedRecords,
       ContributionPersistedRecords, PersistedRecords, SynthesisRecords, ToolRecordsStep
       DEF Advance
  <2> QED BY <2>1, <2>2
<1>2. ASSUME NEW s \in Sessions,
             Arrive(s) \/ ApproveAndExecutePlan(s) \/ DeleteSession(s) \/ PurgeSessionResults(s)
      PROVE  RecordInv'
  BY <1>2, ArriveRecords, RunningRecords, PurgeRecords, StillRecords DEF DeleteSession, database
<1>3. CASE Killed
  BY <1>3, LossRecords DEF Killed, database
<1>4. CASE \/ (\E c \in Coordinators : OrchestrateRefused(c)) \/ TimePasses \/ SlotsCleanedUp
           \/ Restart \/ UNCHANGED vars
  BY <1>4, StillRecords
     DEF OrchestrateRefused, TimePasses, SlotsCleanedUp, Restart, vars, memory, database
<1> QED
  BY <1>1, <1>2, <1>3, <1>4 DEF Next

LEMMA RecordAlways == Spec => [](IInv /\ RecordInv)
<1>1. IInv /\ RecordInv /\ [Next]_vars => (IInv /\ RecordInv)'
  BY IInvStep, RecordStep
<1> QED
  BY <1>1, IInvInit, RecordInit, PTL DEF Spec

\* The durable record of a completed session is its result, for all sessions,
\* whatever else runs, is purged, deleted or lost: with contributions of its
\* result only, with all of them where the planner numbered the steps apart, and
\* with at least one whatever the numbers.
THEOREM TheRecordIsTheResult == Spec => []RecordIsTheResult
<1>1. RecordInv => RecordIsTheResult
  BY DEF RecordInv, RowsOf, Recorded, Records, ItemsOf, ResultAuthors, RecordIsTheResult, Ended
<1> QED
  BY <1>1, RecordAlways, PTL

\* Whatever plans come, a contribution is overwritten by another author's only
\* in the place of an executed step whose number another step of its plan has
\* too: neither by a tool call, nor after a fallback, nor by a second persist.
THEOREM WhatIsRecordedStays == Spec => RecordedStays
<1> DEFINE Keeps == \A s \in Sessions, p \in Positions :
                       p[2] # 0 \/ Alone(session[s], p[1]) => Kept(s, p)
<1>1. IInv /\ RecordInv /\ [Next]_vars => [Keeps]_vars
  <2> SUFFICES ASSUME IInv, RecordInv, [Next]_vars, NEW s \in Sessions, NEW p \in Positions,
                      p[2] # 0 \/ Alone(session[s], p[1])
               PROVE  Kept(s, p)
    OBVIOUS
  <2>1. CASE contributions' = contributions
    BY <2>1 DEF Kept
  <2>2. ASSUME NEW t \in Sessions, ContributionPersisted(t) \/ ToolRecords(t)
        PROVE  Kept(s, p)
    BY <2>2, ContributionPersistedRecords, ToolRecordsStep DEF Kept
  <2> QED BY <2>1, <2>2, OnlyTwoWrite
<1> QED
  BY <1>1, RecordAlways, PTL DEF Spec, RecordedStays

------------------------------------------------------------------------------
(***************************************************************************)
(* What is published                                                       *)
(***************************************************************************)

\* Nothing is published before the result is persisted; what is handed to
\* persisting is the session's content at that moment; and it still is when the
\* function ends.  An approved plan is the exception: executeApprovedPlan
\* reviews the result after it was published.
FinalOf(s) ==
    LET o == session[s]
        f == flow[s]
    IN  /\ f.pc \in Early => publication[s].status # "published"
        /\ o.kind # "approve" /\ o.finalResult.present =>
              /\ f.pc \in Persists => f.snap.content = o.finalResult.content
              /\ f.pc = "ended" /\ publication[s].status = "published" /\ s \notin lostWrites
                    => publication[s].content = o.finalResult.content

FinalInv == \A s \in Sessions : FinalOf(s)

PublicationType == publication \in [Sessions -> [status : {"none", "published", "failed"}, content : Contents]]

LEMMA StepIsFinal ==
    ASSUME FinalInv, NEW s \in Sessions, FinalOf(s)', lostWrites \subseteq lostWrites',
           \A t \in Sessions \ {s} : session'[t] = session[t] /\ flow'[t] = flow[t]
                                       /\ publication'[t] = publication[t]
    PROVE  FinalInv'
<1>1. ASSUME NEW t \in Sessions \ {s} PROVE FinalOf(t)'
  BY DEF FinalInv, FinalOf
<1> QED
  BY <1>1 DEF FinalInv

\* Until a result is persisted there is no publication to be stale.
LEMMA EarlyIsFinal ==
    ASSUME IInv, FinalInv, NEW s \in Sessions, NEW o, NEW f, Becomes(s, o, f),
           flow[s].pc \in Early, f.pc \in Early \union {"ended"},
           publication' = publication, lostWrites \subseteq lostWrites'
    PROVE  FinalInv'
<1>1. /\ session'[s] = o /\ flow'[s] = f
      /\ \A t \in Sessions \ {s} : session'[t] = session[t] /\ flow'[t] = flow[t]
  BY DEF IInv, Placed, Becomes
<1>2. publication'[s].status # "published"
  BY DEF FinalInv, FinalOf
<1>3. f.pc \notin Persists
  BY DEF Early, Persists, Running, InStep
<1>4. FinalOf(s)'
  BY <1>1, <1>2, <1>3 DEF FinalOf
<1> QED
  BY <1>1, <1>4, StepIsFinal

\* A completion hands the content to persisting, or ends with what was
\* published as final.
LEMMA CompletesIsFinal ==
    ASSUME IInv, FinalInv, NEW s \in Sessions, NEW o, NEW persists, Completes(s, o, persists),
           /\ flow[s].pc \in Persists /\ o.kind # "approve" /\ o.finalResult.present
           /\ publication'[s].status = "published" /\ s \notin lostWrites'
           => publication'[s].content = o.finalResult.content,
           \A t \in Sessions \ {s} : publication'[t] = publication[t],
           lostWrites \subseteq lostWrites'
    PROVE  FinalInv'
<1>1. PICK q, f :
         /\ Becomes(s, q, f) /\ SameBooks(q, o)
         /\ f \in {Persisting(q, persists), Parked("ended"), Parked("synthesizing")}
         /\ f.pc = "ended" => flow[s].pc \in Persists \/ o.kind = "approve"
  BY DEF Completes
<1>2. /\ session'[s] = q /\ flow'[s] = f
      /\ \A t \in Sessions \ {s} : session'[t] = session[t] /\ flow'[t] = flow[t]
  BY <1>1 DEF IInv, Placed, Becomes
<1>3. q.finalResult = o.finalResult /\ q.kind = o.kind
  BY <1>1 DEF SameBooks
<1>4. f.pc \in {"persistSession", "ended", "synthesizing"}
  BY <1>1, ParkedPlace
<1>5. f.pc \in Persists => f.snap.content = q.finalResult.content
  <2>1. Persisting(q, persists).snap.content = q.finalResult.content
    BY DEF Persisting, Parked
  <2>2. CASE f = Persisting(q, persists)
    BY <2>1, <2>2
  <2>3. CASE f \in {Parked("ended"), Parked("synthesizing")}
    BY <2>3, ParkedPlace DEF Persists
  <2> QED BY <1>1, <2>2, <2>3
<1>6. FinalOf(s)'
  <2>1. f.pc \notin Early
    BY <1>4 DEF Early, Running, InStep
  <2>2. f.pc = "ended" /\ o.kind # "approve" => flow[s].pc \in Persists
    BY <1>1
  <2> QED BY <1>2, <1>3, <1>5, <2>1, <2>2 DEF FinalOf
<1> QED
  BY <1>2, <1>6, StepIsFinal

LEMMA CompletingIsFinal ==
    ASSUME IInv, FinalInv, NEW s \in Sessions,
           PlanCompletes(s) \/ CreativePublished(s) \/ ParticipantsDone(s) \/ Integrated(s)
    PROVE  FinalInv'
<1>1. publication' = publication /\ lostWrites' = lostWrites
  BY DEF PlanCompletes, CreativePublished, ParticipantsDone, Integrated, database
<1>2. flow[s].pc \in Early /\ flow[s].pc \notin Persists
  BY DEF PlanCompletes, CreativePublished, ParticipantsDone, Integrated, At, Early, Running, Persists
<1>3. CASE \E o, persists : Completes(s, o, persists)
  BY <1>1, <1>2, <1>3, CompletesIsFinal
<1>4. CASE \E o : Becomes(s, o, Parked("integrating")) \/ Becomes(s, o, Parked("creative"))
  BY <1>1, <1>2, <1>4, ParkedPlace, EarlyIsFinal DEF Early, Running
<1>5. CASE PlanCompletes(s)
  BY <1>3, <1>4, <1>5, PlanCompletesStep
<1>6. CASE CreativePublished(s)
  BY <1>3, <1>6, CreativePublishedStep
<1>7. CASE ParticipantsDone(s) \/ Integrated(s)
  BY <1>3, <1>4, <1>7, ParticipantsDoneStep, IntegratedCompletes
<1> QED
  BY <1>5, <1>6, <1>7

\* What is still being persisted stays what it was handed.
LEMMA PersistingIsFinal ==
    ASSUME IInv, FinalInv, NEW s \in Sessions, SessionPersisted(s) \/ ContributionPersisted(s)
    PROVE  FinalInv'
<1>1. /\ Placed /\ flow[s] \in FlowShape /\ flow[s].pc \in Persists
      /\ publication' = publication /\ lostWrites' = lostWrites
  BY DEF IInv, Placed, Fits, SessionPersisted, ContributionPersisted, At, Persists
<1>2. PICK f : Parks(s, f) /\ f.pc \in {"persistContributions", "publishing"} /\ f.snap = flow[s].snap
  <2>1. \A pc : /\ [flow[s] EXCEPT !.pc = pc].pc = pc
                /\ [flow[s] EXCEPT !.pc = pc].snap = flow[s].snap
    BY <1>1 DEF FlowShape
  <2>2. CASE SessionPersisted(s)
    BY <2>1, <2>2 DEF SessionPersisted, NextWrite
  <2>3. CASE ContributionPersisted(s)
    <3> DEFINE rest == [flow[s] EXCEPT !.todo = Tail(@)]
               f == [rest EXCEPT !.pc = NextWrite(rest)]
    <3>1. f.pc \in {"persistContributions", "publishing"} /\ f.snap = flow[s].snap
      BY <1>1 DEF FlowShape, NextWrite
    <3>2. Parks(s, f)
      BY <2>3 DEF ContributionPersisted
    <3> QED BY <3>1, <3>2
  <2> QED BY <2>2, <2>3
<1>3. /\ session' = session /\ flow'[s] = f
      /\ \A t \in Sessions \ {s} : flow'[t] = flow[t]
  BY <1>1, <1>2 DEF Placed, Parks
<1>4. FinalOf(s)
  BY DEF FinalInv
<1>5. FinalOf(s)'
  BY <1>1, <1>2, <1>3, <1>4 DEF FinalOf, Early, Persists, Running, InStep
<1> QED
  BY <1>1, <1>3, <1>5, StepIsFinal

\* The publication takes the content that was handed to persisting; when it
\* fails, a statement was lost.
LEMMA PersistedIsFinal ==
    ASSUME IInv, PublicationType, FinalInv, NEW s \in Sessions,
           Published(s) \/ PublicationFails(s) \/ PersistingFails(s)
    PROVE  FinalInv'
<1>1. PICK published \in BOOLEAN : Persisted(s, published)
  BY DEF Published, PublicationFails, PersistingFails
<1>2. /\ flow[s].pc \in Persists /\ lostWrites \subseteq lostWrites'
      /\ \A t \in Sessions \ {s} : publication'[t] = publication[t]
  BY DEF PublicationType, Published, PublicationFails, PersistingFails, At, Persists
<1> DEFINE o == PersistedObject(session[s], published)
<1>3. Completes(s, o, TRUE)
  BY <1>1, <1>2, PersistedCompletes
<1>4. /\ o.kind = session[s].kind /\ o.finalResult.present = session[s].finalResult.present
      /\ o.finalResult.content = session[s].finalResult.content
  BY PersistedShape DEF IInv, Placed, Fits
<1> HIDE DEF o
<1>5. CASE Published(s)
  <2>1. publication'[s].content = flow[s].snap.content
    BY <1>5 DEF PublicationType, Published
  <2>2. session[s].kind # "approve" /\ session[s].finalResult.present
           => flow[s].snap.content = session[s].finalResult.content
    BY <1>2 DEF FinalInv, FinalOf
  <2> QED BY <1>2, <1>3, <1>4, <2>1, <2>2, CompletesIsFinal
<1>6. CASE s \in lostWrites'
  BY <1>2, <1>3, <1>6, CompletesIsFinal
<1> QED
  BY <1>5, <1>6 DEF PublicationFails, PersistingFails

\* performCoordination persists again after the synthesis; without a result
\* there is nothing to compare.
LEMMA SynthesisIsFinal ==
    ASSUME IInv, FinalInv, NEW s \in Sessions, SynthesisReturns(s)
    PROVE  FinalInv'
<1>1. /\ flow[s].pc \notin Persists /\ publication' = publication /\ lostWrites' = lostWrites
  BY DEF SynthesisReturns, At, Persists, database
<1>2. CASE \E o : Completes(s, o, TRUE)
  BY <1>1, <1>2, CompletesIsFinal
<1>3. CASE ~ session[s].finalResult.present /\ Ends(s, Fail(session[s]))
  <2>1. ~ Fail(session[s]).finalResult.present
    BY <1>3 DEF Fail, Cleanup, IInv, Placed, ObjectShape
  <2>2. /\ session'[s] = Fail(session[s]) /\ flow'[s].pc = "ended"
        /\ \A t \in Sessions \ {s} : session'[t] = session[t] /\ flow'[t] = flow[t]
    BY <1>3, ParkedPlace DEF IInv, Placed, Ends, Becomes
  <2>3. FinalOf(s)'
    BY <2>1, <2>2 DEF FinalOf, Early, Running, InStep
  <2> QED BY <1>1, <2>2, <2>3, StepIsFinal
<1> QED
  BY <1>2, <1>3, SynthesisCompletes

\* A purge leaves no result to compare; nor does the loss of the process.
LEMMA PurgeIsFinal ==
    ASSUME IInv, FinalInv, NEW s \in Sessions, PurgeSessionResults(s)
    PROVE  FinalInv'
<1>1. /\ flow' = flow /\ publication' = publication /\ lostWrites' = lostWrites
      /\ session'[s].finalResult = NoResult
      /\ \A t \in Sessions \ {s} : session'[t] = session[t]
  BY DEF PurgeSessionResults, database, IInv, Placed, ObjectShape
<1>2. ~ NoResult.present
  BY DEF NoResult
<1>3. FinalOf(s)'
  BY <1>1, <1>2 DEF FinalInv, FinalOf
<1> QED
  BY <1>1, <1>3, StepIsFinal

LEMMA LossIsFinal ==
    ASSUME IInv, FinalInv, MemoryLost, UNCHANGED <<publication, lostWrites>>
    PROVE  FinalInv'
<1>1. ASSUME NEW s \in Sessions PROVE FinalOf(s)'
  <2>1. session'[s] = NoSession /\ flow'[s].pc = IF s \in issued THEN "lost" ELSE "idle"
    BY ParkedPlace DEF MemoryLost
  <2>2. ~ NoSession.finalResult.present
    BY DEF NoSession, NewSession, NoResult
  <2>3. s \notin issued => publication[s].status # "published"
    BY DEF IInv, Listed, FinalInv, FinalOf, Early
  <2> QED BY <2>1, <2>2, <2>3 DEF FinalOf, Early, Running, InStep
<1> QED BY <1>1 DEF FinalInv

LEMMA StillIsFinal ==
    ASSUME FinalInv, UNCHANGED <<session, flow, publication, lostWrites>>
    PROVE  FinalInv'
BY DEF FinalInv, FinalOf

LEMMA FinalStep == IInv /\ PublicationType /\ FinalInv /\ [Next]_vars => FinalInv'
<1> SUFFICES ASSUME IInv, PublicationType, FinalInv, [Next]_vars PROVE FinalInv'
  OBVIOUS
<1>1. ASSUME NEW s \in Sessions, Advance(s), ~ MemoryLost PROVE FinalInv'
  <2>1. CASE Joined(s) \/ CoordinatorResolved(s) \/ (\E plan \in Plans : PlanMade(s, plan))
             \/ StepBegins(s) \/ SessionRecordEnsured(s) \/ StepExecuted(s) \/ StepStored(s)
             \/ ParticipantAsked(s)
    <3>1. publication' = publication /\ lostWrites \subseteq lostWrites'
      BY <2>1 DEF Joined, CoordinatorResolved, PlanMade, StepBegins, SessionRecordEnsured,
         StepExecuted, StepStored, ParticipantAsked, database
    <3> QED BY <2>1, <3>1, RunningIsEarly, EarlyIsFinal
  <2>2. CASE JoinFails(s) \/ CoordinatorMissing(s) \/ PlanningFails(s) \/ StepFails(s)
             \/ ParticipantMissing(s)
    <3>1. publication' = publication /\ lostWrites' = lostWrites
      BY <2>2 DEF JoinFails, CoordinatorMissing, PlanningFails, StepFails, ParticipantMissing, database
    <3>2. \E o, f : Becomes(s, o, f) /\ f.pc \in Early \union {"ended"}
      BY ZenonT(60), <1>1, <2>2, FailingEnds, ParkedPlace DEF Ends, Early, Running
    <3>3. flow[s].pc \in Early
      BY <1>1, <2>2, FailingEnds
    <3> QED BY <3>1, <3>2, <3>3, EarlyIsFinal
  <2>3. CASE ToolRecords(s)
    BY <2>3, StillIsFinal DEF ToolRecords, memory
  <2> QED
    BY <1>1, <2>1, <2>2, <2>3, CompletingIsFinal, PersistingIsFinal, PersistedIsFinal,
       SynthesisIsFinal DEF Advance
<1>2. ASSUME NEW s \in Sessions, Advance(s), MemoryLost PROVE FinalInv'
  BY <1>2, OnlyFailuresLose, LossIsFinal
<1>3. ASSUME NEW s \in Sessions, Arrive(s) PROVE FinalInv'
  <2>1. publication' = publication /\ lostWrites' = lostWrites
    BY <1>3 DEF Arrive, Orchestrate, Coordinate, CreateCoordinationPlan, RerunSession, database
  <2> QED BY <1>3, <2>1, ArriveIsEarly, EarlyIsFinal
<1>4. ASSUME NEW s \in Sessions, ApproveAndExecutePlan(s) PROVE FinalInv'
  <2>1. publication' = publication /\ lostWrites' = lostWrites
    BY <1>4 DEF ApproveAndExecutePlan, database
  <2> QED BY <1>4, <2>1, RunningIsEarly, EarlyIsFinal
<1>5. CASE \/ \E s \in Sessions : DeleteSession(s)
           \/ (\E c \in Coordinators : OrchestrateRefused(c)) \/ TimePasses \/ SlotsCleanedUp
           \/ Restart \/ UNCHANGED vars
  BY <1>5, StillIsFinal
     DEF DeleteSession, OrchestrateRefused, TimePasses, SlotsCleanedUp, Restart, vars, memory, database
<1>6. CASE Killed
  BY <1>6, LossIsFinal DEF Killed, database
<1> QED
  BY <1>1, <1>2, <1>3, <1>4, <1>5, <1>6, PurgeIsFinal DEF Next

LEMMA PublicationTypeStep == PublicationType /\ IInv /\ [Next]_vars => PublicationType'
<1> SUFFICES ASSUME PublicationType, IInv, [Next]_vars PROVE PublicationType'
  OBVIOUS
<1>1. ASSUME NEW s \in Sessions, Published(s) \/ PublicationFails(s) PROVE PublicationType'
  <2>1. flow[s].snap.content \in Contents
    BY DEF IInv, Placed, FlowShape
  <2>2. CASE Published(s)
    BY <2>1, <2>2 DEF PublicationType, Published
  <2>3. CASE PublicationFails(s)
    <3>1. publication' = [publication EXCEPT ![s] = [publication[s] EXCEPT !.status = "failed"]]
      BY <2>3 DEF PublicationFails
    <3>2. [publication[s] EXCEPT !.status = "failed"]
             \in [status : {"none", "published", "failed"}, content : Contents]
      BY DEF PublicationType
    <3> QED BY <3>1, <3>2 DEF PublicationType
  <2> QED BY <1>1, <2>2, <2>3
<1>2. ASSUME NEW s \in Sessions, Advance(s), ~ Published(s), ~ PublicationFails(s)
      PROVE  publication' = publication
  BY <1>2 DEF Advance, Joined, JoinFails, CoordinatorResolved, CoordinatorMissing, PlanMade,
     PlanningFails, StepBegins, SessionRecordEnsured, ToolRecords, StepExecuted, StepStored, StepFails,
     PlanCompletes, CreativePublished, ParticipantAsked, ParticipantMissing, ParticipantsDone,
     Integrated, SessionPersisted, ContributionPersisted, PersistingFails, SynthesisReturns, database
<1>3. ASSUME NEW s \in Sessions,
             Arrive(s) \/ ApproveAndExecutePlan(s) \/ DeleteSession(s) \/ PurgeSessionResults(s)
      PROVE  publication' = publication
  BY <1>3 DEF Arrive, Orchestrate, Coordinate, CreateCoordinationPlan, RerunSession,
     ApproveAndExecutePlan, DeleteSession, PurgeSessionResults, database
<1>4. ASSUME \/ (\E c \in Coordinators : OrchestrateRefused(c)) \/ TimePasses \/ SlotsCleanedUp
             \/ Killed \/ Restart \/ UNCHANGED vars
      PROVE  publication' = publication
  BY <1>4 DEF OrchestrateRefused, TimePasses, SlotsCleanedUp, Killed, Restart, vars, database
<1> QED
  BY <1>1, <1>2, <1>3, <1>4 DEF Next, PublicationType

\* Only createCoordinationPlan makes the sessions that are approved.
KindInv == \A s \in Sessions : session[s].kind = "approve" => "approve" \in EntryPoints

LEMMA KindStep == IInv /\ KindInv /\ [Next]_vars => KindInv'
<1> SUFFICES ASSUME IInv, KindInv, [Next]_vars, NEW s \in Sessions, session'[s].kind = "approve"
             PROVE  "approve" \in EntryPoints
  BY DEF KindInv
<1>1. session[s].kind = "approve" => "approve" \in EntryPoints
  BY DEF KindInv
<1>2. ASSUME NEW t \in Sessions, Arrive(t) PROVE "approve" \in EntryPoints
  <2>1. \A kind, c, status, plan : NewSession(kind, c, status, plan).kind = kind
    BY DEF NewSession
  <2>2. \A o, f : Becomes(t, o, f) => session'[s].kind = IF s = t THEN o.kind ELSE session[s].kind
    BY DEF IInv, Placed, Becomes
  <2> QED BY <1>1, <1>2, <2>1, <2>2
          DEF Arrive, Orchestrate, Coordinate, CreateCoordinationPlan, RerunSession
<1>3. CASE MemoryLost
  BY <1>3 DEF MemoryLost, NoSession, NewSession
<1>4. ASSUME NEW t \in Sessions, Advance(t), ~ MemoryLost PROVE "approve" \in EntryPoints
  <2>1. CASE Joined(t)
    BY <1>1, <2>1 DEF Joined, Parks
  <2>2. CASE Moves(t)
    BY <1>1, <2>2 DEF Moves
  <2> QED BY <1>4, <2>1, <2>2, AdvanceMoves
<1>5. ASSUME NEW t \in Sessions, ApproveAndExecutePlan(t) \/ PurgeSessionResults(t)
      PROVE  "approve" \in EntryPoints
  <2>1. session[t] \in ObjectShape /\ session \in [Sessions -> ObjectShape]
    BY DEF IInv, Placed
  <2>2. CASE ApproveAndExecutePlan(t)
    <3>1. \A o, f : Becomes(t, o, f) => session'[s] = IF s = t THEN o ELSE session[s]
      BY <2>1 DEF Becomes
    <3>2. [session[t] EXCEPT !.status = "in_progress"].kind = session[t].kind
      BY <2>1 DEF ObjectShape
    <3> QED BY <1>1, <2>2, <3>1, <3>2 DEF ApproveAndExecutePlan
  <2>3. CASE PurgeSessionResults(t)
    <3>1. session'[s].kind = session[s].kind
      BY <2>1, <2>3 DEF PurgeSessionResults, ObjectShape
    <3> QED BY <1>1, <3>1
  <2> QED BY <1>5, <2>2, <2>3
<1>6. CASE session' = session
  BY <1>1, <1>6
<1> QED
  BY <1>2, <1>3, <1>4, <1>5, <1>6
     DEF Next, DeleteSession, OrchestrateRefused, TimePasses, SlotsCleanedUp, Killed, Restart,
         vars, memory

LEMMA FinalAlways == Spec => [](FinalInv /\ KindInv)
<1>1. Init => PublicationType /\ FinalInv /\ KindInv
  BY ParkedPlace DEF Init, PublicationType, FinalInv, FinalOf, KindInv, Persists, Contents,
     NoSession, NewSession
<1>2. IInv /\ PublicationType /\ FinalInv /\ KindInv /\ [Next]_vars
         => (IInv /\ PublicationType /\ FinalInv /\ KindInv)'
  BY IInvStep, PublicationTypeStep, FinalStep, KindStep
<1> QED
  BY <1>1, <1>2, IInvInit, PTL DEF Spec

\* Every session but those of approved plans publishes what its result is in
\* the end, whatever is purged, deleted or lost meanwhile.
UnapprovedIsFinal ==
    \A s \in Sessions :
        Ended(s) /\ session[s].kind # "approve" /\ publication[s].status = "published"
            /\ s \notin lostWrites /\ session[s].finalResult.present
        => publication[s].content = session[s].finalResult.content

\* Of a session that no call approved, what is published is its final result:
\* publishing comes after the synthesis, except in approveAndExecutePlan.
THEOREM UnapprovedPublicationsAreFinal == Spec => []UnapprovedIsFinal
<1>1. FinalInv => UnapprovedIsFinal
  BY DEF FinalInv, FinalOf, UnapprovedIsFinal, Ended
<1> QED
  BY <1>1, FinalAlways, PTL

\* Where no plans are approved, nothing published is stale.  MCApprovedStale
\* shows that with them it may be.
THEOREM PublicationsAreFinal ==
    ASSUME "approve" \notin EntryPoints
    PROVE  Spec => []PublishedIsFinal
<1>1. FinalInv /\ KindInv => PublishedIsFinal
  BY DEF FinalInv, FinalOf, KindInv, PublishedIsFinal, Ended
<1> QED
  BY <1>1, FinalAlways, PTL

==============================================================================
