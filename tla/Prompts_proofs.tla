---------------------------- MODULE Prompts_proofs ----------------------------
(***************************************************************************)
(* Proofs about agents at work, for any agents, realms, replies, sessions  *)
(* and requests.                                                           *)
(*                                                                         *)
(* Calls and their results: StackInv counts, in every prompt of a stack,   *)
(* the results against the calls of the reply that parse, up to the call   *)
(* at hand; what a budget leaves of them is a beginning (ToldInOrder).     *)
(*                                                                         *)
(* Travel: a session learns where an agent is when it joins, before the   *)
(* session is listed, forgets it when it is cleaned up, and otherwise has  *)
(* it changed by an arrival alone (StatesChange).                          *)
(*                                                                         *)
(* The store: StoreInv says of each call in flight what it may rely on     *)
(* while it is alone with its agent (AloneFits), that of two calls on one  *)
(* agent neither takes itself to be alone (Apart), and that memory and the *)
(* table differ only where a call is at work or something went wrong       *)
(* (Quiet).  CallMoves shows once what one call's step may do to the rest; *)
(* each action is an instance of it.                                       *)
(***************************************************************************)
EXTENDS Prompts, FiniteSetTheorems, SequenceTheorems, TLAPS

------------------------------------------------------------------------------
(***************************************************************************)
(* A reply's calls and their results                                       *)
(***************************************************************************)

Outcomes == [call : ToolCall, ok : BOOLEAN]

\* One call more, and one result more if it parses.
LEMMA ParsedUpTo ==
    ASSUME NEW f, NEW n \in Nat
    PROVE  /\ IsFiniteSet(Parsed(f, n)) /\ Cardinality(Parsed(f, n)) \in Nat
           /\ Parsed(f, 0) = {} /\ Cardinality(Parsed(f, 0)) = 0
           /\ WellFormed(f.reply[n + 1]) =>
                 /\ Parsed(f, n + 1) = Parsed(f, n) \union {n + 1}
                 /\ Cardinality(Parsed(f, n + 1)) = Cardinality(Parsed(f, n)) + 1
           /\ ~ WellFormed(f.reply[n + 1]) => Parsed(f, n + 1) = Parsed(f, n)
           /\ \A i \in Parsed(f, n) : Cardinality(Parsed(f, i)) \in 1 .. Cardinality(Parsed(f, n))
<1>1. ASSUME NEW m \in Nat
      PROVE  IsFiniteSet(Parsed(f, m)) /\ Cardinality(Parsed(f, m)) \in Nat
  <2>1. IsFiniteSet(1 .. m)
    BY FS_Interval
  <2>2. Parsed(f, m) \subseteq 1 .. m
    BY DEF Parsed
  <2> QED
    BY <2>1, <2>2, FS_Subset, FS_CardinalityType
<1>2. Parsed(f, 0) = {}
  BY DEF Parsed
<1>3. Cardinality(Parsed(f, 0)) = 0
  BY <1>2, FS_EmptySet
<1>4. ASSUME WellFormed(f.reply[n + 1])
      PROVE  /\ Parsed(f, n + 1) = Parsed(f, n) \union {n + 1}
             /\ Cardinality(Parsed(f, n + 1)) = Cardinality(Parsed(f, n)) + 1
  <2>1. Parsed(f, n + 1) = Parsed(f, n) \union {n + 1}
    BY <1>4 DEF Parsed
  <2>2. n + 1 \notin Parsed(f, n)
    BY DEF Parsed
  <2> QED
    BY <1>1, <2>1, <2>2, FS_AddElement
<1>5. ASSUME ~ WellFormed(f.reply[n + 1])
      PROVE  Parsed(f, n + 1) = Parsed(f, n)
  BY <1>5 DEF Parsed
<1>6. ASSUME NEW i \in Parsed(f, n)
      PROVE  Cardinality(Parsed(f, i)) \in 1 .. Cardinality(Parsed(f, n))
  <2>1. i \in 1 .. n /\ i \in Nat /\ i \in Parsed(f, i)
    BY DEF Parsed
  <2>2. Parsed(f, i) \subseteq Parsed(f, n)
    BY <2>1 DEF Parsed
  <2>3. Cardinality(Parsed(f, i)) <= Cardinality(Parsed(f, n))
    BY <1>1, <2>2, FS_Subset
  <2>4. Cardinality(Parsed(f, i)) # 0
    BY <1>1, <2>1, FS_EmptySet
  <2> QED
    BY <1>1, <2>1, <2>3, <2>4
<1> QED
  BY <1>1, <1>2, <1>3, <1>4, <1>5, <1>6

\* A call that has its result leaves the calls up to it answered.
LEMMA OneMoreAnswered ==
    ASSUME NEW f, NEW g, NEW n \in Nat, NEW o \in Outcomes,
           f.results \in Seq(Outcomes), AnswersCalls(f, n),
           WellFormed(f.reply[n + 1]), o.call = f.reply[n + 1],
           g.reply = f.reply, g.results = Append(f.results, o)
    PROVE  AnswersCalls(g, n + 1)
<1>1. /\ Len(g.results) = Len(f.results) + 1 /\ g.results[Len(f.results) + 1] = o
      /\ \A i \in 1 .. Len(f.results) : g.results[i] = f.results[i]
  BY AppendProperties
<1>2. \A m : Parsed(g, m) = Parsed(f, m)
  BY DEF Parsed
<1>3. Len(g.results) = Cardinality(Parsed(g, n + 1))
  BY <1>1, <1>2, ParsedUpTo DEF AnswersCalls
<1>4. ASSUME NEW i \in Parsed(f, n + 1)
      PROVE  g.results[Cardinality(Parsed(f, i))].call = f.reply[i]
  <2>1. CASE i \in Parsed(f, n)
    <3>1. Cardinality(Parsed(f, i)) \in 1 .. Len(f.results)
      BY <2>1, ParsedUpTo DEF AnswersCalls
    <3> QED
      BY <1>1, <2>1, <3>1 DEF AnswersCalls
  <2>2. CASE i = n + 1
    BY <1>1, <2>2, ParsedUpTo DEF AnswersCalls
  <2>3. Parsed(f, n + 1) = Parsed(f, n) \union {n + 1}
    BY ParsedUpTo
  <2> QED
    BY <2>1, <2>2, <2>3
<1> QED
  BY <1>2, <1>3, <1>4 DEF AnswersCalls

\* A call that does not parse needs none.
LEMMA NoneForMalformed ==
    ASSUME NEW f, NEW g, NEW n \in Nat, AnswersCalls(f, n), ~ WellFormed(f.reply[n + 1]),
           g.reply = f.reply, g.results = f.results
    PROVE  AnswersCalls(g, n + 1)
<1>1. \A m : Parsed(g, m) = Parsed(f, m)
  BY DEF Parsed
<1>2. Parsed(f, n + 1) = Parsed(f, n)
  BY ParsedUpTo
<1> QED
  BY <1>1, <1>2 DEF AnswersCalls

LEMMA SameAnswers ==
    ASSUME NEW f, NEW g, NEW n, AnswersCalls(f, n), g.reply = f.reply, g.results = f.results
    PROVE  AnswersCalls(g, n)
<1>1. \A m : Parsed(g, m) = Parsed(f, m)
  BY DEF Parsed
<1> QED
  BY <1>1 DEF AnswersCalls

\* With all calls answered, what is left of the results is told in order.
LEMMA ToldInOrder ==
    ASSUME NEW f, f.results \in Seq(Outcomes), Len(f.reply) \in Nat, AnswersCalls(f, Len(f.reply)),
           NEW told \in Optimized(f), NEW g, g.reply = f.reply, g.agent = f.agent, g.results = told
    PROVE  Told(g) /\ told \in Seq(Outcomes)
<1> DEFINE n == Len(f.reply)
           m == Cardinality(Parsed(f, n))
<1>1. /\ Len(f.results) = m /\ m \in Nat
      /\ \A i \in Parsed(f, n) : /\ Cardinality(Parsed(f, i)) \in 1 .. m
                                 /\ f.results[Cardinality(Parsed(f, i))].call = f.reply[i]
  BY ParsedUpTo DEF AnswersCalls
<1>2. \A k : Parsed(g, k) = Parsed(f, k)
  BY DEF Parsed
<1>3. /\ told \in Seq(Outcomes) /\ Len(told) \in 0 .. m /\ (g.agent \notin Summarising => Len(told) = m)
      /\ \A k \in 1 .. Len(told) : told[k] = f.results[k]
  <2>1. CASE f.agent \in Summarising
    <3>1. PICK k \in 0 .. Len(f.results) : told = SubSeq(f.results, 1, k)
      BY <2>1 DEF Optimized
    <3>2. k \in Nat /\ k <= Len(f.results)
      BY <1>1, <3>1
    <3>3. /\ told \in Seq(Outcomes) /\ Len(told) = k
          /\ \A j \in 1 .. k : told[j] = f.results[j]
      BY <3>1, <3>2
    <3> QED
      BY <1>1, <2>1, <3>2, <3>3
  <2>2. CASE f.agent \notin Summarising
    BY <1>1, <2>2 DEF Optimized
  <2> QED
    BY <2>1, <2>2
<1>4. \A i \in Parsed(f, n) : Cardinality(Parsed(f, i)) <= Len(told) =>
          told[Cardinality(Parsed(f, i))].call = f.reply[i]
  BY <1>1, <1>3
<1> QED
  BY <1>1, <1>2, <1>3, <1>4 DEF Told

------------------------------------------------------------------------------
(***************************************************************************)
(* Frames                                                                  *)
(***************************************************************************)

IsFrame(f) ==
    f = [agent |-> f.agent, pc |-> f.pc, round |-> f.round, reply |-> f.reply, at |-> f.at,
         results |-> f.results, seen |-> f.seen]

\* A prompt at work: the calls before the one at hand have their results, and
\* those that are left are told when the model is asked again.
FrameFits(f) ==
    /\ IsFrame(f) /\ f.agent \in AgentIds
    /\ f.pc \in {"asking", "calling", "messaging", "waiting", "travelling", "saving"}
    /\ f.reply \in Seq(ToolCall) /\ f.results \in Seq(Outcomes)
    /\ f.at \in 1 .. Len(f.reply) + 1
    /\ f.pc = "asking" => Told(f)
    /\ f.pc # "asking" => AnswersCalls(f, f.at - 1)
    /\ f.pc \in {"messaging", "waiting", "travelling", "saving"} =>
          f.at <= Len(f.reply) /\ WellFormed(f.reply[f.at])

\* Every prompt but the innermost waits for the one it nested.
StackFits(t) ==
    /\ t \in Seq(Range(t))
    /\ \A i \in 1 .. Len(t) : FrameFits(t[i]) /\ (i < Len(t) => t[i].pc = "messaging")

StackInv ==
    /\ stacks = [p \in Strands |-> stacks[p]]
    /\ \A p \in Strands : StackFits(stacks[p])

LEMMA FieldsSet ==
    ASSUME NEW f, IsFrame(f), NEW x
    PROVE  /\ IsFrame([f EXCEPT !.pc = x])
           /\ IsFrame([f EXCEPT !.round = x])
           /\ IsFrame([f EXCEPT !.reply = x])
           /\ IsFrame([f EXCEPT !.at = x])
           /\ IsFrame([f EXCEPT !.results = x])
           /\ IsFrame([f EXCEPT !.seen = x])
<1>1. IsFrame([f EXCEPT !.pc = x])
  BY DEF IsFrame
<1>2. IsFrame([f EXCEPT !.round = x])
  BY DEF IsFrame
<1>3. IsFrame([f EXCEPT !.reply = x])
  BY DEF IsFrame
<1>4. IsFrame([f EXCEPT !.at = x])
  BY DEF IsFrame
<1>5. IsFrame([f EXCEPT !.results = x])
  BY DEF IsFrame
<1>6. IsFrame([f EXCEPT !.seen = x])
  BY DEF IsFrame
<1> QED
  BY <1>1, <1>2, <1>3, <1>4, <1>5, <1>6

\* A frame in the making has no calls to answer.
LEMMA FrameIsNew ==
    ASSUME NEW a \in AgentIds
    PROVE  FrameFits(Frame(a)) /\ Frame(a).pc = "asking"
<1> DEFINE f == Frame(a)
<1>1. /\ IsFrame(f) /\ f.agent = a /\ f.pc = "asking" /\ f.at = 1
      /\ f.reply = <<>> /\ f.results = <<>>
  BY DEF Frame, IsFrame
<1> HIDE DEF f
<1>2. Len(f.reply) = 0 /\ Len(f.results) = 0
  BY <1>1
<1>3. f.reply \in Seq(ToolCall) /\ f.results \in Seq(Outcomes)
  BY <1>1
<1>4. Told(f)
  <2>1. Parsed(f, 0) = {} /\ Cardinality(Parsed(f, 0)) = 0
    BY ParsedUpTo
  <2> QED
    BY <1>2, <2>1 DEF Told
<1> QED
  BY <1>1, <1>2, <1>3, <1>4 DEF FrameFits, f

\* The call at hand gets its result.
LEMMA WithResultFits ==
    ASSUME NEW f, FrameFits(f), f.pc # "asking", f.at <= Len(f.reply), WellFormed(f.reply[f.at]),
           NEW ok \in BOOLEAN
    PROVE  FrameFits(WithResult(f, ok)) /\ WithResult(f, ok).pc = "calling"
<1> DEFINE g == WithResult(f, ok)
           o == [call |-> f.reply[f.at], ok |-> ok]
           told == Append(f.results, o)
<1>1. /\ IsFrame(f) /\ f.agent \in AgentIds /\ f.reply \in Seq(ToolCall) /\ f.results \in Seq(Outcomes)
      /\ f.at \in 1 .. Len(f.reply) /\ Len(f.reply) \in Nat /\ AnswersCalls(f, f.at - 1)
  BY DEF FrameFits
<1>2. o \in Outcomes /\ o.call = f.reply[f.at]
  <2>1. f.reply[f.at] \in ToolCall
    BY <1>1
  <2> QED
    BY <2>1 DEF Outcomes
<1> HIDE DEF o
<1>3. told \in Seq(Outcomes)
  BY <1>1, <1>2
<1>4. g = [[[[f EXCEPT !.pc = "calling"] EXCEPT !.at = f.at + 1] EXCEPT !.seen = Idle] EXCEPT !.results = told]
  BY <1>1 DEF WithResult, IsFrame, o
<1> HIDE DEF g, told
<1>5. IsFrame(g)
  <2>1. IsFrame([f EXCEPT !.pc = "calling"])
    BY <1>1, FieldsSet
  <2>2. IsFrame([[f EXCEPT !.pc = "calling"] EXCEPT !.at = f.at + 1])
    BY <2>1, FieldsSet
  <2>3. IsFrame([[[f EXCEPT !.pc = "calling"] EXCEPT !.at = f.at + 1] EXCEPT !.seen = Idle])
    BY <2>2, FieldsSet
  <2> QED
    BY <1>4, <2>3, FieldsSet
<1>6. /\ g.agent = f.agent /\ g.pc = "calling" /\ g.reply = f.reply /\ g.at = f.at + 1
      /\ g.results = Append(f.results, o)
  BY <1>1, <1>4 DEF IsFrame, told
<1>7. AnswersCalls(g, g.at - 1)
  <2> DEFINE n == f.at - 1
  <2>1. n \in Nat /\ n + 1 = f.at /\ g.at - 1 = n + 1
    BY <1>1, <1>6
  <2> HIDE DEF n
  <2>2. AnswersCalls(f, n)
    BY <1>1 DEF n
  <2>3. AnswersCalls(g, n + 1)
    BY <1>1, <1>2, <1>6, <2>1, <2>2, OneMoreAnswered
  <2> QED
    BY <2>1, <2>3
<1>8. g.results \in Seq(Outcomes) /\ g.at \in 1 .. Len(g.reply) + 1
  BY <1>1, <1>3, <1>6 DEF told
<1> QED
  BY <1>1, <1>5, <1>6, <1>7, <1>8 DEF FrameFits, g

------------------------------------------------------------------------------
(***************************************************************************)
(* Stacks                                                                  *)
(***************************************************************************)

LEMMA SeqOfItsOwn ==
    ASSUME NEW S, NEW t \in Seq(S)
    PROVE  t \in Seq(Range(t))
<1>1. Len(t) \in Nat /\ t \in [1 .. Len(t) -> S]
  BY LenProperties
<1>2. t \in [1 .. Len(t) -> Range(t)]
  BY <1>1 DEF Range
<1> QED
  BY <1>1, <1>2, SeqDef

LEMMA StackShape ==
    ASSUME NEW t, StackFits(t)
    PROVE  /\ Len(t) \in Nat /\ DOMAIN t = 1 .. Len(t)
           /\ \A i \in 1 .. Len(t) : FrameFits(t[i]) /\ (i < Len(t) => t[i].pc = "messaging")
           /\ t # <<>> => Len(t) \in 1 .. Len(t) /\ FrameFits(t[Len(t)])
<1>1. t \in Seq(Range(t)) /\ \A i \in 1 .. Len(t) : FrameFits(t[i]) /\ (i < Len(t) => t[i].pc = "messaging")
  BY DEF StackFits
<1>2. Len(t) \in Nat /\ DOMAIN t = 1 .. Len(t) /\ (t # <<>> => Len(t) # 0)
  BY <1>1, EmptySeq, LenProperties
<1> QED
  BY <1>1, <1>2

\* What makes a stack of one that is a sequence.
LEMMA MakesStack ==
    ASSUME NEW S, NEW t \in Seq(S),
           \A i \in 1 .. Len(t) : FrameFits(t[i]) /\ (i < Len(t) => t[i].pc = "messaging")
    PROVE  StackFits(t)
BY SeqOfItsOwn DEF StackFits

\* The innermost prompt changes.
LEMMA TopFits ==
    ASSUME NEW t, StackFits(t), t # <<>>, NEW f, FrameFits(f)
    PROVE  StackFits([t EXCEPT ![Len(t)] = f])
<1> DEFINE n == Len(t)
           S == Range(t) \union {f}
           u == [t EXCEPT ![n] = f]
<1>1. n \in Nat /\ n \in 1 .. n /\ t \in Seq(S)
  BY StackShape, SeqMonotonic DEF StackFits
<1>2. f \in S
  OBVIOUS
<1>3. \A i \in 1 .. n : FrameFits(t[i]) /\ (i < n => t[i].pc = "messaging")
  BY StackShape
<1> HIDE DEF S
<1>4. u \in Seq(S) /\ Len(u) = n /\ \A i \in 1 .. n : u[i] = IF i = n THEN f ELSE t[i]
  BY <1>1, <1>2, ExceptSeq
<1>5. \A i \in 1 .. Len(u) : FrameFits(u[i]) /\ (i < Len(u) => u[i].pc = "messaging")
  BY <1>1, <1>3, <1>4
<1> HIDE DEF u
<1> QED
  BY <1>4, <1>5, MakesStack DEF u

\* The innermost prompt ends, and the one that nested it has its result.
LEMMA NestingFits ==
    ASSUME NEW t, StackFits(t), NEW depth \in Nat \ {0}, depth = Len(t) - 1, NEW ok \in BOOLEAN
    PROVE  StackFits([i \in 1 .. depth |-> IF i = depth THEN WithResult(t[i], ok) ELSE t[i]])
<1> DEFINE last == WithResult(t[depth], ok)
           u == [i \in 1 .. depth |-> IF i = depth THEN last ELSE t[i]]
           S == Range(t) \union {last}
<1>1. /\ Len(t) \in Nat /\ DOMAIN t = 1 .. Len(t) /\ Len(t) = depth + 1 /\ depth \in 1 .. Len(t)
      /\ \A i \in 1 .. Len(t) : FrameFits(t[i]) /\ (i < Len(t) => t[i].pc = "messaging")
  BY StackShape
<1>2. FrameFits(t[depth]) /\ t[depth].pc = "messaging"
  BY <1>1
<1>3. FrameFits(last)
  <2>1. t[depth].at <= Len(t[depth].reply) /\ WellFormed(t[depth].reply[t[depth].at])
    BY <1>2 DEF FrameFits
  <2> QED
    BY <1>2, <2>1, WithResultFits
<1> HIDE DEF last
<1>4. \A i \in 1 .. depth : i \in DOMAIN t /\ u[i] = IF i = depth THEN last ELSE t[i]
  BY <1>1
<1>5. u \in [1 .. depth -> S]
  BY <1>4 DEF Range
<1> HIDE DEF S
<1>6. u \in Seq(S)
  <2>1. \E n \in Nat : u \in [1 .. n -> S]
    BY <1>1, <1>5
  <2> HIDE DEF u
  <2> QED
    BY <2>1, SeqDef
<1>7. Len(u) = depth
  BY <1>5, <1>6, LenProperties
<1>8. \A i \in 1 .. Len(u) : FrameFits(u[i]) /\ (i < Len(u) => u[i].pc = "messaging")
  BY <1>1, <1>3, <1>4, <1>7
<1> HIDE DEF u
<1> QED
  BY <1>6, <1>8, MakesStack DEF u, last

\* The innermost prompt nests another.
LEMMA NestedFits ==
    ASSUME NEW t, StackFits(t), t # <<>>, NEW f, FrameFits(f), f.pc = "messaging", NEW g, FrameFits(g)
    PROVE  StackFits(Append([t EXCEPT ![Len(t)] = f], g))
<1> DEFINE n == Len(t)
           S == Range(t) \union {f, g}
           u == [t EXCEPT ![n] = f]
           w == Append(u, g)
<1>1. n \in Nat /\ n \in 1 .. n /\ t \in Seq(S)
  BY StackShape, SeqMonotonic DEF StackFits
<1>2. f \in S /\ g \in S
  OBVIOUS
<1>3. \A i \in 1 .. n : FrameFits(t[i]) /\ (i < n => t[i].pc = "messaging")
  BY StackShape
<1> HIDE DEF S
<1>4. u \in Seq(S) /\ Len(u) = n /\ \A i \in 1 .. n : u[i] = IF i = n THEN f ELSE t[i]
  BY <1>1, <1>2, ExceptSeq
<1> HIDE DEF u
<1>5. /\ w \in Seq(S) /\ Len(w) = n + 1 /\ w[n + 1] = g
      /\ \A i \in 1 .. n : w[i] = u[i]
  BY <1>1, <1>2, <1>4, AppendProperties
<1> HIDE DEF w
<1>6. \A i \in 1 .. n + 1 : FrameFits(w[i]) /\ (i < n + 1 => w[i].pc = "messaging")
  <2>1. \A i \in 1 .. n : FrameFits(w[i]) /\ w[i].pc = "messaging"
    BY <1>1, <1>3, <1>4, <1>5
  <2> QED
    BY <1>1, <1>5, <2>1
<1>7. \A i \in 1 .. Len(w) : FrameFits(w[i]) /\ (i < Len(w) => w[i].pc = "messaging")
  BY <1>5, <1>6
<1> QED
  BY <1>5, <1>7, MakesStack DEF w, u

LEMMA EmptyFits == StackFits(<<>>)
<1> DEFINE t == <<>>
<1>1. t \in Seq({}) /\ Len(t) = 0
  BY EmptySeq
<1> HIDE DEF t
<1>2. \A i \in 1 .. Len(t) : FALSE
  BY <1>1
<1>3. StackFits(t)
  BY <1>1, <1>2, MakesStack
<1> QED
  BY <1>3 DEF t

------------------------------------------------------------------------------
(***************************************************************************)
(* The steps of a strand, and its stack                                    *)
(***************************************************************************)

LEMMA StackMoves ==
    ASSUME StackInv, NEW p \in Strands, NEW t, StackFits(t), stacks' = [stacks EXCEPT ![p] = t]
    PROVE  StackInv'
BY DEF StackInv

LEMMA TopMoves ==
    ASSUME StackInv, NEW p \in Strands, stacks[p] # <<>>, NEW f, FrameFits(f), Becomes(p, f)
    PROVE  StackInv'
<1> DEFINE t == [stacks[p] EXCEPT ![Len(stacks[p])] = f]
<1>1. StackFits(t)
  BY TopFits DEF StackInv
<1>2. stacks' = [stacks EXCEPT ![p] = t]
  BY DEF Becomes
<1> HIDE DEF t
<1> QED
  BY <1>1, <1>2, StackMoves

LEMMA TopIsFrame ==
    ASSUME StackInv, NEW p \in Strands, stacks[p] # <<>>
    PROVE  /\ FrameFits(Top(p)) /\ Len(stacks[p]) \in Nat \ {0}
           /\ DOMAIN stacks[p] = 1 .. Len(stacks[p])
BY StackShape DEF StackInv, Top

LEMMA EndFits ==
    ASSUME StackInv, NEW p \in Strands, stacks[p] # <<>>, NEW ok \in BOOLEAN, PromptEnds(p, ok)
    PROVE  StackInv'
<1> DEFINE depth == Len(stacks[p]) - 1
           t == [i \in 1 .. depth |-> IF i = depth THEN WithResult(stacks[p][i], ok) ELSE stacks[p][i]]
<1>1. depth \in Nat
  BY TopIsFrame
<1>2. CASE depth = 0
  <2>1. stacks' = [stacks EXCEPT ![p] = <<>>]
    BY <1>2 DEF PromptEnds
  <2> QED
    BY <2>1, EmptyFits, StackMoves
<1>3. CASE depth # 0
  <2>1. stacks' = [stacks EXCEPT ![p] = t]
    <3>1. p \in DOMAIN stacks
      BY DEF StackInv
    <3> QED
      BY <1>3, <3>1 DEF PromptEnds
  <2>2. StackFits(t)
    <3>1. StackFits(stacks[p])
      BY DEF StackInv
    <3>2. t = [i \in 1 .. depth |-> IF i = depth THEN WithResult(stacks[p][depth], ok) ELSE stacks[p][i]]
      OBVIOUS
    <3> QED
      BY <1>1, <1>3, <3>1, NestingFits
  <2> HIDE DEF t
  <2> QED
    BY <2>1, <2>2, StackMoves
<1> QED
  BY <1>2, <1>3

\* A frame that goes on with the call at hand.
LEMMA FrameGoesOn ==
    ASSUME NEW f, FrameFits(f), f.pc # "asking", NEW g, IsFrame(g),
           g.agent = f.agent, g.reply = f.reply, g.results = f.results, g.at = f.at,
           g.pc \in {"messaging", "waiting", "travelling", "saving"},
           f.at <= Len(f.reply), WellFormed(f.reply[f.at])
    PROVE  FrameFits(g)
<1>1. AnswersCalls(g, g.at - 1)
  BY SameAnswers DEF FrameFits
<1> QED
  BY <1>1 DEF FrameFits

LEMMA PromptStack ==
    ASSUME StackInv, NEW p \in Strands, NEW a \in AgentIds, Prompt(p, a)
    PROVE  StackInv'
<1>1. CASE UNCHANGED stacks
  BY <1>1 DEF StackInv
<1>2. CASE stacks' = [stacks EXCEPT ![p] = <<Frame(a)>>]
  <2> DEFINE f == Frame(a)
             t == <<f>>
  <2>1. FrameFits(f)
    BY FrameIsNew
  <2> HIDE DEF f
  <2>2. t \in Seq({f}) /\ Len(t) = 1 /\ t[1] = f
    OBVIOUS
  <2>3. \A i \in 1 .. Len(t) : FrameFits(t[i]) /\ ~ i < Len(t)
    BY <2>1, <2>2
  <2> HIDE DEF t
  <2>4. StackFits(t)
    BY <2>2, <2>3, MakesStack
  <2> QED
    BY <1>2, <2>4, StackMoves DEF t, f
<1> QED
  BY <1>1, <1>2 DEF Prompt

LEMMA AskingStack ==
    ASSUME StackInv, NEW p \in Strands,
           LLMFails(p) \/ \E reply \in Replies : LLMReplies(p, reply)
    PROVE  StackInv'
<1>1. stacks[p] # <<>> /\ Top(p).pc = "asking"
  BY DEF LLMFails, LLMReplies, Running
<1>2. FrameFits(Top(p))
  BY <1>1, TopIsFrame
<1>3. CASE LLMFails(p)
  BY <1>1, <1>3, EndFits DEF LLMFails
<1>4. ASSUME NEW reply \in Replies, LLMReplies(p, reply)
      PROVE  StackInv'
  <2> DEFINE f == Top(p)
             none == <<>>
             g == [f EXCEPT !.pc = "calling", !.reply = reply, !.at = 1, !.results = none]
  <2>1. Becomes(p, g)
    BY <1>4 DEF LLMReplies
  <2>2. reply \in Seq(ToolCall) /\ Len(reply) \in Nat
    BY RepliesAssumption
  <2>3. none \in Seq(Outcomes) /\ Len(none) = 0
    OBVIOUS
  <2> HIDE DEF none
  <2>4. IsFrame(f)
    BY <1>2 DEF FrameFits
  <2>5. g = [[[[f EXCEPT !.pc = "calling"] EXCEPT !.reply = reply] EXCEPT !.at = 1] EXCEPT !.results = none]
    OBVIOUS
  <2>6. IsFrame(g)
    <3>1. IsFrame([f EXCEPT !.pc = "calling"])
      BY <2>4, FieldsSet
    <3>2. IsFrame([[f EXCEPT !.pc = "calling"] EXCEPT !.reply = reply])
      BY <3>1, FieldsSet
    <3>3. IsFrame([[[f EXCEPT !.pc = "calling"] EXCEPT !.reply = reply] EXCEPT !.at = 1])
      BY <3>2, FieldsSet
    <3> QED
      BY <2>5, <3>3, FieldsSet
  <2>7. /\ g.agent = f.agent /\ g.pc = "calling" /\ g.reply = reply /\ g.at = 1 /\ g.results = none
    BY <2>4 DEF IsFrame
  <2> HIDE DEF g
  <2>8. AnswersCalls(g, 0)
    BY <2>3, <2>7, ParsedUpTo DEF AnswersCalls
  <2>9. FrameFits(g)
    BY <1>2, <2>2, <2>3, <2>6, <2>7, <2>8 DEF FrameFits
  <2> QED
    BY <1>1, <2>1, <2>9, TopMoves
<1> QED
  BY <1>3, <1>4

LEMMA RoundStack ==
    ASSUME StackInv, NEW p \in Strands, RoundEnds(p)
    PROVE  StackInv'
<1> DEFINE f == Top(p)
           next == RoundAfter(f)
           g(told) == [f EXCEPT !.pc = "asking", !.round = next, !.results = told]
<1>1. stacks[p] # <<>> /\ f.pc = "calling" /\ f.at > Len(f.reply)
  BY DEF RoundEnds, Running
<1>2. FrameFits(f)
  BY <1>1, TopIsFrame
<1>3. CASE PromptEnds(p, TRUE)
  BY <1>1, <1>3, EndFits
<1>4. ASSUME NEW told \in Optimized(f), Becomes(p, g(told))
      PROVE  StackInv'
  <2> DEFINE h == g(told)
  <2> HIDE DEF next
  <2>1. IsFrame(f)
    BY <1>2 DEF FrameFits
  <2>2. IsFrame(h)
    <3>1. IsFrame([f EXCEPT !.pc = "asking"])
      BY <2>1, FieldsSet
    <3>2. IsFrame([[f EXCEPT !.pc = "asking"] EXCEPT !.round = next])
      BY <3>1, FieldsSet
    <3>3. h = [[[f EXCEPT !.pc = "asking"] EXCEPT !.round = next] EXCEPT !.results = told]
      OBVIOUS
    <3> QED
      BY <3>2, <3>3, FieldsSet
  <2>3. /\ h.agent = f.agent /\ h.pc = "asking" /\ h.reply = f.reply /\ h.at = f.at /\ h.results = told
    BY <2>1 DEF IsFrame
  <2>4. f.at \in 1 .. Len(f.reply) + 1 /\ Len(f.reply) \in Nat /\ f.results \in Seq(Outcomes)
    BY <1>2 DEF FrameFits
  <2>5. f.at - 1 = Len(f.reply)
    BY <1>1, <2>4
  <2> HIDE DEF h, g
  <2>6. Told(h) /\ told \in Seq(Outcomes)
    <3>1. AnswersCalls(f, Len(f.reply))
      BY <1>1, <1>2, <2>5 DEF FrameFits
    <3> QED
      BY <2>3, <2>4, <3>1, ToldInOrder
  <2>7. FrameFits(h)
    BY <1>2, <2>2, <2>3, <2>6 DEF FrameFits
  <2> QED
    BY <1>1, <1>4, <2>7, TopMoves DEF h
<1> QED
  BY <1>3, <1>4 DEF RoundEnds

\* A call whose result is there.
LEMMA ResultStack ==
    ASSUME StackInv, NEW p \in Strands, stacks[p] # <<>>, Top(p).pc # "asking",
           Top(p).at <= Len(Top(p).reply), WellFormed(Top(p).reply[Top(p).at]),
           NEW ok \in BOOLEAN, Results(p, ok)
    PROVE  StackInv'
<1>1. FrameFits(WithResult(Top(p), ok))
  BY TopIsFrame, WithResultFits
<1> QED
  BY <1>1, TopMoves DEF Results

LEMMA CallingIs ==
    ASSUME NEW p, NEW tool, Calling(p, tool)
    PROVE  /\ stacks[p] # <<>> /\ Top(p).pc = "calling" /\ Top(p).at <= Len(Top(p).reply)
           /\ tool # "malformed" => WellFormed(Top(p).reply[Top(p).at])
           /\ tool = "malformed" => ~ WellFormed(Top(p).reply[Top(p).at])
BY DEF Calling, Running, WellFormed

LEMMA MalformedStack ==
    ASSUME StackInv, NEW p \in Strands, Malformed(p)
    PROVE  StackInv'
<1> DEFINE f == Top(p)
           g == [f EXCEPT !.at = @ + 1]
<1>1. /\ stacks[p] # <<>> /\ f.pc = "calling" /\ f.at <= Len(f.reply)
      /\ ~ WellFormed(f.reply[f.at]) /\ Becomes(p, g)
  BY CallingIs DEF Malformed
<1>2. FrameFits(f)
  BY <1>1, TopIsFrame
<1>3. IsFrame(f) /\ f.at \in 1 .. Len(f.reply) /\ Len(f.reply) \in Nat
  BY <1>1, <1>2 DEF FrameFits
<1>4. IsFrame(g)
  BY <1>3, FieldsSet
<1>5. /\ g.agent = f.agent /\ g.pc = "calling" /\ g.reply = f.reply /\ g.at = f.at + 1 /\ g.results = f.results
  BY <1>1, <1>3 DEF IsFrame
<1> HIDE DEF g
<1>6. AnswersCalls(g, g.at - 1)
  <2> DEFINE n == f.at - 1
  <2>1. n \in Nat /\ n + 1 = f.at /\ g.at - 1 = n + 1
    BY <1>3, <1>5
  <2>2. AnswersCalls(f, n)
    BY <1>1, <1>2 DEF FrameFits
  <2> HIDE DEF n
  <2>3. AnswersCalls(g, n + 1)
    BY <1>1, <1>5, <2>1, <2>2, NoneForMalformed
  <2> QED
    BY <2>1, <2>3
<1>7. FrameFits(g)
  BY <1>2, <1>3, <1>4, <1>5, <1>6 DEF FrameFits
<1> QED
  BY <1>1, <1>7, TopMoves DEF g

\* Other tools, and the calls that are refused.
LEMMA RefusedStack ==
    ASSUME StackInv, NEW p \in Strands,
           OtherTool(p) \/ MessageRefused(p) \/ TravelRefused(p)
    PROVE  StackInv'
<1>1. ASSUME NEW tool, tool # "malformed", Calling(p, tool), NEW ok \in BOOLEAN, Results(p, ok)
      PROVE  StackInv'
  BY <1>1, CallingIs, ResultStack
<1>2. CASE OtherTool(p)
  <2> DEFINE f == Top(p)
             g == [f EXCEPT !.pc = "waiting"]
  <2>1. CASE Becomes(p, g)
    <3>1. /\ stacks[p] # <<>> /\ f.pc = "calling" /\ f.at <= Len(f.reply)
          /\ WellFormed(f.reply[f.at])
      BY <1>2, CallingIs DEF OtherTool
    <3>2. FrameFits(f)
      BY <3>1, TopIsFrame
    <3>3. IsFrame(f)
      BY <3>2 DEF FrameFits
    <3>4. IsFrame(g)
      BY <3>3, FieldsSet
    <3>5. /\ g.agent = f.agent /\ g.pc = "waiting" /\ g.reply = f.reply /\ g.at = f.at
          /\ g.results = f.results
      BY <3>3 DEF IsFrame
    <3> HIDE DEF g
    <3>6. FrameFits(g)
      BY <3>1, <3>2, <3>4, <3>5, FrameGoesOn
    <3> QED
      BY <2>1, <3>1, <3>6, TopMoves DEF g
  <2>2. CASE \E ok \in BOOLEAN : Results(p, ok)
    BY <1>1, <1>2, <2>2 DEF OtherTool
  <2> QED
    BY <1>2, <2>1, <2>2 DEF OtherTool
<1>3. ASSUME NEW tool, tool # "malformed", Calling(p, tool), Results(p, FALSE)
      PROVE  StackInv'
  <2>1. FALSE \in BOOLEAN
    OBVIOUS
  <2> QED
    BY <1>1, <1>3, <2>1
<1>4. CASE MessageRefused(p)
  <2>1. Calling(p, "message_agent") /\ Results(p, FALSE)
    BY <1>4 DEF MessageRefused
  <2> QED
    BY <1>3, <2>1
<1>5. CASE TravelRefused(p)
  <2>1. Calling(p, "travel_to_realm") /\ Results(p, FALSE)
    BY <1>5 DEF TravelRefused
  <2> QED
    BY <1>3, <2>1
<1> QED
  BY <1>2, <1>4, <1>5

LEMMA MessageStack ==
    ASSUME StackInv, NEW p \in Strands, MessageSent(p)
    PROVE  StackInv'
<1> DEFINE f == Top(p)
           g == [f EXCEPT !.pc = "messaging"]
           n == Len(stacks[p])
           new == Frame(Target(p))
           t == Append([stacks[p] EXCEPT ![n] = g], new)
           h == [f EXCEPT !.pc = "waiting"]
           u == [stacks[p] EXCEPT ![n] = h]
<1>1. /\ stacks[p] # <<>> /\ f.pc = "calling" /\ f.at <= Len(f.reply)
      /\ WellFormed(f.reply[f.at])
  BY CallingIs DEF MessageSent
<1>2. FrameFits(f) /\ n \in Nat \ {0} /\ DOMAIN stacks[p] = 1 .. n
  BY <1>1, TopIsFrame
<1>3. IsFrame(f) /\ f.reply \in Seq(ToolCall) /\ f.at \in 1 .. Len(f.reply)
  BY <1>1, <1>2 DEF FrameFits
<1>4. IsFrame(g) /\ IsFrame(h)
  BY <1>3, FieldsSet
<1>5. /\ g.agent = f.agent /\ g.pc = "messaging" /\ g.reply = f.reply /\ g.at = f.at /\ g.results = f.results
      /\ h.agent = f.agent /\ h.pc = "waiting" /\ h.reply = f.reply /\ h.at = f.at /\ h.results = f.results
  BY <1>3 DEF IsFrame
<1>6. stacks' = [stacks EXCEPT ![p] = IF n < MaxDepth THEN t ELSE u]
  <2>1. p \in DOMAIN stacks
    BY DEF StackInv
  <2>2. stacks' = [stacks EXCEPT ![p] =
                      IF Len(@) < MaxDepth
                      THEN Append([@ EXCEPT ![Len(@)].pc = "messaging"], Frame(Target(p)))
                      ELSE [@ EXCEPT ![Len(@)].pc = "waiting"]]
    BY DEF MessageSent
  <2>3. /\ [stacks[p] EXCEPT ![n].pc = "messaging"] = [stacks[p] EXCEPT ![n] = g]
        /\ [stacks[p] EXCEPT ![n].pc = "waiting"] = u
    BY DEF Top
  <2> QED
    BY <2>1, <2>2, <2>3
<1> HIDE DEF g, h
<1>7. FrameFits(g) /\ FrameFits(h)
  BY <1>1, <1>2, <1>4, <1>5, FrameGoesOn
<1>8. FrameFits(new)
  <2>1. f.reply[f.at] \in ToolCall /\ f.reply[f.at].tool = "message_agent"
    BY <1>3 DEF MessageSent, Calling
  <2>2. Target(p) \in AgentIds
    BY <2>1 DEF ToolCall, Target
  <2> QED
    BY <2>2, FrameIsNew
<1> HIDE DEF new
<1>9. StackFits(t) /\ StackFits(u)
  BY <1>1, <1>5, <1>7, <1>8, NestedFits, TopFits DEF StackInv
<1> HIDE DEF t, u
<1> QED
  BY <1>6, <1>9, StackMoves

\* What a call waited for has come.
LEMMA WaitStack ==
    ASSUME StackInv, NEW p \in Strands, WaitEnds(p)
    PROVE  StackInv'
<1>1. stacks[p] # <<>> /\ Top(p).pc = "waiting"
  BY DEF WaitEnds, Waits, Running
<1>2. Top(p).at <= Len(Top(p).reply) /\ WellFormed(Top(p).reply[Top(p).at])
  BY <1>1, TopIsFrame DEF FrameFits
<1>3. PICK ok \in BOOLEAN : Results(p, ok)
  BY DEF WaitEnds
<1> QED
  BY <1>1, <1>2, <1>3, ResultStack

LEMMA TravelStack ==
    ASSUME StackInv, NEW p \in Strands, TravelStarts(p)
    PROVE  StackInv'
<1> DEFINE f == Top(p)
           seen == agents[f.agent]
           g == [f EXCEPT !.pc = "travelling", !.seen = seen]
<1>1. /\ stacks[p] # <<>> /\ f.pc = "calling" /\ f.at <= Len(f.reply)
      /\ WellFormed(f.reply[f.at]) /\ Becomes(p, g)
  BY CallingIs DEF TravelStarts
<1>2. FrameFits(f)
  BY <1>1, TopIsFrame
<1>3. IsFrame(f)
  BY <1>2 DEF FrameFits
<1> HIDE DEF seen
<1>4. IsFrame(g)
  <2>1. IsFrame([f EXCEPT !.pc = "travelling"])
    BY <1>3, FieldsSet
  <2>2. g = [[f EXCEPT !.pc = "travelling"] EXCEPT !.seen = seen]
    OBVIOUS
  <2> QED
    BY <2>1, <2>2, FieldsSet
<1>5. /\ g.agent = f.agent /\ g.pc = "travelling" /\ g.reply = f.reply /\ g.at = f.at /\ g.results = f.results
  BY <1>3 DEF IsFrame
<1> HIDE DEF g
<1>6. FrameFits(g)
  BY <1>1, <1>2, <1>4, <1>5, FrameGoesOn
<1> QED
  BY <1>1, <1>6, TopMoves DEF g

LEMMA ArrivesStack ==
    ASSUME StackInv, NEW p \in Strands, Arrives(p)
    PROVE  StackInv'
<1> DEFINE f == Top(p)
           g == [f EXCEPT !.pc = "saving"]
<1>1. stacks[p] # <<>> /\ f.pc = "travelling"
  BY DEF Arrives, Running
<1>2. FrameFits(f)
  BY <1>1, TopIsFrame
<1>3. f.at <= Len(f.reply) /\ WellFormed(f.reply[f.at]) /\ IsFrame(f)
  BY <1>1, <1>2 DEF FrameFits
<1>4. ASSUME NEW ok \in BOOLEAN, Results(p, ok) PROVE StackInv'
  BY <1>1, <1>3, <1>4, ResultStack
<1>5. CASE Becomes(p, g)
  <2>1. IsFrame(g)
    BY <1>3, FieldsSet
  <2>2. /\ g.agent = f.agent /\ g.pc = "saving" /\ g.reply = f.reply /\ g.at = f.at /\ g.results = f.results
    BY <1>3 DEF IsFrame
  <2> HIDE DEF g
  <2>3. FrameFits(g)
    BY <1>1, <1>2, <1>3, <2>1, <2>2, FrameGoesOn
  <2> QED
    BY <1>1, <1>5, <2>3, TopMoves DEF g
<1>6. FALSE \in BOOLEAN /\ (f.agent \in DOMAIN states[SessionOf[p]]) \in BOOLEAN
  OBVIOUS
<1>7. Results(p, FALSE) \/ Results(p, f.agent \in DOMAIN states[SessionOf[p]]) \/ Becomes(p, g)
  BY DEF Arrives
<1> QED
  BY <1>4, <1>5, <1>6, <1>7

LEMMA SavingStack ==
    ASSUME StackInv, NEW p \in Strands, TravelStep(p)
    PROVE  StackInv'
<1>1. stacks[p] # <<>> /\ Top(p).pc = "saving"
  BY DEF TravelStep, Running
<1>2. Top(p).at <= Len(Top(p).reply) /\ WellFormed(Top(p).reply[Top(p).at])
  BY <1>1, TopIsFrame DEF FrameFits
<1>3. CASE UNCHANGED stacks
  BY <1>3 DEF StackInv
<1>4. CASE Results(p, calls[p].answer = "done")
  <2>1. (calls[p].answer = "done") \in BOOLEAN
    OBVIOUS
  <2> QED
    BY <1>1, <1>2, <1>4, <2>1, ResultStack
<1> QED
  BY <1>3, <1>4 DEF TravelStep

LEMMA StackInitial == Init => StackInv
<1> SUFFICES ASSUME Init PROVE StackInv
  OBVIOUS
<1> QED
  BY EmptyFits DEF Init, InitPrompts, StackInv

LEMMA StackSteps == StackInv /\ [Next]_vars => StackInv'
<1> SUFFICES ASSUME StackInv, [Next]_vars PROVE StackInv'
  OBVIOUS
<1>1. CASE UNCHANGED stacks
  BY <1>1 DEF StackInv
<1>2. ASSUME NEW p \in Strands, NEW a \in AgentIds, Prompt(p, a) PROVE StackInv'
  BY <1>2, PromptStack
<1>3. ASSUME NEW p \in Strands, StrandStep(p) \/ WaitEnds(p) PROVE StackInv'
  BY <1>3, WaitStack, AskingStack, RoundStack, MalformedStack, RefusedStack, MessageStack, TravelStack,
     ArrivesStack, SavingStack DEF StrandStep
<1>4. ASSUME NEW c \in Clients, ClientStep(c), UNCHANGED <<sessions, states, strands, stacks>>
      PROVE  StackInv'
  BY <1>1, <1>4
<1>5. ASSUME NEW s \in Sessions, (\E a \in Participants[s] : Joins(s, a)) \/ Lists(s) \/ Cleanup(s) \/ Purged(s)
      PROVE  StackInv'
  BY <1>1, <1>5 DEF Joins, Lists, Cleanup, Purged
<1> QED
  BY <1>1, <1>2, <1>3, <1>4, <1>5 DEF Next, vars

LEMMA StacksAlways == Spec => []StackInv
<1> QED
  BY StackInitial, StackSteps, PTL DEF Spec

\* A model that is asked again is told the outcomes of the calls of its last
\* reply in order, from the first on and each in its place, whatever became of
\* the prompts they nested; of all of them, unless its agent summarises.
THEOREM CallsAreAnswered == Spec => []EveryCallIsAnswered
<1>1. StackInv => EveryCallIsAnswered
  BY StackShape DEF StackInv, EveryCallIsAnswered, FrameFits
<1> QED
  BY <1>1, StacksAlways, PTL

------------------------------------------------------------------------------
(***************************************************************************)
(* Sessions, and where they say their agents are                           *)
(***************************************************************************)

StatesInv == states = [s \in Sessions |-> states[s]]

\* Only these steps touch what sessions say.
LEMMA StatesChange ==
    ASSUME [Next]_vars
    PROVE  \/ UNCHANGED states
           \/ \E s \in Sessions, a \in AgentIds \union UNION {Participants[t] : t \in Sessions} : Joins(s, a)
           \/ \E s \in Sessions : Cleanup(s)
           \/ \E p \in Strands :
                 /\ Running(p, "travelling") /\ SessionOf[p] \in Sessions
                 /\ Top(p).agent \in DOMAIN states[SessionOf[p]]
                 /\ states' = [states EXCEPT ![SessionOf[p]][Top(p).agent] = Target(p)]
<1>1. CASE UNCHANGED vars
  BY <1>1 DEF vars
<1>2. ASSUME NEW c \in Clients, UNCHANGED <<sessions, states, strands, stacks>>
      PROVE  UNCHANGED states
  BY <1>2
<1>3. ASSUME NEW s \in Sessions, NEW a \in Participants[s], Joins(s, a)
      PROVE  \E t \in Sessions, b \in AgentIds \union UNION {Participants[u] : u \in Sessions} : Joins(t, b)
  BY <1>3
<1>4. ASSUME NEW s \in Sessions, Lists(s) \/ Purged(s) PROVE UNCHANGED states
  BY <1>4 DEF Lists, Purged
<1>5. ASSUME NEW p \in Strands, NEW a \in AgentIds, Prompt(p, a) PROVE UNCHANGED states
  BY <1>5 DEF Prompt
<1>6. ASSUME NEW p \in Strands,
             \/ \E reply \in Replies : LLMReplies(p, reply)
             \/ LLMFails(p) \/ RoundEnds(p) \/ Malformed(p) \/ OtherTool(p)
             \/ MessageRefused(p) \/ MessageSent(p) \/ TravelRefused(p) \/ TravelStarts(p) \/ TravelStep(p)
             \/ WaitEnds(p)
      PROVE  UNCHANGED states
  BY <1>6 DEF LLMReplies, LLMFails, RoundEnds, Malformed, OtherTool, MessageRefused, MessageSent,
              TravelRefused, TravelStarts, TravelStep, WaitEnds
<1>7. ASSUME NEW p \in Strands, Arrives(p)
      PROVE  \/ UNCHANGED states
             \/ /\ Running(p, "travelling") /\ SessionOf[p] \in Sessions
                /\ Top(p).agent \in DOMAIN states[SessionOf[p]]
                /\ states' = [states EXCEPT ![SessionOf[p]][Top(p).agent] = Target(p)]
  BY <1>7 DEF Arrives
<1> QED
  BY <1>1, <1>2, <1>3, <1>4, <1>5, <1>6, <1>7 DEF Next, StrandStep

LEMMA StatesAlways == Spec => []StatesInv
<1>1. Init => StatesInv
  BY DEF Init, InitPrompts, StatesInv
<1>2. StatesInv /\ [Next]_vars => StatesInv'
  <2> SUFFICES ASSUME StatesInv, [Next]_vars PROVE StatesInv'
    OBVIOUS
  <2>1. ASSUME NEW s, NEW x, states' = [states EXCEPT ![s] = x] PROVE StatesInv'
    BY <2>1 DEF StatesInv
  <2>2. ASSUME NEW s, NEW a, Joins(s, a) PROVE StatesInv'
    BY <2>1, <2>2 DEF Joins
  <2>3. ASSUME NEW s, Cleanup(s) PROVE StatesInv'
    BY <2>1, <2>3 DEF Cleanup
  <2>4. ASSUME NEW s, NEW a, NEW r, states' = [states EXCEPT ![s][a] = r] PROVE StatesInv'
    <3>1. states' = [states EXCEPT ![s] = [states[s] EXCEPT ![a] = r]]
      BY <2>4
    <3> QED
      BY <2>1, <3>1
  <2>5. CASE UNCHANGED states
    BY <2>5 DEF StatesInv
  <2> QED
    BY <2>2, <2>3, <2>4, <2>5, StatesChange
<1> QED
  BY <1>1, <1>2, PTL DEF Spec

\* What a step makes a listed session say otherwise of an agent it knows is the
\* end of that agent's travel in the session.
LEMMA MovedByTravel ==
    ASSUME StatesInv, [Next]_vars, NEW s \in Sessions, NEW a \in AgentIds,
           InSession(a, s), InSession(a, s)', states'[s][a] # states[s][a]
    PROVE  \E p \in Strands : SessionOf[p] = s /\ Running(p, "travelling") /\ Top(p).agent = a
<1>1. /\ sessions[s] = "listed" /\ a \in DOMAIN states[s] /\ a \in DOMAIN states'[s]
      /\ states = [t \in Sessions |-> states[t]]
  BY DEF InSession, StatesInv
<1>2. ASSUME NEW t \in Sessions, NEW b, Joins(t, b) PROVE FALSE
  <2>1. t # s
    BY <1>1, <1>2 DEF Joins
  <2>2. states'[s] = states[s]
    BY <1>1, <1>2, <2>1 DEF Joins
  <2> QED
    BY <2>2
<1>3. ASSUME NEW t \in Sessions, Cleanup(t) PROVE FALSE
  <2>1. states' = [states EXCEPT ![t] = None]
    BY <1>3 DEF Cleanup
  <2>2. CASE t = s
    BY <1>1, <2>1, <2>2 DEF None
  <2>3. CASE t # s
    BY <1>1, <2>1, <2>3
  <2> QED
    BY <2>2, <2>3
<1>4. ASSUME NEW p \in Strands, Running(p, "travelling"), SessionOf[p] \in Sessions,
             states' = [states EXCEPT ![SessionOf[p]][Top(p).agent] = Target(p)]
      PROVE  SessionOf[p] = s /\ Top(p).agent = a
  <2>1. CASE SessionOf[p] # s
    BY <1>1, <1>4, <2>1
  <2>2. CASE Top(p).agent # a
    BY <1>1, <1>4, <2>2
  <2> QED
    BY <2>1, <2>2
<1> QED
  BY <1>2, <1>3, <1>4, StatesChange

\* An agent that a listed session knows to be somewhere is somewhere else only
\* when it has travelled in that session: not by what requests, prompts of
\* other sessions or travels outside of sessions do to the agents in store.
THEOREM TravelIsOwn == Spec => OwnTravelOnly
<1> DEFINE Own == \A s \in Sessions, a \in AgentIds :
                     /\ InSession(a, s) /\ states[s][a] # Sentinel
                     /\ InSession(a, s)'
                     /\ ResolveCurrentRealm(a, s)' # ResolveCurrentRealm(a, s)
                     => \E p \in Strands :
                           SessionOf[p] = s /\ Running(p, "travelling") /\ Top(p).agent = a
<1>1. StatesInv /\ [Next]_vars => [Own]_vars
  <2> SUFFICES ASSUME StatesInv, [Next]_vars, NEW s \in Sessions, NEW a \in AgentIds,
                      InSession(a, s), states[s][a] # Sentinel, InSession(a, s)',
                      ResolveCurrentRealm(a, s)' # ResolveCurrentRealm(a, s)
               PROVE  \E p \in Strands :
                         SessionOf[p] = s /\ Running(p, "travelling") /\ Top(p).agent = a
    OBVIOUS
  <2>1. ResolveCurrentRealm(a, s) = states[s][a]
    BY DEF ResolveCurrentRealm
  <2>2. states'[s][a] # Sentinel => ResolveCurrentRealm(a, s)' = states'[s][a]
    BY DEF ResolveCurrentRealm
  <2>3. states'[s][a] # states[s][a]
    BY <2>1, <2>2
  <2> QED
    BY <2>3, MovedByTravel
<1> QED
  BY <1>1, StatesAlways, PTL DEF Spec, OwnTravelOnly

------------------------------------------------------------------------------
(***************************************************************************)
(* The store: its invariant                                                *)
(***************************************************************************)

IsAgent(x) == x = [active |-> x.active, realm |-> x.realm, grants |-> x.grants]
IsCall(x) ==
    x = [pc |-> x.pc, agent |-> x.agent, request |-> x.request, new |-> x.new, loaded |-> x.loaded,
         answer |-> x.answer, alone |-> x.alone]

Same(x, y) == x.realm = y.realm /\ x.grants = y.grants

\* What KnownIsStored asks of agent a, of memory and the table.
Match(a, memory, table) ==
    /\ a \in DOMAIN memory <=> a \in DOMAIN table
    /\ a \in DOMAIN memory => Same(memory[a], table[a])

\* A call at work, and what it has read or will write.
CallShape(x) ==
    /\ IsCall(x) /\ x.alone \in BOOLEAN
    /\ x.pc \in {"looking", "normalising", "probing", "updating", "inserting", "creating", "deleting", "loading"}
    /\ x.pc # "loading" => x.agent \in AgentIds
    /\ x.pc = "looking" => x.answer \in {"none", "found", "none such", "failed"}
    /\ x.pc = "looking" /\ x.answer = "found" => IsAgent(x.new)
    /\ x.pc = "normalising" => x.answer = "none"
    /\ x.pc \in {"inserting", "creating", "deleting"} => x.answer \in {"none", "done", "lost", "failed"}
    /\ x.pc \in {"normalising", "probing", "updating", "inserting", "creating"} => IsAgent(x.new)
    /\ x.pc = "loading" /\ x.answer = "done" => \A a \in DOMAIN x.loaded : IsAgent(x.loaded[a])

\* Memory and the table may differ while such a call is at work on an agent.
Busy(x) == x.pc \in {"updating", "inserting", "creating", "deleting", "loading"}

\* The statement has changed the table, whether its answer came or not.
TookEffect(x) == x.answer \in {"done", "lost"}

\* A call that is alone with its agent finds things as it left them.
AloneFits(x, memory, table, distrusted) ==
    LET a == x.agent IN
    /\ x.pc = "looking" =>
          /\ x.answer = "found" => a \in DOMAIN table /\ Same(x.new, table[a])
          /\ x.answer = "none such" /\ ~ Raw(x.request) => a \notin DOMAIN table
    /\ x.pc \in {"probing", "updating", "inserting", "creating"} => a \in DOMAIN memory /\ Same(x.new, memory[a])
    /\ x.pc \in {"updating", "inserting", "creating"} /\ TookEffect(x) =>
          a \in DOMAIN table /\ Same(x.new, table[a])
    /\ x.pc = "creating" /\ ~ TookEffect(x) /\ ~ Raw(x.request) /\ a \notin distrusted =>
          a \notin DOMAIN table
    /\ x.pc = "deleting" /\ TookEffect(x) => a \notin DOMAIN table
    /\ x.pc = "deleting" /\ ~ TookEffect(x) /\ a \notin distrusted => Match(a, memory, table)
    /\ x.pc = "loading" =>
          \A b \in AgentIds :
              /\ b \notin DOMAIN memory
              /\ x.answer = "done" => /\ b \in DOMAIN x.loaded <=> b \in DOMAIN table
                                      /\ b \in DOMAIN table => Same(x.loaded[b], table[b])

StoreShape ==
    /\ \A a \in Known : IsAgent(agents[a])
    /\ \A a \in Stored : IsAgent(rows[a])
    /\ calls = [c \in Callers |-> calls[c]]
    /\ \A c \in Callers : calls[c] = Idle \/ CallShape(calls[c])

\* Two calls in flight on one agent know that they are not alone with it.
Apart ==
    \A c, d \in InFlight :
        c # d /\ Touches(calls[c]) \intersect Touches(calls[d]) # {} => ~ calls[c].alone

Quiet ==
    \A a \in AgentIds :
        a \notin suspect /\ (\A c \in InFlight : Busy(calls[c]) => a \notin Touches(calls[c]))
        => Match(a, agents, rows)

StoreInv ==
    /\ StoreShape /\ Apart /\ Quiet
    /\ \A c \in InFlight : calls[c].alone => AloneFits(calls[c], agents, rows, suspect)

------------------------------------------------------------------------------
(***************************************************************************)
(* The store: what one call's step does to the others                      *)
(***************************************************************************)

\* What memory and the table say of agent a is as it was.
Unmoved(a) ==
    /\ a \in DOMAIN agents' <=> a \in DOMAIN agents
    /\ a \in DOMAIN agents => agents'[a] = agents[a]
    /\ a \in DOMAIN rows' <=> a \in DOMAIN rows
    /\ a \in DOMAIN rows => rows'[a] = rows[a]
    /\ a \in suspect => a \in suspect'

Shaped(memory, table) ==
    (\A a \in DOMAIN memory : IsAgent(memory[a])) /\ (\A a \in DOMAIN table : IsAgent(table[a]))

LEMMA MatchStays ==
    ASSUME NEW a, Unmoved(a), Match(a, agents, rows)
    PROVE  Match(a, agents', rows')
BY DEF Unmoved, Match

\* A call that is alone is not disturbed by what leaves its agents alone.
LEMMA AloneStays ==
    ASSUME NEW x, CallShape(x), AloneFits(x, agents, rows, suspect),
           \A a \in AgentIds : a \in Touches(x) => Unmoved(a)
    PROVE  AloneFits(x, agents', rows', suspect')
<1>1. CASE x.pc = "loading"
  <2>1. \A b \in AgentIds : Unmoved(b)
    BY <1>1 DEF Touches
  <2> QED
    BY <1>1, <2>1 DEF AloneFits, TookEffect, Unmoved
<1>2. CASE x.pc # "loading"
  <2> DEFINE a == x.agent
  <2>1. Unmoved(a)
    BY <1>2 DEF CallShape, Touches
  <2>2. a \notin suspect' => a \notin suspect
    BY <2>1 DEF Unmoved
  <2>3. Match(a, agents, rows) => Match(a, agents', rows')
    BY <2>1, MatchStays
  <2>4. /\ a \in DOMAIN agents => a \in DOMAIN agents' /\ agents'[a] = agents[a]
        /\ a \in DOMAIN rows <=> a \in DOMAIN rows'
        /\ a \in DOMAIN rows => rows'[a] = rows[a]
    BY <2>1 DEF Unmoved
  <2> QED
    BY <1>2, <2>2, <2>3, <2>4 DEF AloneFits, TookEffect
<1> QED
  BY <1>1, <1>2

LEMMA CallFieldSet ==
    ASSUME NEW x, IsCall(x), NEW y
    PROVE  /\ IsCall([x EXCEPT !.pc = y])
           /\ IsCall([x EXCEPT !.new = y])
           /\ IsCall([x EXCEPT !.loaded = y])
           /\ IsCall([x EXCEPT !.answer = y])
           /\ IsCall([x EXCEPT !.alone = y])
<1>1. IsCall([x EXCEPT !.pc = y])
  BY DEF IsCall
<1>2. IsCall([x EXCEPT !.new = y])
  BY DEF IsCall
<1>3. IsCall([x EXCEPT !.loaded = y])
  BY DEF IsCall
<1>4. IsCall([x EXCEPT !.answer = y])
  BY DEF IsCall
<1>5. IsCall([x EXCEPT !.alone = y])
  BY DEF IsCall
<1> QED
  BY <1>1, <1>2, <1>3, <1>4, <1>5

\* A call that is no longer alone is otherwise what it was.
LEMMA Joined ==
    ASSUME NEW x, CallShape(x)
    PROVE  LET y == [x EXCEPT !.alone = FALSE]
           IN  /\ CallShape(y) /\ ~ y.alone /\ Touches(y) = Touches(x)
               /\ y.pc = x.pc /\ (Busy(y) <=> Busy(x))
<1> DEFINE no == FALSE
           y == [x EXCEPT !.alone = no]
<1>1. IsCall(x)
  BY DEF CallShape
<1>2. no \in BOOLEAN /\ ~ no
  OBVIOUS
<1>3. IsCall(y)
  BY <1>1, CallFieldSet
<1>4. /\ y.pc = x.pc /\ y.agent = x.agent /\ y.new = x.new /\ y.loaded = x.loaded
      /\ y.answer = x.answer /\ y.alone = no
  BY <1>1 DEF IsCall
<1> HIDE DEF y
<1>5. Touches(y) = Touches(x) /\ (Busy(y) <=> Busy(x))
  BY <1>4 DEF Touches, Busy
<1>6. y.alone \in BOOLEAN /\ ~ y.alone
  BY <1>2, <1>4
<1>7. CallShape(y)
  BY <1>3, <1>4, <1>6 DEF CallShape
<1> QED
  BY <1>4, <1>5, <1>6, <1>7 DEF y

LEMMA InFlightShape ==
    ASSUME StoreInv, NEW c \in InFlight
    PROVE  c \in Callers /\ CallShape(calls[c]) /\ calls[c] # Idle /\ calls[c].pc # "idle"
BY DEF StoreInv, StoreShape, InFlight, Idle

\* One call, d, becomes y, and those in others learn that they are not alone.
\* Where memory, the table or what is distrusted change, the call is at work;
\* and where they differ afterwards it still is.
LEMMA CallMoves ==
    ASSUME StoreInv, NEW d \in Callers, NEW y, NEW others,
           calls' = [c \in Callers |->
                        IF c = d THEN y
                        ELSE IF c \in others THEN [calls[c] EXCEPT !.alone = FALSE]
                        ELSE calls[c]],
           others \subseteq InFlight,
           y = Idle \/ CallShape(y),
           y # Idle => \A c \in InFlight \ {d} :
              Touches(y) \intersect Touches(calls[c]) # {} => ~ y.alone /\ (c \in others \/ ~ calls[c].alone),
           Shaped(agents', rows'),
           \A a \in AgentIds :
              \/ Unmoved(a)
              \/ d \in InFlight /\ a \in Touches(calls[d])
              \/ y # Idle /\ a \in Touches(y),
           \A a \in AgentIds :
              \/ a \in suspect' \/ Match(a, agents', rows')
              \/ y # Idle /\ Busy(y) /\ a \in Touches(y)
              \/ Unmoved(a) /\ ~ (d \in InFlight /\ Busy(calls[d]) /\ a \in Touches(calls[d])),
           y # Idle /\ y.alone => AloneFits(y, agents', rows', suspect')
    PROVE  StoreInv'
<1>1. /\ calls'[d] = y
      /\ \A c \in Callers \ {d} :
            calls'[c] = IF c \in others THEN [calls[c] EXCEPT !.alone = FALSE] ELSE calls[c]
  OBVIOUS
<1>2. ASSUME NEW c \in Callers \ {d}, c \in InFlight
      PROVE  /\ CallShape(calls'[c]) /\ calls'[c].pc = calls[c].pc /\ calls'[c].pc # "idle"
             /\ Touches(calls'[c]) = Touches(calls[c]) /\ (Busy(calls'[c]) <=> Busy(calls[c]))
             /\ calls'[c].alone => calls[c].alone /\ calls'[c] = calls[c] /\ c \notin others
  <2>1. CallShape(calls[c]) /\ calls[c].pc # "idle"
    BY <1>2, InFlightShape
  <2>2. CASE c \in others
    <3> DEFINE z == [calls[c] EXCEPT !.alone = FALSE]
    <3>1. /\ CallShape(z) /\ ~ z.alone /\ Touches(z) = Touches(calls[c])
          /\ z.pc = calls[c].pc /\ (Busy(z) <=> Busy(calls[c]))
      BY <2>1, Joined
    <3>2. calls'[c] = z
      BY <1>1, <2>2
    <3> HIDE DEF z
    <3> QED
      BY <2>1, <3>1, <3>2
  <2>3. CASE c \notin others
    BY <1>1, <2>1, <2>3
  <2> QED
    BY <2>2, <2>3
<1>3. ASSUME NEW c \in Callers \ {d}, c \notin InFlight
      PROVE  calls'[c] = Idle /\ calls'[c].pc = "idle"
  <2>1. calls[c] = Idle
    BY <1>3 DEF StoreInv, StoreShape, InFlight, CallShape
  <2>2. c \notin others
    BY <1>3
  <2> QED
    BY <1>1, <2>1, <2>2 DEF Idle
<1>4. \A c \in Callers \ {d} : c \in InFlight' <=> c \in InFlight
  BY <1>2, <1>3 DEF InFlight
<1>5. y # Idle => y.pc # "idle" /\ CallShape(y)
  BY DEF CallShape
<1>6. d \in InFlight' <=> y # Idle
  BY <1>1, <1>5 DEF InFlight, Idle
<1>7. StoreShape'
  <2>1. \A c \in Callers : calls'[c] = Idle \/ CallShape(calls'[c])
    BY <1>1, <1>2, <1>3
  <2>2. calls' = [c \in Callers |-> calls'[c]]
    OBVIOUS
  <2> QED
    BY <2>1, <2>2 DEF StoreShape, Shaped, Known, Stored
<1>8. Apart'
  <2> SUFFICES ASSUME NEW c \in InFlight', NEW e \in InFlight', c # e,
                      Touches(calls'[c]) \intersect Touches(calls'[e]) # {}
               PROVE  ~ calls'[c].alone
    BY DEF Apart
  <2>1. c \in Callers /\ e \in Callers
    BY DEF InFlight
  <2>2. CASE c # d /\ e # d
    <3>1. c \in InFlight /\ e \in InFlight
      BY <1>4, <2>1, <2>2
    <3>2. ~ calls[c].alone
      BY <1>2, <2>1, <2>2, <3>1 DEF StoreInv, Apart
    <3> QED
      BY <1>2, <2>1, <2>2, <3>1, <3>2
  <2>3. CASE c = d
    <3>1. e \in InFlight \ {d} /\ y # Idle
      BY <1>4, <1>6, <2>1, <2>3
    <3>2. Touches(y) \intersect Touches(calls[e]) # {}
      BY <1>1, <1>2, <2>1, <2>3, <3>1
    <3> QED
      BY <1>1, <2>3, <3>1, <3>2
  <2>4. CASE e = d
    <3>1. c \in InFlight \ {d} /\ y # Idle
      BY <1>4, <1>6, <2>1, <2>4
    <3>2. Touches(y) \intersect Touches(calls[c]) # {}
      BY <1>1, <1>2, <2>1, <2>4, <3>1
    <3>3. c \in others \/ ~ calls[c].alone
      BY <3>1, <3>2
    <3> QED
      BY <1>2, <2>1, <3>1, <3>3
  <2> QED
    BY <2>2, <2>3, <2>4
<1>9. Quiet'
  <2> SUFFICES ASSUME NEW a \in AgentIds, a \notin suspect',
                      \A c \in InFlight' : Busy(calls'[c]) => a \notin Touches(calls'[c])
               PROVE  Match(a, agents', rows')
    BY DEF Quiet
  <2>1. ~ (y # Idle /\ Busy(y) /\ a \in Touches(y))
    BY <1>1, <1>6
  <2>2. CASE Unmoved(a) /\ ~ (d \in InFlight /\ Busy(calls[d]) /\ a \in Touches(calls[d]))
    <3>1. a \notin suspect
      BY <2>2 DEF Unmoved
    <3>2. ASSUME NEW c \in InFlight, Busy(calls[c]) PROVE a \notin Touches(calls[c])
      <4>1. CASE c = d
        BY <2>2, <3>2, <4>1
      <4>2. CASE c # d
        <5>1. c \in Callers \ {d}
          BY <4>2, <3>2 DEF InFlight
        <5>2. c \in InFlight'
          BY <1>4, <3>2, <5>1
        <5> QED
          BY <1>2, <3>2, <5>1, <5>2
      <4> QED
        BY <4>1, <4>2
    <3>3. Match(a, agents, rows)
      BY <3>1, <3>2 DEF StoreInv, Quiet
    <3> QED
      BY <2>2, <3>3, MatchStays
  <2> QED
    BY <2>1, <2>2
<1>10. ASSUME NEW c \in InFlight', calls'[c].alone
       PROVE  AloneFits(calls'[c], agents', rows', suspect')
  <2>1. c \in Callers
    BY DEF InFlight
  <2>2. CASE c = d
    BY <1>1, <1>6, <1>10, <2>2
  <2>3. CASE c # d
    <3>1. c \in InFlight /\ c \in Callers \ {d}
      BY <1>4, <2>1, <2>3
    <3>2. calls[c].alone /\ calls'[c] = calls[c] /\ c \notin others
      BY <1>2, <1>10, <3>1
    <3>3. AloneFits(calls[c], agents, rows, suspect) /\ CallShape(calls[c])
      BY <3>1, <3>2, InFlightShape DEF StoreInv
    <3>4. ASSUME NEW a \in AgentIds, a \in Touches(calls[c]) PROVE Unmoved(a)
      <4>1. CASE d \in InFlight /\ a \in Touches(calls[d])
        BY <2>3, <3>1, <3>2, <3>4, <4>1 DEF StoreInv, Apart
      <4>2. CASE y # Idle /\ a \in Touches(y)
        BY <3>1, <3>2, <3>4, <4>2
      <4> QED
        BY <4>1, <4>2
    <3> QED
      BY <3>2, <3>3, <3>4, AloneStays
  <2> QED
    BY <2>2, <2>3
<1> QED
  BY <1>7, <1>8, <1>9, <1>10 DEF StoreInv

\* A call starts, or goes on to await something else.
LEMMA CallGoesOn ==
    ASSUME StoreInv, NEW d \in Callers, NEW x, GoesOn(d, x), CallShape(x),
           Shaped(agents', rows'),
           \A a \in AgentIds :
              \/ Unmoved(a)
              \/ d \in InFlight /\ a \in Touches(calls[d])
              \/ a \in Touches(x),
           \A a \in AgentIds :
              \/ a \in suspect' \/ Match(a, agents', rows')
              \/ Busy(x) /\ a \in Touches(x)
              \/ Unmoved(a) /\ ~ (d \in InFlight /\ Busy(calls[d]) /\ a \in Touches(calls[d])),
           x.alone /\ (\A c \in InFlight \ {d} : Touches(x) \intersect Touches(calls[c]) = {})
              => AloneFits(x, agents', rows', suspect')
    PROVE  StoreInv'
<1> DEFINE others == {c \in InFlight \ {d} : Touches(x) \intersect Touches(calls[c]) # {}}
           alone == x.alone /\ others = {}
           y == [x EXCEPT !.alone = alone]
<1>1. IsCall(x) /\ x.alone \in BOOLEAN
  BY DEF CallShape
<1>2. /\ y.pc = x.pc /\ y.agent = x.agent /\ y.new = x.new /\ y.loaded = x.loaded
      /\ y.answer = x.answer /\ y.alone = alone /\ y.request = x.request
  <2> HIDE DEF alone
  <2> QED
    BY <1>1 DEF IsCall
<1>3. calls' = [c \in Callers |->
                   IF c = d THEN y
                   ELSE IF c \in others THEN [calls[c] EXCEPT !.alone = FALSE]
                   ELSE calls[c]]
  BY DEF GoesOn
<1>4. IsCall(y)
  <2> HIDE DEF alone
  <2> QED
    BY <1>1, CallFieldSet
<1>5. alone \in BOOLEAN
  OBVIOUS
<1>6. alone <=> x.alone /\ \A c \in InFlight \ {d} : Touches(x) \intersect Touches(calls[c]) = {}
  OBVIOUS
<1>7. \A c \in InFlight \ {d} : c \in others <=> Touches(x) \intersect Touches(calls[c]) # {}
  OBVIOUS
<1>8. others \subseteq InFlight
  OBVIOUS
<1> HIDE DEF y, alone, others
<1>9. CallShape(y)
  BY <1>2, <1>4, <1>5 DEF CallShape
<1>10. Touches(y) = Touches(x) /\ (Busy(y) <=> Busy(x))
  BY <1>2 DEF Touches, Busy
<1>11. y.alone => AloneFits(y, agents', rows', suspect')
  <2> SUFFICES ASSUME y.alone PROVE AloneFits(y, agents', rows', suspect')
    OBVIOUS
  <2>1. AloneFits(x, agents', rows', suspect')
    BY <1>2, <1>6
  <2> QED
    BY <1>2, <2>1 DEF AloneFits, TookEffect
<1>12. y # Idle
  <2>1. y.pc # "idle"
    BY <1>9 DEF CallShape
  <2> QED
    BY <2>1 DEF Idle
<1>13. \A c \in InFlight \ {d} :
          Touches(y) \intersect Touches(calls[c]) # {} => ~ y.alone /\ (c \in others \/ ~ calls[c].alone)
  BY <1>2, <1>6, <1>7, <1>10
<1> QED
  BY <1>3, <1>8, <1>9, <1>10, <1>11, <1>12, <1>13, CallMoves

\* A call ends.
LEMMA CallEnds ==
    ASSUME StoreInv, NEW d \in Callers, calls' = [calls EXCEPT ![d] = Idle],
           Shaped(agents', rows'),
           \A a \in AgentIds : Unmoved(a) \/ (d \in InFlight /\ a \in Touches(calls[d])),
           \A a \in AgentIds :
              \/ a \in suspect' \/ Match(a, agents', rows')
              \/ Unmoved(a) /\ ~ (d \in InFlight /\ Busy(calls[d]) /\ a \in Touches(calls[d]))
    PROVE  StoreInv'
<1> DEFINE others == {}
<1>1. calls = [c \in Callers |-> calls[c]]
  BY DEF StoreInv, StoreShape
<1>2. calls' = [c \in Callers |->
                   IF c = d THEN Idle
                   ELSE IF c \in others THEN [calls[c] EXCEPT !.alone = FALSE]
                   ELSE calls[c]]
  BY <1>1
<1>3. others \subseteq InFlight
  OBVIOUS
<1> HIDE DEF others
<1>4. \A a \in AgentIds :
         Unmoved(a) \/ (d \in InFlight /\ a \in Touches(calls[d])) \/ (Idle # Idle /\ a \in Touches(Idle))
  OBVIOUS
<1>5. \A a \in AgentIds :
         \/ a \in suspect' \/ Match(a, agents', rows')
         \/ Idle # Idle /\ Busy(Idle) /\ a \in Touches(Idle)
         \/ Unmoved(a) /\ ~ (d \in InFlight /\ Busy(calls[d]) /\ a \in Touches(calls[d]))
  OBVIOUS
<1> QED
  BY <1>2, <1>3, <1>4, <1>5, CallMoves

\* What a call awaits has happened.
LEMMA CallAnswered ==
    ASSUME StoreInv, NEW d \in InFlight, NEW y, calls' = [calls EXCEPT ![d] = y],
           CallShape(y), y.pc = calls[d].pc, y.agent = calls[d].agent, y.alone = calls[d].alone,
           Shaped(agents', rows'),
           \A a \in AgentIds : Unmoved(a) \/ (Busy(calls[d]) /\ a \in Touches(calls[d])),
           y.alone => AloneFits(y, agents', rows', suspect')
    PROVE  StoreInv'
<1> DEFINE others == {}
<1>1. calls = [c \in Callers |-> calls[c]] /\ d \in Callers
  BY DEF StoreInv, StoreShape, InFlight
<1>2. calls' = [c \in Callers |->
                   IF c = d THEN y
                   ELSE IF c \in others THEN [calls[c] EXCEPT !.alone = FALSE]
                   ELSE calls[c]]
  BY <1>1
<1>3. others \subseteq InFlight
  OBVIOUS
<1>4. Touches(y) = Touches(calls[d]) /\ (Busy(y) <=> Busy(calls[d]))
  BY DEF Touches, Busy
<1>5. y # Idle
  <2>1. y.pc # "idle"
    BY DEF CallShape
  <2> QED
    BY <2>1 DEF Idle
<1>6. \A c \in InFlight \ {d} :
          Touches(y) \intersect Touches(calls[c]) # {} => ~ y.alone /\ (c \in others \/ ~ calls[c].alone)
  BY <1>4 DEF StoreInv, Apart
<1> HIDE DEF others
<1>7. \A a \in AgentIds :
         Unmoved(a) \/ (d \in InFlight /\ a \in Touches(calls[d])) \/ (y # Idle /\ a \in Touches(y))
  OBVIOUS
<1>8. \A a \in AgentIds :
         \/ a \in suspect' \/ Match(a, agents', rows')
         \/ y # Idle /\ Busy(y) /\ a \in Touches(y)
         \/ Unmoved(a) /\ ~ (d \in InFlight /\ Busy(calls[d]) /\ a \in Touches(calls[d]))
  BY <1>4, <1>5
<1> QED
  BY <1>1, <1>2, <1>3, <1>5, <1>6, <1>7, <1>8, CallMoves

------------------------------------------------------------------------------
(***************************************************************************)
(* The store: the steps of a call                                          *)
(***************************************************************************)

LEMMA PutIs ==
    ASSUME NEW f, NEW k, NEW v
    PROVE  /\ DOMAIN Put(f, k, v) = DOMAIN f \union {k}
           /\ Put(f, k, v)[k] = v
           /\ \A j \in DOMAIN f \ {k} : Put(f, k, v)[j] = f[j]
BY DEF Put

LEMMA WithoutIs ==
    ASSUME NEW f, NEW k
    PROVE  /\ DOMAIN Without(f, {k}) = DOMAIN f \ {k}
           /\ \A j \in DOMAIN f \ {k} : Without(f, {k})[j] = f[j]
BY DEF Without

LEMMA AgentFieldSet ==
    ASSUME NEW agent, IsAgent(agent), NEW v
    PROVE  /\ IsAgent([agent EXCEPT !.active = v]) /\ Same([agent EXCEPT !.active = v], agent)
           /\ IsAgent([agent EXCEPT !.realm = v])
           /\ IsAgent([agent EXCEPT !.grants = v])
<1>1. IsAgent([agent EXCEPT !.active = v]) /\ Same([agent EXCEPT !.active = v], agent)
  BY DEF IsAgent, Same
<1>2. IsAgent([agent EXCEPT !.realm = v])
  BY DEF IsAgent
<1>3. IsAgent([agent EXCEPT !.grants = v])
  BY DEF IsAgent
<1> QED
  BY <1>1, <1>2, <1>3

LEMMA UpdatedIsAgent ==
    ASSUME NEW agent, IsAgent(agent), NEW r
    PROVE  IsAgent(Updated(agent, r))
<1>1. CASE r.op = "access"
  <2> DEFINE moved == [agent EXCEPT !.realm = r.realm]
  <2>1. IsAgent(moved)
    BY AgentFieldSet
  <2>2. IsAgent([moved EXCEPT !.grants = r.grants])
    <3> HIDE DEF moved
    <3> QED
      BY <2>1, AgentFieldSet
  <2>3. Updated(agent, r) = [moved EXCEPT !.grants = r.grants]
    BY <1>1 DEF Updated, IsAgent
  <2> QED
    BY <2>2, <2>3
<1>2. CASE r.op = "status"
  <2>1. Updated(agent, r) = [agent EXCEPT !.active = r.active]
    BY <1>2 DEF Updated
  <2>2. IsAgent([agent EXCEPT !.active = r.active])
    BY AgentFieldSet
  <2> QED
    BY <2>1, <2>2
<1>3. CASE r.op = "travel"
  <2>1. Updated(agent, r) = [agent EXCEPT !.realm = r.realm]
    BY <1>3 DEF Updated
  <2>2. IsAgent([agent EXCEPT !.realm = r.realm])
    BY AgentFieldSet
  <2> QED
    BY <2>1, <2>2
<1>4. CASE r.op \notin {"access", "status", "travel"}
  BY <1>4 DEF Updated
<1> QED
  BY <1>1, <1>2, <1>3, <1>4

\* A call that goes on to await something keeps its agent and its request.
Awaiting(x, pc, new) == [x EXCEPT !.pc = pc, !.new = new, !.answer = "none"]

LEMMA AwaitingIs ==
    ASSUME NEW x, IsCall(x), NEW pc, NEW new
    PROVE  /\ IsCall(Awaiting(x, pc, new))
           /\ Awaiting(x, pc, new).pc = pc /\ Awaiting(x, pc, new).new = new
           /\ Awaiting(x, pc, new).answer = "none"
           /\ Awaiting(x, pc, new).agent = x.agent /\ Awaiting(x, pc, new).alone = x.alone
           /\ Awaiting(x, pc, new).request = x.request
<1> DEFINE none == "none"
           y1 == [x EXCEPT !.pc = pc]
           y2 == [y1 EXCEPT !.new = new]
           y3 == [y2 EXCEPT !.answer = none]
<1>1. IsCall(y1) /\ y1.pc = pc /\ y1.agent = x.agent /\ y1.alone = x.alone /\ y1.request = x.request
  <2>1. IsCall(y1)
    BY CallFieldSet
  <2> QED
    BY <2>1 DEF IsCall
<1>2. Awaiting(x, pc, new) = y3
  BY DEF Awaiting
<1> HIDE DEF y1
<1>3. /\ IsCall(y2) /\ y2.pc = pc /\ y2.agent = x.agent /\ y2.alone = x.alone /\ y2.new = new
      /\ y2.request = x.request
  <2>1. IsCall(y2)
    BY <1>1, CallFieldSet
  <2> QED
    BY <1>1, <2>1 DEF IsCall
<1> HIDE DEF y2
<1>4. /\ IsCall(y3) /\ y3.pc = pc /\ y3.agent = x.agent /\ y3.alone = x.alone /\ y3.new = new
      /\ y3.answer = none /\ y3.request = x.request
  <2> HIDE DEF none
  <2>1. IsCall(y3)
    BY <1>3, CallFieldSet
  <2> QED
    BY <1>3, <2>1 DEF IsCall
<1> HIDE DEF y3
<1> QED
  BY <1>2, <1>4

\* The agent has been read, and is what the table holds unless it is distrusted
\* or others are at work on it.
LEMMA ProceedsKeeps ==
    ASSUME StoreInv, NEW d \in Callers, NEW x, NEW known, NEW harmed,
           Proceeds(d, x, known, harmed), rows' = rows,
           IsCall(x), x.agent \in AgentIds, x.alone \in BOOLEAN,
           x.agent \in DOMAIN known, \A a \in DOMAIN known : IsAgent(known[a]),
           \A a \in AgentIds \ {x.agent} :
              /\ a \in DOMAIN known <=> a \in DOMAIN agents
              /\ a \in DOMAIN agents => known[a] = agents[a],
           \/ d \notin InFlight /\ known = agents
           \/ /\ d \in InFlight /\ x.agent \in Touches(calls[d]) /\ ~ Busy(calls[d])
              /\ x.agent \in harmed \/ Match(x.agent, known, rows),
           x.alone /\ (\A c \in InFlight \ {d} : x.agent \notin Touches(calls[c]))
              => x.agent \in suspect \/ Match(x.agent, known, rows)
    PROVE  StoreInv'
<1> DEFINE a == x.agent
           r == x.request
           waits(pc, new) == GoesOn(d, Awaiting(x, pc, new)) /\ suspect' = suspect \union harmed
           stopped == Put(known, a, [known[a] EXCEPT !.active = FALSE])
<1>1. Shaped(known, rows)
  BY DEF Shaped, StoreInv, StoreShape, Stored
<1>2. ASSUME agents' = known, suspect' = suspect \union harmed
      PROVE  /\ Shaped(agents', rows')
             /\ \A b \in AgentIds : Unmoved(b) \/ (d \in InFlight /\ b \in Touches(calls[d]))
             /\ \A b \in AgentIds :
                   \/ b \in suspect' \/ Match(b, agents', rows')
                   \/ Unmoved(b) /\ ~ (d \in InFlight /\ Busy(calls[d]) /\ b \in Touches(calls[d]))
  <2>1. \A b \in AgentIds \ {a} : Unmoved(b)
    BY <1>2 DEF Unmoved
  <2>2. d \notin InFlight => Unmoved(a)
    BY <1>2 DEF Unmoved
  <2>3. d \in InFlight => /\ a \in Touches(calls[d]) /\ ~ Busy(calls[d])
                          /\ a \in suspect' \/ Match(a, agents', rows')
    BY <1>2
  <2>4. Shaped(agents', rows')
    BY <1>1, <1>2
  <2>5. ASSUME NEW b \in AgentIds
        PROVE  /\ Unmoved(b) \/ (d \in InFlight /\ b \in Touches(calls[d]))
               /\ \/ b \in suspect' \/ Match(b, agents', rows')
                  \/ Unmoved(b) /\ ~ (d \in InFlight /\ Busy(calls[d]) /\ b \in Touches(calls[d]))
    <3>1. CASE b = a
      BY <2>2, <2>3, <3>1
    <3>2. CASE b # a
      <4>1. d \in InFlight => ~ Busy(calls[d])
        OBVIOUS
      <4> QED
        BY <2>1, <3>2, <4>1
    <3> QED
      BY <3>1, <3>2
  <2> QED
    BY <2>4, <2>5
<1>3. CASE Ends(d, harmed) /\ agents' = known
  <2>1. calls' = [calls EXCEPT ![d] = Idle] /\ suspect' = suspect \union harmed
    BY <1>3 DEF Ends
  <2> QED
    BY <1>2, <1>3, <2>1, CallEnds
<1>4. ASSUME NEW pc \in {"normalising", "probing"}, NEW new, IsAgent(new),
             pc = "probing" => Same(new, known[a]),
             waits(pc, new), agents' = known
      PROVE  StoreInv'
  <2> DEFINE z == Awaiting(x, pc, new)
  <2>1. IsCall(z) /\ z.pc = pc /\ z.new = new /\ z.answer = "none" /\ z.agent = a /\ z.alone = x.alone
    BY AwaitingIs
  <2>2. GoesOn(d, z) /\ suspect' = suspect \union harmed
    BY <1>4
  <2> HIDE DEF z
  <2>3. CallShape(z)
    BY <1>4, <2>1 DEF CallShape
  <2>4. AloneFits(z, agents', rows', suspect')
    BY <1>4, <2>1 DEF AloneFits, TookEffect
  <2> QED
    BY <1>2, <1>4, <2>2, <2>3, <2>4, CallGoesOn
<1>5. CASE waits("deleting", Idle) /\ agents' = stopped
  <2> DEFINE z == Awaiting(x, "deleting", Idle)
             off == FALSE
             halted == [known[a] EXCEPT !.active = off]
  <2>1. /\ IsCall(z) /\ z.pc = "deleting" /\ z.new = Idle /\ z.answer = "none" /\ z.agent = a
        /\ z.alone = x.alone
    BY AwaitingIs
  <2>2. GoesOn(d, z) /\ suspect' = suspect \union harmed
    BY <1>5
  <2>3. IsAgent(halted) /\ Same(halted, known[a])
    <3> HIDE DEF off
    <3> QED
      BY AgentFieldSet
  <2>4. agents' = Put(known, a, halted)
    BY <1>5
  <2> HIDE DEF z, halted
  <2>5. /\ DOMAIN agents' = DOMAIN known /\ agents'[a] = halted
        /\ \A b \in DOMAIN known \ {a} : agents'[b] = known[b]
    <3>1. /\ DOMAIN Put(known, a, halted) = DOMAIN known \union {a}
          /\ Put(known, a, halted)[a] = halted
          /\ \A b \in DOMAIN known \ {a} : Put(known, a, halted)[b] = known[b]
      BY DEF Put
    <3> QED
      BY <2>4, <3>1
  <2>6. CallShape(z)
    BY <2>1 DEF CallShape
  <2>7. Touches(z) = {a} /\ Busy(z)
    BY <2>1 DEF Touches, Busy
  <2>8. \A b \in AgentIds \ {a} : Unmoved(b)
    BY <2>2, <2>5 DEF Unmoved
  <2>9. Shaped(agents', rows')
    BY <1>1, <2>3, <2>5 DEF Shaped
  <2>10. Match(a, known, rows) => Match(a, agents', rows')
    BY <2>3, <2>5 DEF Match, Same
  <2>11. z.alone /\ (\A c \in InFlight \ {d} : Touches(z) \intersect Touches(calls[c]) = {})
            => AloneFits(z, agents', rows', suspect')
    <3> SUFFICES ASSUME z.alone, \A c \in InFlight \ {d} : Touches(z) \intersect Touches(calls[c]) = {}
                 PROVE  AloneFits(z, agents', rows', suspect')
      OBVIOUS
    <3>1. a \in suspect \/ Match(a, known, rows)
      BY <2>1, <2>7
    <3>2. a \in suspect' \/ Match(a, agents', rows')
      BY <2>2, <2>10, <3>1
    <3> QED
      BY <2>1, <3>2 DEF AloneFits, TookEffect
  <2>12. \A b \in AgentIds :
            \/ Unmoved(b)
            \/ d \in InFlight /\ b \in Touches(calls[d])
            \/ b \in Touches(z)
    BY <2>7, <2>8
  <2>13. \A b \in AgentIds :
            \/ b \in suspect' \/ Match(b, agents', rows')
            \/ Busy(z) /\ b \in Touches(z)
            \/ Unmoved(b) /\ ~ (d \in InFlight /\ Busy(calls[d]) /\ b \in Touches(calls[d]))
    BY <2>7, <2>8
  <2> QED
    BY <2>2, <2>6, <2>9, <2>11, <2>12, <2>13, CallGoesOn
<1>6. \/ Ends(d, harmed) /\ agents' = known
      \/ waits("normalising", Updated(known[a], r)) /\ agents' = known
      \/ waits("probing", [known[a] EXCEPT !.active = TRUE]) /\ agents' = known
      \/ waits("deleting", Idle) /\ agents' = stopped
  BY DEF Proceeds, Awaiting
<1>7. CASE waits("normalising", Updated(known[a], r)) /\ agents' = known
  <2>1. IsAgent(Updated(known[a], r))
    BY UpdatedIsAgent
  <2> QED
    BY <1>4, <1>7, <2>1
<1>8. CASE waits("probing", [known[a] EXCEPT !.active = TRUE]) /\ agents' = known
  <2> DEFINE on == TRUE
             started == [known[a] EXCEPT !.active = on]
  <2>1. IsAgent(started) /\ Same(started, known[a])
    <3> HIDE DEF on
    <3> QED
      BY AgentFieldSet
  <2>2. waits("probing", started)
    BY <1>8
  <2> HIDE DEF started, waits
  <2> QED
    BY <1>4, <1>8, <2>1, <2>2
<1> QED
  BY <1>3, <1>5, <1>6, <1>7, <1>8

\* getAgent: memory first, then the table.
LEMMA AsksKeeps ==
    ASSUME StoreInv, NEW d \in Callers, NEW r, NEW a \in AgentIds, Asks(d, r, a)
    PROVE  StoreInv'
<1> DEFINE x == Call(r, a)
           looking == "looking"
           y == [x EXCEPT !.pc = looking]
<1>1. d \notin InFlight /\ rows' = rows
  BY DEF Asks
<1>2. IsCall(x) /\ x.agent = a /\ x.alone /\ x.alone \in BOOLEAN /\ x.answer = "none"
  BY DEF IsCall, Call
<1> HIDE DEF x
<1>3. CASE a \in Known /\ ~ Raw(r)
  <2>1. Proceeds(d, x, agents, {})
    BY <1>3 DEF Asks, x
  <2>2. \A b \in DOMAIN agents : IsAgent(agents[b])
    BY DEF StoreInv, StoreShape, Known
  <2>3. (\A c \in InFlight \ {d} : a \notin Touches(calls[c])) => a \in suspect \/ Match(a, agents, rows)
    BY <1>1 DEF StoreInv, Quiet
  <2>4. a \in DOMAIN agents
    BY <1>3 DEF Known
  <2> QED
    BY <1>1, <1>2, <2>1, <2>2, <2>3, <2>4, ProceedsKeeps
<1>4. CASE ~ (a \in Known /\ ~ Raw(r))
  <2>1. GoesOn(d, y) /\ agents' = agents /\ suspect' = suspect
    BY <1>4 DEF Asks, x
  <2>2. IsCall(y) /\ y.pc = looking /\ y.agent = a /\ y.alone /\ y.alone \in BOOLEAN /\ y.answer = "none"
    <3> HIDE DEF looking
    <3>1. IsCall(y)
      BY <1>2, CallFieldSet
    <3> QED
      BY <1>2, <3>1 DEF IsCall
  <2> HIDE DEF y
  <2>3. CallShape(y)
    BY <2>2 DEF CallShape
  <2>4. AloneFits(y, agents', rows', suspect')
    BY <2>2 DEF AloneFits, TookEffect
  <2>5. \A b \in AgentIds : Unmoved(b)
    BY <1>1, <2>1 DEF Unmoved
  <2>6. Shaped(agents', rows')
    BY <1>1, <2>1 DEF Shaped, StoreInv, StoreShape, Known, Stored
  <2> QED
    BY <1>1, <2>1, <2>3, <2>4, <2>5, <2>6, CallGoesOn
<1> QED
  BY <1>3, <1>4

\* The call at hand, with its answer.
WithAnswer(x, answer) == [x EXCEPT !.answer = answer]

LEMMA WithAnswerIs ==
    ASSUME NEW x, IsCall(x), NEW answer
    PROVE  /\ IsCall(WithAnswer(x, answer))
           /\ WithAnswer(x, answer).pc = x.pc /\ WithAnswer(x, answer).agent = x.agent
           /\ WithAnswer(x, answer).new = x.new /\ WithAnswer(x, answer).loaded = x.loaded
           /\ WithAnswer(x, answer).alone = x.alone /\ WithAnswer(x, answer).answer = answer
           /\ WithAnswer(x, answer).request = x.request
<1>1. IsCall([x EXCEPT !.answer = answer])
  BY CallFieldSet
<1> QED
  BY <1>1 DEF IsCall, WithAnswer

\* The table has changed for this agent alone, or not at all.
LEMMA AnswersKeeps ==
    ASSUME StoreInv, NEW d \in InFlight, NEW answer, Answers(d, answer),
           calls[d].pc = "looking" => answer \in {"none such", "failed"},
           calls[d].pc = "loading" => answer # "done",
           calls[d].pc \in {"inserting", "creating", "deleting"} => answer \in {"done", "lost", "failed"},
           calls[d].pc # "normalising",
           Shaped(agents', rows'),
           \A a \in AgentIds : Unmoved(a) \/ (Busy(calls[d]) /\ a \in Touches(calls[d])),
           calls[d].alone => AloneFits(WithAnswer(calls[d], answer), agents', rows', suspect')
    PROVE  StoreInv'
<1> DEFINE x == calls[d]
           y == WithAnswer(x, answer)
<1>1. CallShape(x) /\ IsCall(x) /\ d \in Callers
  BY InFlightShape DEF CallShape
<1>2. calls' = [calls EXCEPT ![d] = y]
  BY DEF Answers, WithAnswer
<1>3. /\ IsCall(y) /\ y.pc = x.pc /\ y.agent = x.agent /\ y.new = x.new /\ y.loaded = x.loaded
      /\ y.alone = x.alone /\ y.answer = answer
  BY <1>1, WithAnswerIs
<1> HIDE DEF y
<1>4. CallShape(y)
  BY <1>1, <1>3 DEF CallShape
<1>5. y.alone => AloneFits(y, agents', rows', suspect')
  BY <1>3 DEF y
<1> QED
  BY <1>2, <1>3, <1>4, <1>5, CallAnswered

\* Where the statement changed nothing, what held of the call holds of it still.
LEMMA UnansweredFits ==
    ASSUME NEW x, IsCall(x), x.answer = "none", NEW memory, NEW table, NEW distrusted,
           AloneFits(x, memory, table, distrusted),
           NEW answer, answer \notin {"done", "lost", "found"},
           x.pc = "looking" /\ answer = "none such" /\ ~ Raw(x.request) => x.agent \notin DOMAIN table
    PROVE  AloneFits(WithAnswer(x, answer), memory, table, distrusted)
<1> DEFINE y == WithAnswer(x, answer)
<1>1. /\ IsCall(y) /\ y.pc = x.pc /\ y.agent = x.agent /\ y.new = x.new /\ y.loaded = x.loaded
      /\ y.alone = x.alone /\ y.answer = answer /\ y.request = x.request
  BY WithAnswerIs
<1> HIDE DEF y
<1>2. AloneFits(y, memory, table, distrusted)
  BY <1>1 DEF AloneFits, TookEffect
<1> QED
  BY <1>2 DEF y

LEMMA AllShaped ==
    ASSUME StoreInv
    PROVE  Shaped(agents, rows)
BY DEF Shaped, StoreInv, StoreShape, Known, Stored

LEMMA RowSelectedKeeps ==
    ASSUME StoreInv, NEW d \in Callers, RowSelected(d)
    PROVE  StoreInv'
<1> DEFINE x == calls[d]
<1>1. x.pc = "looking" /\ x.answer = "none" /\ d \in InFlight
  BY DEF RowSelected, Awaits, InFlight
<1>2. CallShape(x) /\ IsCall(x)
  BY <1>1, InFlightShape DEF CallShape
<1>3. agents' = agents /\ rows' = rows /\ suspect' = suspect
  BY DEF RowSelected
<1>4. \A a \in AgentIds : Unmoved(a)
  BY <1>3 DEF Unmoved
<1>5. Shaped(agents, rows) /\ Shaped(agents', rows')
  BY <1>3, AllShaped
<1>6. x.alone => AloneFits(x, agents, rows, suspect)
  BY <1>1 DEF StoreInv
<1>7. CASE /\ x.agent \in Stored
           /\ calls' = [calls EXCEPT ![d].answer = "found", ![d].new = rows[x.agent]]
  <2> DEFINE new == rows[x.agent]
             y1 == WithAnswer(x, "found")
             y == [y1 EXCEPT !.new = new]
  <2>1. calls' = [calls EXCEPT ![d] = y]
    BY <1>7 DEF WithAnswer
  <2>2. /\ IsCall(y1) /\ y1.pc = x.pc /\ y1.agent = x.agent /\ y1.alone = x.alone
        /\ y1.answer = "found"
    BY <1>2, WithAnswerIs
  <2> HIDE DEF y1
  <2>3. IsCall(y) /\ y.pc = x.pc /\ y.agent = x.agent /\ y.alone = x.alone /\ y.answer = "found" /\ y.new = new
    <3> HIDE DEF new
    <3>1. IsCall(y)
      BY <2>2, CallFieldSet
    <3> QED
      BY <2>2, <3>1 DEF IsCall
  <2> HIDE DEF y
  <2>4. IsAgent(new) /\ x.agent \in DOMAIN rows
    BY <1>5, <1>7 DEF Shaped, Stored
  <2>5. CallShape(y)
    BY <1>1, <1>2, <2>3, <2>4 DEF CallShape
  <2>6. AloneFits(y, agents', rows', suspect')
    BY <1>1, <1>3, <2>3, <2>4 DEF AloneFits, TookEffect, Same
  <2> QED
    BY <1>1, <1>4, <1>5, <2>1, <2>3, <2>5, <2>6, CallAnswered
<1>8. CASE (x.agent \notin Stored \/ Raw(x.request)) /\ Answers(d, "none such")
  <2>1. x.alone => AloneFits(WithAnswer(x, "none such"), agents', rows', suspect')
    BY <1>1, <1>2, <1>3, <1>6, <1>8, UnansweredFits DEF Stored
  <2> QED
    BY <1>1, <1>4, <1>5, <1>8, <2>1, AnswersKeeps
<1>9. CASE Answers(d, "failed")
  <2>1. x.alone => AloneFits(WithAnswer(x, "failed"), agents', rows', suspect')
    BY <1>1, <1>2, <1>3, <1>6, UnansweredFits
  <2> QED
    BY <1>1, <1>4, <1>5, <1>9, <2>1, AnswersKeeps
<1> QED
  BY <1>7, <1>8, <1>9 DEF RowSelected

LEMMA LookedKeeps ==
    ASSUME StoreInv, NEW d \in Callers, Looked(d)
    PROVE  StoreInv'
<1> DEFINE x == calls[d]
           a == x.agent
<1>1. x.pc = "looking" /\ x.answer # "none" /\ d \in InFlight /\ rows' = rows
  BY DEF Looked, Answered, InFlight
<1>2. CallShape(x) /\ IsCall(x) /\ a \in AgentIds /\ x.alone \in BOOLEAN /\ x.answer \in {"found", "none such", "failed"}
  <2>1. CallShape(x)
    BY <1>1, InFlightShape
  <2> QED
    BY <1>1, <2>1 DEF CallShape
<1>3. Shaped(agents, rows) /\ (x.alone => AloneFits(x, agents, rows, suspect))
  BY <1>1, AllShaped DEF StoreInv
<1>4. Touches(x) = {a} /\ ~ Busy(x)
  BY <1>1 DEF Touches, Busy
<1>5. CASE x.answer = "found" /\ Proceeds(d, x, Put(agents, a, x.new), HarmOf(x))
  <2> DEFINE known == Put(agents, a, x.new)
             harmed == HarmOf(x)
  <2>1. /\ a \in DOMAIN known /\ known[a] = x.new /\ DOMAIN known = DOMAIN agents \union {a}
        /\ \A b \in DOMAIN agents \ {a} : known[b] = agents[b]
    BY DEF Put
  <2>2. IsAgent(x.new)
    BY <1>1, <1>2, <1>5 DEF CallShape
  <2>3. x.alone => Match(a, known, rows)
    BY <1>1, <1>3, <1>5, <2>1 DEF AloneFits, TookEffect, Match
  <2>4. ~ x.alone => a \in harmed
    BY <1>4 DEF HarmOf
  <2>5. Proceeds(d, x, known, harmed)
    BY <1>5
  <2> HIDE DEF known, harmed
  <2>6. \A b \in DOMAIN known : IsAgent(known[b])
    BY <1>3, <2>1, <2>2 DEF Shaped
  <2>7. \A b \in AgentIds \ {a} :
           (b \in DOMAIN known <=> b \in DOMAIN agents) /\ (b \in DOMAIN agents => known[b] = agents[b])
    BY <2>1
  <2>8. d \in InFlight /\ a \in Touches(calls[d]) /\ ~ Busy(calls[d])
    BY <1>1, <1>4
  <2>9. a \in harmed \/ Match(a, known, rows)
    BY <2>3, <2>4
  <2>10. x.alone /\ (\A c \in InFlight \ {d} : a \notin Touches(calls[c])) => a \in suspect \/ Match(a, known, rows)
    BY <2>3
  <2> HIDE DEF x
  <2> QED
    BY <1>1, <1>2, <2>1, <2>5, <2>6, <2>7, <2>8, <2>9, <2>10, ProceedsKeeps DEF x
<1>6. CASE /\ x.answer # "found"
           /\ \E new : /\ new = [active |-> FALSE, realm |-> Unset, grants |-> x.request.grants]
                       /\ agents' = Put(agents, a, new)
                       /\ GoesOn(d, Awaiting(x, "creating", new))
           /\ suspect' = suspect \union (IF x.answer = "failed" THEN {a} ELSE {})
  <2> PICK new : /\ new = [active |-> FALSE, realm |-> Unset, grants |-> x.request.grants]
                 /\ agents' = Put(agents, a, new)
                 /\ GoesOn(d, Awaiting(x, "creating", new))
    BY <1>6
  <2> DEFINE y == Awaiting(x, "creating", new)
  <2>1. IsAgent(new)
    BY DEF IsAgent
  <2>2. /\ DOMAIN agents' = DOMAIN agents \union {a} /\ agents'[a] = new
        /\ \A b \in DOMAIN agents \ {a} : agents'[b] = agents[b]
    BY DEF Put
  <2>3. /\ IsCall(y) /\ y.pc = "creating" /\ y.new = new /\ y.answer = "none" /\ y.agent = a
        /\ y.alone = x.alone /\ y.request = x.request
    <3>1. IsCall(x)
      BY <1>2
    <3>2. IsCall(y)
      BY <3>1, AwaitingIs
    <3>3. y.pc = "creating"
      BY <3>1, AwaitingIs
    <3>4. y.new = new
      BY <3>1, AwaitingIs
    <3>5. y.answer = "none"
      BY <3>1, AwaitingIs
    <3>6. y.agent = x.agent
      BY <3>1, AwaitingIs
    <3>7. y.alone = x.alone
      BY <3>1, AwaitingIs
    <3>8. y.request = x.request
      BY <3>1, AwaitingIs
    <3> QED
      BY <3>2, <3>3, <3>4, <3>5, <3>6, <3>7, <3>8
  <2> HIDE DEF y
  <2>4. CallShape(y)
    BY <1>2, <2>1, <2>3 DEF CallShape
  <2>5. Touches(y) = {a} /\ Busy(y)
    BY <2>3 DEF Touches, Busy
  <2>6. \A b \in AgentIds \ {a} : Unmoved(b)
    BY <1>1, <1>6, <2>2 DEF Unmoved
  <2>7. Shaped(agents', rows')
    BY <1>1, <1>3, <2>1, <2>2 DEF Shaped
  <2>8. y.alone => AloneFits(y, agents', rows', suspect')
    <3> SUFFICES ASSUME y.alone PROVE AloneFits(y, agents', rows', suspect')
      OBVIOUS
    <3>1. a \notin suspect' /\ ~ Raw(x.request) => a \notin DOMAIN rows'
      BY <1>1, <1>2, <1>3, <1>6, <2>3 DEF AloneFits, TookEffect
    <3>2. a \in DOMAIN agents' /\ Same(new, agents'[a])
      BY <2>2 DEF Same
    <3> QED
      BY <2>3, <3>1, <3>2 DEF AloneFits, TookEffect
  <2>9. \A b \in AgentIds :
           \/ Unmoved(b)
           \/ d \in InFlight /\ b \in Touches(calls[d])
           \/ b \in Touches(y)
    BY <2>5, <2>6
  <2>10. \A b \in AgentIds :
            \/ b \in suspect' \/ Match(b, agents', rows')
            \/ Busy(y) /\ b \in Touches(y)
            \/ Unmoved(b) /\ ~ (d \in InFlight /\ Busy(calls[d]) /\ b \in Touches(calls[d]))
    BY <2>5, <2>6, <1>4
  <2>11. GoesOn(d, y)
    BY DEF y
  <2> QED
    BY <2>4, <2>7, <2>8, <2>9, <2>10, <2>11, CallGoesOn
<1>7. CASE Ends(d, {}) /\ agents' = agents
  <2>1. calls' = [calls EXCEPT ![d] = Idle] /\ suspect' = suspect
    BY <1>7 DEF Ends
  <2>2. \A b \in AgentIds : Unmoved(b)
    BY <1>1, <1>7, <2>1 DEF Unmoved
  <2> QED
    BY <1>1, <1>3, <1>4, <1>7, <2>1, <2>2, CallEnds
<1>8. \/ x.answer = "found" /\ Proceeds(d, x, Put(agents, a, x.new), HarmOf(x))
      \/ /\ x.answer # "found"
         /\ LET new == [active |-> FALSE, realm |-> Unset, grants |-> x.request.grants]
            IN  agents' = Put(agents, a, new) /\ GoesOn(d, Awaiting(x, "creating", new))
         /\ suspect' = suspect \union (IF x.answer = "failed" THEN {a} ELSE {})
      \/ Ends(d, {}) /\ agents' = agents
  BY DEF Looked, Awaiting
<1> QED
  BY <1>5, <1>6, <1>7, <1>8

\* A call that is alone with an agent, and has not begun to change it.
LEMMA AloneQuiet ==
    ASSUME StoreInv, NEW d \in InFlight, calls[d].alone, ~ Busy(calls[d]),
           NEW a \in AgentIds, a \in Touches(calls[d])
    PROVE  a \in suspect \/ Match(a, agents, rows)
<1>1. ASSUME NEW c \in InFlight, Busy(calls[c]) PROVE a \notin Touches(calls[c])
  <2>1. c # d
    BY <1>1
  <2> QED
    BY <2>1 DEF StoreInv, Apart
<1> QED
  BY <1>1 DEF StoreInv, Quiet

\* A call ends that worked on one agent.
LEMMA WorkEnds ==
    ASSUME StoreInv, NEW d \in InFlight, calls' = [calls EXCEPT ![d] = Idle],
           calls[d].pc # "loading", Shaped(agents', rows'),
           \A b \in AgentIds \ {calls[d].agent} : Unmoved(b),
           \/ calls[d].agent \in suspect' \/ Match(calls[d].agent, agents', rows')
           \/ Unmoved(calls[d].agent) /\ ~ Busy(calls[d])
    PROVE  StoreInv'
<1> DEFINE a == calls[d].agent
<1>1. Touches(calls[d]) = {a} /\ d \in Callers
  BY DEF Touches, InFlight
<1>2. \A b \in AgentIds : Unmoved(b) \/ (d \in InFlight /\ b \in Touches(calls[d]))
  BY <1>1
<1>3. ASSUME NEW b \in AgentIds
      PROVE  \/ b \in suspect' \/ Match(b, agents', rows')
             \/ Unmoved(b) /\ ~ (d \in InFlight /\ Busy(calls[d]) /\ b \in Touches(calls[d]))
  <2>1. CASE b = a
    BY <2>1
  <2>2. CASE b # a
    BY <1>1, <2>2
  <2> QED
    BY <2>1, <2>2
<1> QED
  BY <1>1, <1>2, <1>3, CallEnds

LEMMA ProbedKeeps ==
    ASSUME StoreInv, NEW d \in Callers, Probed(d)
    PROVE  StoreInv'
<1> DEFINE x == calls[d]
           a == x.agent
<1>1. x.pc = "probing" /\ d \in InFlight /\ rows' = rows
  BY DEF Probed, InFlight
<1>2. CallShape(x)
  BY <1>1, InFlightShape
<1>3. Shaped(agents, rows) /\ (x.alone => AloneFits(x, agents, rows, suspect))
  BY <1>1, AllShaped DEF StoreInv
<1>4. Touches(x) = {a} /\ ~ Busy(x) /\ a \in AgentIds /\ IsAgent(x.new)
  BY <1>1, <1>2 DEF Touches, Busy, CallShape
<1>5. CASE Ends(d, {}) /\ agents' = agents
  <2>1. calls' = [calls EXCEPT ![d] = Idle] /\ suspect' = suspect
    BY <1>5 DEF Ends
  <2>2. \A b \in AgentIds : Unmoved(b)
    BY <1>1, <1>5, <2>1 DEF Unmoved
  <2> QED
    BY <1>1, <1>3, <1>4, <1>5, <2>1, <2>2, WorkEnds
<1>6. CASE Ends(d, HarmOf(x)) /\ agents' = Put(agents, a, x.new)
  <2>1. calls' = [calls EXCEPT ![d] = Idle] /\ suspect' = suspect \union HarmOf(x)
    BY <1>6 DEF Ends
  <2>2. /\ DOMAIN agents' = DOMAIN agents \union {a} /\ agents'[a] = x.new
        /\ \A b \in DOMAIN agents \ {a} : agents'[b] = agents[b]
    BY <1>6 DEF Put
  <2>3. \A b \in AgentIds \ {a} : Unmoved(b)
    BY <1>1, <2>1, <2>2 DEF Unmoved
  <2>4. Shaped(agents', rows')
    BY <1>1, <1>3, <1>4, <2>2 DEF Shaped
  <2>5. a \in suspect' \/ Match(a, agents', rows')
    <3>1. CASE x.alone
      <4>1. a \in DOMAIN agents /\ Same(x.new, agents[a])
        BY <1>1, <1>3, <3>1 DEF AloneFits, TookEffect
      <4>2. a \in suspect \/ Match(a, agents, rows)
        BY <1>1, <1>4, <3>1, AloneQuiet
      <4> QED
        BY <1>1, <2>1, <2>2, <4>1, <4>2 DEF Match, Same
    <3>2. CASE ~ x.alone
      BY <1>4, <2>1, <3>2 DEF HarmOf
    <3> QED
      BY <3>1, <3>2
  <2> QED
    BY <1>1, <2>1, <2>3, <2>4, <2>5, WorkEnds
<1> QED
  BY <1>5, <1>6 DEF Probed

LEMMA NormalisedKeeps ==
    ASSUME StoreInv, NEW d \in Callers, Normalised(d)
    PROVE  StoreInv'
<1> DEFINE x == calls[d]
           a == x.agent
           updating == "updating"
           y == [x EXCEPT !.pc = updating]
<1>1. x.pc = "normalising" /\ d \in InFlight /\ rows' = rows /\ suspect' = suspect
  BY DEF Normalised, InFlight
<1>2. CallShape(x) /\ IsCall(x)
  BY <1>1, InFlightShape DEF CallShape
<1>3. a \in AgentIds /\ IsAgent(x.new) /\ x.answer = "none" /\ x.alone \in BOOLEAN
  BY <1>1, <1>2 DEF CallShape
<1>4. Touches(x) = {a} /\ ~ Busy(x)
  BY <1>1 DEF Touches, Busy
<1>5. agents' = Put(agents, a, x.new) /\ GoesOn(d, y)
  BY DEF Normalised
<1>6. /\ DOMAIN agents' = DOMAIN agents \union {a} /\ agents'[a] = x.new
      /\ \A b \in DOMAIN agents \ {a} : agents'[b] = agents[b]
  BY <1>5 DEF Put
<1>7. IsCall(y) /\ y.pc = updating /\ y.agent = a /\ y.new = x.new /\ y.answer = "none" /\ y.alone = x.alone
  <2> HIDE DEF updating
  <2>1. IsCall(y)
    BY <1>2, CallFieldSet
  <2> QED
    BY <1>2, <1>3, <2>1 DEF IsCall
<1> HIDE DEF y
<1>8. CallShape(y)
  BY <1>3, <1>7 DEF CallShape
<1>9. Touches(y) = {a} /\ Busy(y)
  BY <1>7 DEF Touches, Busy
<1>10. \A b \in AgentIds \ {a} : Unmoved(b)
  BY <1>1, <1>6 DEF Unmoved
<1>11. Shaped(agents', rows')
  BY <1>1, <1>3, <1>6, AllShaped DEF Shaped
<1>12. AloneFits(y, agents', rows', suspect')
  BY <1>6, <1>7 DEF AloneFits, TookEffect, Same
<1>13. \A b \in AgentIds : Unmoved(b) \/ (d \in InFlight /\ b \in Touches(calls[d])) \/ b \in Touches(y)
  BY <1>9, <1>10
<1>14. \A b \in AgentIds :
          \/ b \in suspect' \/ Match(b, agents', rows')
          \/ Busy(y) /\ b \in Touches(y)
          \/ Unmoved(b) /\ ~ (d \in InFlight /\ Busy(calls[d]) /\ b \in Touches(calls[d]))
  BY <1>4, <1>9, <1>10
<1> QED
  BY <1>5, <1>8, <1>11, <1>12, <1>13, <1>14, CallGoesOn

\* The statements of an update, a creation and a deletion: the table changes
\* for their agent, or does not.
LEMMA RowUpdatedKeeps ==
    ASSUME StoreInv, NEW d \in Callers, RowUpdated(d)
    PROVE  StoreInv'
<1> DEFINE x == calls[d]
           a == x.agent
<1>1. x.pc = "updating" /\ x.answer = "none" /\ d \in InFlight /\ agents' = agents /\ suspect' = suspect
  BY DEF RowUpdated, Awaits, InFlight
<1>2. CallShape(x) /\ IsCall(x)
  BY <1>1, InFlightShape DEF CallShape
<1>3. Shaped(agents, rows) /\ (x.alone => AloneFits(x, agents, rows, suspect))
  BY <1>1, AllShaped DEF StoreInv
<1>4. Touches(x) = {a} /\ Busy(x) /\ a \in AgentIds /\ IsAgent(x.new)
  BY <1>1, <1>2 DEF Touches, Busy, CallShape
<1>5. ASSUME NEW answer \in {"done", "lost"}, Answers(d, answer), a \in Stored, rows' = [rows EXCEPT ![a] = x.new]
      PROVE  StoreInv'
  <2> DEFINE y == WithAnswer(x, answer)
  <2>1. /\ DOMAIN rows' = DOMAIN rows /\ a \in DOMAIN rows' /\ rows'[a] = x.new
        /\ \A b \in DOMAIN rows \ {a} : rows'[b] = rows[b]
    BY <1>5 DEF Stored
  <2>2. \A b \in AgentIds : Unmoved(b) \/ (Busy(x) /\ b \in Touches(x))
    BY <1>1, <1>4, <2>1 DEF Unmoved
  <2>3. Shaped(agents', rows')
    BY <1>1, <1>3, <1>4, <2>1 DEF Shaped
  <2>4. /\ y.pc = x.pc /\ y.agent = x.agent /\ y.new = x.new /\ y.answer = answer
    BY <1>2, WithAnswerIs
  <2>5. x.alone => AloneFits(y, agents', rows', suspect')
    <3> HIDE DEF y
    <3> QED
      BY <1>1, <1>3, <2>1, <2>4 DEF AloneFits, TookEffect, Same
  <2> QED
    BY <1>1, <1>5, <2>2, <2>3, <2>5, AnswersKeeps
<1>6. ASSUME NEW answer \in {"none such", "failed"}, Answers(d, answer), rows' = rows
      PROVE  StoreInv'
  <2>1. \A b \in AgentIds : Unmoved(b)
    BY <1>1, <1>6 DEF Unmoved
  <2>2. x.alone => AloneFits(WithAnswer(x, answer), agents', rows', suspect')
    BY <1>1, <1>2, <1>3, <1>6, UnansweredFits
  <2>3. Shaped(agents', rows')
    BY <1>1, <1>3, <1>6
  <2> QED
    BY <1>1, <1>6, <2>1, <2>2, <2>3, AnswersKeeps
<1> QED
  BY <1>5, <1>6 DEF RowUpdated

LEMMA RowUpsertedKeeps ==
    ASSUME StoreInv, NEW d \in Callers, RowUpserted(d)
    PROVE  StoreInv'
<1> DEFINE x == calls[d]
           a == x.agent
<1>1. /\ x.pc \in {"inserting", "creating"} /\ x.answer = "none" /\ d \in InFlight
      /\ agents' = agents /\ suspect' = suspect
  BY DEF RowUpserted, Awaits, InFlight
<1>2. CallShape(x) /\ IsCall(x)
  BY <1>1, InFlightShape DEF CallShape
<1>3. Shaped(agents, rows) /\ (x.alone => AloneFits(x, agents, rows, suspect))
  BY <1>1, AllShaped DEF StoreInv
<1>4. Touches(x) = {a} /\ Busy(x) /\ a \in AgentIds /\ IsAgent(x.new)
  BY <1>1, <1>2 DEF Touches, Busy, CallShape
<1>5. ASSUME NEW answer \in {"done", "lost"}, Answers(d, answer), rows' = Put(rows, a, x.new)
      PROVE  StoreInv'
  <2> DEFINE y == WithAnswer(x, answer)
  <2>1. /\ DOMAIN rows' = DOMAIN rows \union {a} /\ a \in DOMAIN rows' /\ rows'[a] = x.new
        /\ \A b \in DOMAIN rows \ {a} : rows'[b] = rows[b]
    BY <1>5 DEF Put
  <2>2. \A b \in AgentIds : Unmoved(b) \/ (Busy(x) /\ b \in Touches(x))
    BY <1>1, <1>4, <2>1 DEF Unmoved
  <2>3. Shaped(agents', rows')
    BY <1>1, <1>3, <1>4, <2>1 DEF Shaped
  <2>4. y.pc = x.pc /\ y.agent = x.agent /\ y.new = x.new /\ y.answer = answer
    BY <1>2, WithAnswerIs
  <2>5. x.alone => AloneFits(y, agents', rows', suspect')
    <3> HIDE DEF y
    <3> QED
      BY <1>1, <1>3, <2>1, <2>4 DEF AloneFits, TookEffect, Same
  <2> QED
    BY <1>1, <1>5, <2>2, <2>3, <2>5, AnswersKeeps
<1>6. CASE Answers(d, "failed") /\ rows' = rows
  <2>1. \A b \in AgentIds : Unmoved(b)
    BY <1>1, <1>6 DEF Unmoved
  <2>2. x.alone => AloneFits(WithAnswer(x, "failed"), agents', rows', suspect')
    BY <1>1, <1>2, <1>3, <1>6, UnansweredFits
  <2>3. Shaped(agents', rows')
    BY <1>1, <1>3, <1>6
  <2> QED
    BY <1>1, <1>6, <2>1, <2>2, <2>3, AnswersKeeps
<1> QED
  BY <1>5, <1>6 DEF RowUpserted

LEMMA RowDeletedKeeps ==
    ASSUME StoreInv, NEW d \in Callers, RowDeleted(d)
    PROVE  StoreInv'
<1> DEFINE x == calls[d]
           a == x.agent
<1>1. x.pc = "deleting" /\ x.answer = "none" /\ d \in InFlight /\ agents' = agents /\ suspect' = suspect
  BY DEF RowDeleted, Awaits, InFlight
<1>2. CallShape(x) /\ IsCall(x)
  BY <1>1, InFlightShape DEF CallShape
<1>3. Shaped(agents, rows) /\ (x.alone => AloneFits(x, agents, rows, suspect))
  BY <1>1, AllShaped DEF StoreInv
<1>4. Touches(x) = {a} /\ Busy(x) /\ a \in AgentIds
  BY <1>1, <1>2 DEF Touches, Busy, CallShape
<1>5. ASSUME NEW answer \in {"done", "lost"}, Answers(d, answer), rows' = Without(rows, {a})
      PROVE  StoreInv'
  <2> DEFINE y == WithAnswer(x, answer)
  <2>1. DOMAIN rows' = DOMAIN rows \ {a} /\ \A b \in DOMAIN rows \ {a} : rows'[b] = rows[b]
    BY <1>5 DEF Without
  <2>2. \A b \in AgentIds : Unmoved(b) \/ (Busy(x) /\ b \in Touches(x))
    BY <1>1, <1>4, <2>1 DEF Unmoved
  <2>3. Shaped(agents', rows')
    BY <1>1, <1>3, <2>1 DEF Shaped
  <2>4. y.pc = x.pc /\ y.agent = x.agent /\ y.answer = answer
    BY <1>2, WithAnswerIs
  <2>5. AloneFits(y, agents', rows', suspect')
    <3> HIDE DEF y
    <3> QED
      BY <1>1, <2>1, <2>4 DEF AloneFits, TookEffect
  <2> QED
    BY <1>1, <1>5, <2>2, <2>3, <2>5, AnswersKeeps
<1>6. CASE Answers(d, "failed") /\ rows' = rows
  <2>1. \A b \in AgentIds : Unmoved(b)
    BY <1>1, <1>6 DEF Unmoved
  <2>2. x.alone => AloneFits(WithAnswer(x, "failed"), agents', rows', suspect')
    BY <1>1, <1>2, <1>3, <1>6, UnansweredFits
  <2>3. Shaped(agents', rows')
    BY <1>1, <1>3, <1>6
  <2> QED
    BY <1>1, <1>6, <2>1, <2>2, <2>3, AnswersKeeps
<1> QED
  BY <1>5, <1>6 DEF RowDeleted

\* What follows those statements.
LEMMA UpdateEndsKeeps ==
    ASSUME StoreInv, NEW d \in Callers, UpdateEnds(d)
    PROVE  StoreInv'
<1> DEFINE x == calls[d]
           a == x.agent
<1>1. x.pc = "updating" /\ x.answer # "none" /\ d \in InFlight /\ agents' = agents /\ rows' = rows
  BY DEF UpdateEnds, Answered, InFlight
<1>2. CallShape(x) /\ IsCall(x)
  BY <1>1, InFlightShape DEF CallShape
<1>3. Shaped(agents', rows') /\ (x.alone => AloneFits(x, agents, rows, suspect))
  BY <1>1, AllShaped DEF StoreInv
<1>4. Touches(x) = {a} /\ a \in AgentIds /\ IsAgent(x.new) /\ x.alone \in BOOLEAN
  BY <1>1, <1>2 DEF Touches, CallShape
<1>5. ASSUME suspect \subseteq suspect' PROVE \A b \in AgentIds : Unmoved(b)
  BY <1>1, <1>5 DEF Unmoved
<1>6. CASE x.answer \in {"done", "lost"} /\ Ends(d, HarmOf(x))
  <2>1. calls' = [calls EXCEPT ![d] = Idle] /\ suspect' = suspect \union HarmOf(x)
    BY <1>6 DEF Ends
  <2>2. a \in suspect' \/ Match(a, agents', rows')
    BY <1>1, <1>3, <1>4, <1>6, <2>1 DEF HarmOf, AloneFits, TookEffect, Match, Same
  <2> QED
    BY <1>1, <1>3, <1>5, <2>1, <2>2, WorkEnds
<1>7. CASE x.answer = "failed" /\ Ends(d, {a})
  <2>1. calls' = [calls EXCEPT ![d] = Idle] /\ suspect' = suspect \union {a}
    BY <1>7 DEF Ends
  <2> QED
    BY <1>1, <1>3, <1>5, <2>1, WorkEnds
<1>8. CASE x.answer = "none such" /\ GoesOn(d, [x EXCEPT !.pc = "inserting", !.answer = "none"]) /\ suspect' = suspect
  <2> DEFINE y1 == [x EXCEPT !.pc = "inserting"]
             y == WithAnswer(y1, "none")
  <2>1. y = [x EXCEPT !.pc = "inserting", !.answer = "none"]
    BY DEF WithAnswer
  <2>2. IsCall(y1) /\ y1.pc = "inserting" /\ y1.agent = a /\ y1.new = x.new /\ y1.alone = x.alone
    <3>1. IsCall(y1)
      BY <1>2, CallFieldSet
    <3> QED
      BY <1>2, <3>1 DEF IsCall
  <2> HIDE DEF y1
  <2>3. /\ IsCall(y) /\ y.pc = "inserting" /\ y.agent = a /\ y.new = x.new /\ y.answer = "none"
        /\ y.alone = x.alone
    BY <2>2, WithAnswerIs
  <2> HIDE DEF y
  <2>4. CallShape(y)
    BY <1>4, <2>3 DEF CallShape
  <2>5. Touches(y) = {a} /\ Busy(y)
    BY <2>3 DEF Touches, Busy
  <2>6. y.alone => AloneFits(y, agents', rows', suspect')
    BY <1>1, <1>3, <2>3 DEF AloneFits, TookEffect
  <2>7. \A b \in AgentIds : Unmoved(b)
    BY <1>5, <1>8
  <2>8. \A b \in AgentIds :
           \/ b \in suspect' \/ Match(b, agents', rows')
           \/ Busy(y) /\ b \in Touches(y)
           \/ Unmoved(b) /\ ~ (d \in InFlight /\ Busy(calls[d]) /\ b \in Touches(calls[d]))
    BY <1>4, <2>5, <2>7
  <2>9. GoesOn(d, y)
    BY <1>8, <2>1
  <2> QED
    BY <1>3, <2>4, <2>6, <2>7, <2>8, <2>9, CallGoesOn
<1> QED
  BY <1>6, <1>7, <1>8 DEF UpdateEnds, InsertsInstead

LEMMA InsertEndsKeeps ==
    ASSUME StoreInv, NEW d \in Callers, InsertEnds(d)
    PROVE  StoreInv'
<1> DEFINE x == calls[d]
           a == x.agent
           harmed == IF x.answer = "failed" THEN {a} ELSE HarmOf(x)
<1>1. x.pc = "inserting" /\ x.answer # "none" /\ d \in InFlight /\ agents' = agents /\ rows' = rows
  BY DEF InsertEnds, Answered, InFlight
<1>2. CallShape(x)
  BY <1>1, InFlightShape
<1>3. Shaped(agents', rows') /\ (x.alone => AloneFits(x, agents, rows, suspect))
  BY <1>1, AllShaped DEF StoreInv
<1>4. Touches(x) = {a} /\ x.alone \in BOOLEAN
  BY <1>1, <1>2 DEF Touches, CallShape
<1>5. calls' = [calls EXCEPT ![d] = Idle] /\ suspect' = suspect \union harmed
  BY DEF InsertEnds, Ends
<1>6. \A b \in AgentIds : Unmoved(b)
  BY <1>1, <1>5 DEF Unmoved
<1>7. a \in suspect' \/ Match(a, agents', rows')
  <2>1. x.answer \in {"done", "lost", "failed"}
    BY <1>1, <1>2 DEF CallShape
  <2> QED
    BY <1>1, <1>3, <1>4, <1>5, <2>1 DEF HarmOf, AloneFits, TookEffect, Match, Same
<1> QED
  BY <1>1, <1>3, <1>5, <1>6, <1>7, WorkEnds

LEMMA CreateEndsKeeps ==
    ASSUME StoreInv, NEW d \in Callers, CreateEnds(d)
    PROVE  StoreInv'
<1> DEFINE x == calls[d]
           a == x.agent
<1>1. x.pc = "creating" /\ x.answer # "none" /\ d \in InFlight /\ rows' = rows
  BY DEF CreateEnds, Answered, InFlight
<1>2. CallShape(x)
  BY <1>1, InFlightShape
<1>3. Shaped(agents, rows) /\ (x.alone => AloneFits(x, agents, rows, suspect))
  BY <1>1, AllShaped DEF StoreInv
<1>4. Touches(x) = {a} /\ x.alone \in BOOLEAN
  BY <1>1, <1>2 DEF Touches, CallShape
<1>5. /\ calls' = [calls EXCEPT ![d] = Idle]
      /\ suspect' = suspect \union (IF LeavesRow(x) THEN {a} ELSE HarmOf(x))
  BY DEF CreateEnds, Ends
<1>6. ~ x.alone => a \in suspect'
  BY <1>4, <1>5 DEF HarmOf
<1>7. CASE x.answer = "done"
  <2>1. agents' = agents
    BY <1>7 DEF CreateEnds
  <2>2. \A b \in AgentIds : Unmoved(b)
    BY <1>1, <1>5, <2>1 DEF Unmoved
  <2>3. a \in suspect' \/ Match(a, agents', rows')
    BY <1>1, <1>3, <1>6, <1>7, <2>1 DEF AloneFits, TookEffect, Match, Same
  <2> QED
    BY <1>1, <1>3, <1>5, <2>1, <2>2, <2>3, WorkEnds
<1>8. CASE x.answer # "done"
  <2>1. DOMAIN agents' = DOMAIN agents \ {a} /\ \A b \in DOMAIN agents \ {a} : agents'[b] = agents[b]
    BY <1>8 DEF CreateEnds, Uncreated, Without
  <2>2. \A b \in AgentIds \ {a} : Unmoved(b)
    BY <1>1, <1>5, <2>1 DEF Unmoved
  <2>3. Shaped(agents', rows')
    BY <1>1, <1>3, <2>1 DEF Shaped
  <2>4. a \in suspect' \/ Match(a, agents', rows')
    <3>1. x.answer \in {"lost", "failed"}
      BY <1>1, <1>2, <1>8 DEF CallShape
    <3>2. CASE LeavesRow(x)
      BY <1>5, <3>2
    <3>3. CASE ~ LeavesRow(x) /\ x.alone /\ a \notin suspect
      <4>1. a \notin DOMAIN rows
        BY <1>1, <1>3, <3>1, <3>3 DEF AloneFits, TookEffect, LeavesRow
      <4> QED
        BY <1>1, <2>1, <4>1 DEF Match
    <3> QED
      BY <1>5, <1>6, <3>2, <3>3
  <2> QED
    BY <1>1, <1>5, <2>2, <2>3, <2>4, WorkEnds
<1> QED
  BY <1>7, <1>8

LEMMA DeleteEndsKeeps ==
    ASSUME StoreInv, NEW d \in Callers, DeleteEnds(d)
    PROVE  StoreInv'
<1> DEFINE x == calls[d]
           a == x.agent
<1>1. x.pc = "deleting" /\ d \in InFlight /\ rows' = rows
  BY DEF DeleteEnds, Answered, InFlight
<1>2. CallShape(x)
  BY <1>1, InFlightShape
<1>3. Shaped(agents, rows) /\ (x.alone => AloneFits(x, agents, rows, suspect))
  BY <1>1, AllShaped DEF StoreInv
<1>4. Touches(x) = {a} /\ x.alone \in BOOLEAN
  BY <1>1, <1>2 DEF Touches, CallShape
<1>5. /\ calls' = [calls EXCEPT ![d] = Idle]
      /\ suspect' = suspect \union (IF x.answer = "lost" THEN {a} ELSE HarmOf(x))
  BY DEF DeleteEnds, Ends
<1>6. ~ x.alone => a \in suspect'
  BY <1>4, <1>5 DEF HarmOf
<1>7. CASE x.answer = "done"
  <2>1. DOMAIN agents' = DOMAIN agents \ {a} /\ \A b \in DOMAIN agents \ {a} : agents'[b] = agents[b]
    BY <1>7 DEF DeleteEnds, Without
  <2>2. \A b \in AgentIds \ {a} : Unmoved(b)
    BY <1>1, <1>5, <2>1 DEF Unmoved
  <2>3. Shaped(agents', rows')
    BY <1>1, <1>3, <2>1 DEF Shaped
  <2>4. a \in suspect' \/ Match(a, agents', rows')
    BY <1>1, <1>3, <1>6, <1>7, <2>1 DEF AloneFits, TookEffect, Match
  <2> QED
    BY <1>1, <1>5, <2>2, <2>3, <2>4, WorkEnds
<1>8. CASE x.answer # "done"
  <2>1. agents' = agents
    BY <1>8 DEF DeleteEnds
  <2>2. \A b \in AgentIds : Unmoved(b)
    BY <1>1, <1>5, <2>1 DEF Unmoved
  <2>3. a \in suspect' \/ Match(a, agents', rows')
    BY <1>1, <1>3, <1>5, <1>6, <1>8, <2>1 DEF AloneFits, TookEffect
  <2> QED
    BY <1>1, <1>3, <1>5, <2>1, <2>2, <2>3, WorkEnds
<1> QED
  BY <1>7, <1>8

\* A refresh empties memory, and fills it with what it read.
LEMMA RefreshBeginsKeeps ==
    ASSUME StoreInv, NEW d \in Callers, RefreshAgentCache(d)
    PROVE  StoreInv'
<1> DEFINE x == Call([op |-> "refresh"], "all")
           y == [x EXCEPT !.pc = "loading"]
<1>1. agents' = None /\ rows' = rows /\ suspect' = suspect /\ GoesOn(d, y)
  BY DEF RefreshAgentCache
<1>2. IsCall(x) /\ x.alone /\ x.alone \in BOOLEAN /\ x.answer = "none"
  BY DEF IsCall, Call
<1> HIDE DEF x
<1>3. IsCall(y) /\ y.pc = "loading" /\ y.alone \in BOOLEAN /\ y.answer = "none"
  <2>1. IsCall(y)
    BY <1>2, CallFieldSet
  <2> QED
    BY <1>2, <2>1 DEF IsCall
<1> HIDE DEF y
<1>4. CallShape(y)
  BY <1>3 DEF CallShape
<1>5. Touches(y) = AgentIds /\ Busy(y)
  BY <1>3 DEF Touches, Busy
<1>6. DOMAIN agents' = {}
  BY <1>1 DEF None
<1>7. Shaped(agents', rows')
  BY <1>1, <1>6, AllShaped DEF Shaped
<1>8. AloneFits(y, agents', rows', suspect')
  BY <1>3, <1>6 DEF AloneFits, TookEffect
<1> QED
  BY <1>1, <1>4, <1>5, <1>7, <1>8, CallGoesOn

LEMMA RowsSelectedKeeps ==
    ASSUME StoreInv, NEW d \in Callers, RowsSelected(d)
    PROVE  StoreInv'
<1> DEFINE x == calls[d]
<1>1. /\ x.pc = "loading" /\ x.answer = "none" /\ d \in InFlight
      /\ agents' = agents /\ rows' = rows /\ suspect' = suspect
  BY DEF RowsSelected, Awaits, InFlight
<1>2. CallShape(x) /\ IsCall(x)
  BY <1>1, InFlightShape DEF CallShape
<1>3. Shaped(agents, rows) /\ Shaped(agents', rows') /\ (x.alone => AloneFits(x, agents, rows, suspect))
  BY <1>1, AllShaped DEF StoreInv
<1>4. \A a \in AgentIds : Unmoved(a)
  BY <1>1 DEF Unmoved
<1>5. CASE calls' = [calls EXCEPT ![d].answer = "done", ![d].loaded = rows]
  <2> DEFINE y1 == WithAnswer(x, "done")
             y == [y1 EXCEPT !.loaded = rows]
  <2>1. calls' = [calls EXCEPT ![d] = y]
    BY <1>5 DEF WithAnswer
  <2>2. /\ IsCall(y1) /\ y1.pc = x.pc /\ y1.agent = x.agent /\ y1.alone = x.alone
        /\ y1.answer = "done"
    BY <1>2, WithAnswerIs
  <2> HIDE DEF y1
  <2>3. /\ IsCall(y) /\ y.pc = x.pc /\ y.agent = x.agent /\ y.alone = x.alone /\ y.answer = "done"
        /\ y.loaded = rows
    <3>1. IsCall(y)
      BY <2>2, CallFieldSet
    <3> QED
      BY <2>2, <3>1 DEF IsCall
  <2> HIDE DEF y
  <2>4. CallShape(y)
    BY <1>1, <1>2, <1>3, <2>3 DEF CallShape, Shaped
  <2>5. y.alone => AloneFits(y, agents', rows', suspect')
    BY <1>1, <1>3, <2>3 DEF AloneFits, TookEffect, Same
  <2> QED
    BY <1>1, <1>3, <1>4, <2>1, <2>3, <2>4, <2>5, CallAnswered
<1>6. CASE Answers(d, "failed")
  <2>1. x.alone => AloneFits(WithAnswer(x, "failed"), agents', rows', suspect')
    BY <1>1, <1>2, <1>3, UnansweredFits
  <2> QED
    BY <1>1, <1>3, <1>4, <1>6, <2>1, AnswersKeeps
<1> QED
  BY <1>5, <1>6 DEF RowsSelected

LEMMA RefreshEndsKeeps ==
    ASSUME StoreInv, NEW d \in Callers, RefreshEnds(d)
    PROVE  StoreInv'
<1> DEFINE x == calls[d]
<1>1. x.pc = "loading" /\ d \in InFlight /\ rows' = rows /\ Touches(x) = AgentIds
  BY DEF RefreshEnds, Answered, InFlight, Touches
<1>2. CallShape(x)
  BY <1>1, InFlightShape
<1>3. Shaped(agents, rows) /\ (x.alone => AloneFits(x, agents, rows, suspect)) /\ x.alone \in BOOLEAN
  BY <1>1, <1>2, AllShaped DEF StoreInv, CallShape
<1>4. calls' = [calls EXCEPT ![d] = Idle]
  BY DEF RefreshEnds, Ends
<1>5. CASE /\ x.answer = "done"
           /\ agents' = [a \in Known \union DOMAIN x.loaded |->
                            IF a \in DOMAIN x.loaded THEN x.loaded[a] ELSE agents[a]]
           /\ suspect' = IF x.alone THEN {} ELSE AgentIds
  <2>1. /\ DOMAIN agents' = DOMAIN agents \union DOMAIN x.loaded
        /\ \A a \in DOMAIN x.loaded : agents'[a] = x.loaded[a]
        /\ \A a \in DOMAIN agents \ DOMAIN x.loaded : agents'[a] = agents[a]
    BY <1>5 DEF Known
  <2>2. \A a \in DOMAIN x.loaded : IsAgent(x.loaded[a])
    BY <1>1, <1>2, <1>5 DEF CallShape
  <2>3. Shaped(agents', rows')
    BY <1>1, <1>3, <2>1, <2>2 DEF Shaped
  <2>4. ASSUME NEW a \in AgentIds PROVE a \in suspect' \/ Match(a, agents', rows')
    <3>1. CASE x.alone
      <4>1. /\ a \notin DOMAIN agents /\ (a \in DOMAIN x.loaded <=> a \in DOMAIN rows)
            /\ a \in DOMAIN rows => Same(x.loaded[a], rows[a])
        BY <1>1, <1>3, <1>5, <3>1 DEF AloneFits, TookEffect
      <4> QED
        BY <1>1, <2>1, <4>1 DEF Match
    <3>2. CASE ~ x.alone
      BY <1>5, <3>2
    <3> QED
      BY <3>1, <3>2
  <2> QED
    BY <1>1, <1>4, <2>3, <2>4, CallEnds DEF InFlight
<1>6. CASE Ends(d, AgentIds) /\ agents' = agents
  <2>1. suspect' = suspect \union AgentIds
    BY <1>6 DEF Ends
  <2>2. Shaped(agents', rows')
    BY <1>1, <1>3, <1>6
  <2> QED
    BY <1>1, <1>4, <2>1, <2>2, CallEnds
<1> QED
  BY <1>5, <1>6 DEF RefreshEnds

------------------------------------------------------------------------------
(***************************************************************************)
(* The store: every step keeps its invariant                               *)
(***************************************************************************)

LEMMA StoreRests ==
    ASSUME StoreInv, UNCHANGED storeVars
    PROVE  StoreInv'
BY DEF storeVars, StoreInv, StoreShape, Apart, Quiet, InFlight, Known, Stored

LEMMA StoreInitial ==
    ASSUME InitStore
    PROVE  StoreInv
<1> DEFINE agent == [active |-> TRUE, realm |-> Unset, grants |-> Realms]
<1>1. IsAgent(agent)
  BY DEF IsAgent
<1> HIDE DEF agent
<1>2. DOMAIN rows = AgentIds /\ \A a \in AgentIds : rows[a] = agent
  BY DEF InitStore, agent
<1>3. agents = rows /\ calls = [c \in Callers |-> Idle]
  BY DEF InitStore
<1>4. InFlight = {}
  BY <1>3 DEF InFlight, Idle
<1>5. StoreShape
  BY <1>1, <1>2, <1>3 DEF StoreShape, Known, Stored
<1>6. Quiet
  BY <1>3 DEF Quiet, Match, Same
<1> QED
  BY <1>4, <1>5, <1>6 DEF StoreInv, Apart

LEMMA UpdateStepKeeps ==
    ASSUME StoreInv, NEW d \in Callers, UpdateStep(d)
    PROVE  StoreInv'
BY NormalisedKeeps, RowUpdatedKeeps, UpdateEndsKeeps, RowUpsertedKeeps, InsertEndsKeeps DEF UpdateStep

LEMMA ClientStore ==
    ASSUME StoreInv, NEW c \in Clients, ClientStep(c)
    PROVE  StoreInv'
<1>1. c \in Callers
  BY DEF Callers
<1>2. CASE RowSelected(c) \/ Looked(c) \/ UpdateStep(c)
  BY <1>1, <1>2, RowSelectedKeeps, LookedKeeps, UpdateStepKeeps
<1>3. CASE CreateEnds(c) \/ Probed(c) \/ RowDeleted(c) \/ DeleteEnds(c)
  BY <1>1, <1>3, CreateEndsKeeps, ProbedKeeps, RowDeletedKeeps, DeleteEndsKeeps
<1>4. CASE RefreshAgentCache(c) \/ RowsSelected(c) \/ RefreshEnds(c)
  BY <1>1, <1>4, RefreshBeginsKeeps, RowsSelectedKeeps, RefreshEndsKeeps
<1>5. CASE CreateAgent(c) \/ GetAgent(c) \/ UpdateAgent(c) \/ DeleteAgent(c) \/ StartAgent(c) \/ TravelAgent(c)
  <2> PICK r \in Requests, a \in AgentIds : Asks(c, r, a)
    BY <1>5 DEF CreateAgent, GetAgent, UpdateAgent, DeleteAgent, StartAgent, TravelAgent, Route
  <2> QED
    BY <1>1, AsksKeeps
<1> QED
  BY <1>2, <1>3, <1>4, <1>5 DEF ClientStep

LEMMA StrandStore ==
    ASSUME StackInv, StoreInv, NEW p \in Strands, StrandStep(p)
    PROVE  StoreInv'
<1>1. p \in Callers
  BY DEF Callers
<1>2. CASE Arrives(p)
  <2>1. Top(p).agent \in AgentIds
    <3>1. stacks[p] # <<>>
      BY <1>2 DEF Arrives, Running
    <3> QED
      BY <3>1, TopIsFrame DEF FrameFits
  <2>2. UNCHANGED storeVars \/ \E r : Asks(p, r, Top(p).agent)
    BY <1>2 DEF Arrives
  <2> QED
    BY <1>1, <2>1, <2>2, StoreRests, AsksKeeps
<1>3. CASE TravelStep(p)
  BY <1>1, <1>3, RowSelectedKeeps, LookedKeeps, UpdateStepKeeps DEF TravelStep
<1>4. ASSUME ~ Arrives(p), ~ TravelStep(p) PROVE UNCHANGED storeVars
  <2>1. CASE LLMFails(p) \/ RoundEnds(p) \/ \E reply \in Replies : LLMReplies(p, reply)
    BY <2>1 DEF LLMFails, RoundEnds, LLMReplies
  <2>2. CASE Malformed(p) \/ OtherTool(p) \/ MessageRefused(p) \/ MessageSent(p)
    BY <2>2 DEF Malformed, OtherTool, MessageRefused, MessageSent
  <2>3. CASE TravelRefused(p) \/ TravelStarts(p)
    BY <2>3 DEF TravelRefused, TravelStarts
  <2> QED
    BY <1>4, <2>1, <2>2, <2>3 DEF StrandStep
<1> QED
  BY <1>2, <1>3, <1>4, StoreRests

LEMMA StoreSteps ==
    ASSUME StackInv, StoreInv, [Next]_vars
    PROVE  StoreInv'
<1>1. ASSUME NEW c \in Clients, ClientStep(c) PROVE StoreInv'
  BY <1>1, ClientStore
<1>2. ASSUME NEW s \in Sessions,
             Lists(s) \/ Cleanup(s) \/ Purged(s) \/ \E a \in Participants[s] : Joins(s, a)
      PROVE  StoreInv'
  <2>1. UNCHANGED storeVars
    BY <1>2 DEF Lists, Cleanup, Purged, Joins
  <2> QED
    BY <2>1, StoreRests
<1>3. ASSUME NEW p \in Strands, NEW a \in AgentIds, Prompt(p, a) PROVE StoreInv'
  <2>1. UNCHANGED storeVars
    BY <1>3 DEF Prompt
  <2> QED
    BY <2>1, StoreRests
<1>4. ASSUME NEW p \in Strands, StrandStep(p) PROVE StoreInv'
  BY <1>4, StrandStore
<1>5. ASSUME NEW p \in Strands, WaitEnds(p) PROVE StoreInv'
  <2>1. UNCHANGED storeVars
    BY <1>5 DEF WaitEnds
  <2> QED
    BY <2>1, StoreRests
<1>6. CASE UNCHANGED vars
  <2>1. UNCHANGED storeVars
    BY <1>6 DEF vars, storeVars
  <2> QED
    BY <2>1, StoreRests
<1> QED
  BY <1>1, <1>2, <1>3, <1>4, <1>5, <1>6 DEF Next

LEMMA StoreAlways == Spec => []StoreInv
<1>1. Init => StoreInv
  BY StoreInitial DEF Init
<1>2. StackInv /\ StoreInv /\ [Next]_vars => StoreInv'
  BY StoreSteps
<1> QED
  BY <1>1, <1>2, StacksAlways, PTL DEF Spec

\* An agent that no call is at work on is in memory exactly when it is in the
\* table, with the same realm access, unless calls on it overlapped, failed
\* where AgentService goes on, or took effect while it took them to have failed.
THEOREM KnownAgentsAreStored == Spec => []KnownIsStored
<1>1. StoreInv => KnownIsStored
  <2> SUFFICES ASSUME StoreInv, NEW a \in AgentIds, Settled(a)
               PROVE  /\ a \in Known <=> a \in Stored
                      /\ a \in Known => agents[a].realm = rows[a].realm /\ agents[a].grants = rows[a].grants
    BY DEF KnownIsStored
  <2>1. Match(a, agents, rows)
    BY DEF Settled, StoreInv, Quiet
  <2> QED
    BY <2>1 DEF Match, Same, Known, Stored
<1> QED
  BY <1>1, StoreAlways, PTL
===============================================================================
