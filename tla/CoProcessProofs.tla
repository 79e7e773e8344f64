-------------------------- MODULE CoProcessProofs ---------------------------
(***************************************************************************)
(* Proofs about CoProcess, for all programs, lengths of reports and sizes  *)
(* of pipes.                                                               *)
(***************************************************************************)
EXTENDS CoProcess, SequenceTheorems, TLAPS

(* Every line but the last of an answer is numbered from 1; the last is a  *)
(* dot.                                                                    *)
Lines == [p : Programs, s : Seeds, i : Nat \ {0}] \cup {Dot}

(* What the child is to say to the command it was given.                   *)
Answer == IF command = "forget" THEN <<Dot>>
          ELSE Append(Report(want[1], want[2]), Dot)

Asked == /\ toChild = << <<command, want[2]>> >>
         /\ got = <<>> /\ toTests = <<>> /\ out = <<>>

(* The answer is spread over what was read, what is in the pipe and what   *)
(* is still to be written.                                                 *)
Answering == toChild = <<>> /\ got \o (toTests \o out) = Answer

Observing == pc \in {"check", "send", "read"}
Types ==
  /\ command \in {"forget", "run"} /\ child \in {"up", "dead"}
  /\ pc = "idle" \/ Observing =>
       got \in Seq(Lines) /\ toTests \in Seq(Lines) /\ out \in Seq(Lines)
  /\ Observing => want \in Runs /\ file = want[1]

(* ReportRight and InStep are not inductive: they follow from where the    *)
(* answer is while one is under way, and from the child having forgotten   *)
(* the last program before it is asked to run one.                         *)
Exchange ==
  /\ pc \in {"idle", "check", "send"} /\ child = "up" =>
       toChild = <<>> /\ toTests = <<>> /\ out = <<>>
  /\ pc = "read" => Asked \/ Answering
Forgotten ==
  \/ pc \in {"check", "send"} /\ command = "run"
  \/ pc = "read" /\ command = "run" /\ toChild # <<>>
  \/ pc = "read" /\ command = "forget" /\ toChild = <<>>
  => cache = NoProgram
CoInv == Types /\ Exchange /\ Forgotten /\ ReportRight

-----------------------------------------------------------------------------
(* Reading a line moves it from the front of the rest to the end of what   *)
(* was read.                                                               *)
LEMMA HeadMoves ==
  ASSUME NEW S, NEW s \in Seq(S), NEW t \in Seq(S), t # <<>>
  PROVE  Append(s, Head(t)) \o Tail(t) = s \o t
<1>1. Head(t) \in S /\ Tail(t) \in Seq(S) /\ <<Head(t)>> \in Seq(S)
  BY HeadTailProperties
<1>2. <<Head(t)>> \o Tail(t) = t
  <2> DEFINE u == <<Head(t)>> \o Tail(t)
  <2>1. u \in Seq(S) /\ Len(u) = Len(t)
    BY <1>1, ConcatProperties, HeadTailProperties, LenProperties, EmptySeq
  <2>2. \A i \in 1 .. Len(u) : u[i] = t[i]
    BY <1>1, <2>1, ConcatProperties, HeadTailProperties, LenProperties
  <2> QED
    BY <2>1, <2>2, SeqEqual
<1>3. Append(s, Head(t)) = s \o <<Head(t)>>
  BY <1>1, AppendIsConcat
<1> QED
  BY <1>1, <1>2, <1>3, ConcatAssociative

LEMMA HeadMovesBefore ==
  ASSUME NEW S, NEW s \in Seq(S), NEW t \in Seq(S), NEW u \in Seq(S), t # <<>>
  PROVE  Append(s, Head(t)) \o (Tail(t) \o u) = s \o (t \o u)
<1>1. Head(t) \in S /\ Tail(t) \in Seq(S) /\ Append(s, Head(t)) \in Seq(S)
  BY HeadTailProperties, AppendProperties
<1>2. Append(s, Head(t)) \o (Tail(t) \o u) = (Append(s, Head(t)) \o Tail(t)) \o u
  BY <1>1, ConcatAssociative
<1> QED
  BY <1>2, HeadMoves, ConcatAssociative, SMTT(60)

LEMMA HeadOfConcat ==
  ASSUME NEW S, NEW t \in Seq(S), NEW u \in Seq(S), t # <<>>
  PROVE  /\ t \o u \in Seq(S) /\ t \o u # <<>>
         /\ Head(t \o u) = Head(t) /\ Tail(t \o u) = Tail(t) \o u
<1>1. /\ Len(t) \in Nat \ {0} /\ Len(u) \in Nat
      /\ t \o u \in Seq(S) /\ Len(t \o u) = Len(t) + Len(u)
  BY EmptySeq, LenProperties, ConcatProperties
<1>2. t \o u # <<>>
  BY <1>1, EmptySeq
<1>3. Head(t \o u) = Head(t)
  BY <1>1, ConcatProperties
<1>4. Tail(t) \in Seq(S) /\ Len(Tail(t)) = Len(t) - 1
  BY HeadTailProperties
<1>5. /\ Tail(t \o u) \in Seq(S) /\ Len(Tail(t \o u)) = Len(t) + Len(u) - 1
      /\ Tail(t) \o u \in Seq(S) /\ Len(Tail(t) \o u) = Len(t) + Len(u) - 1
  BY <1>1, <1>2, <1>4, HeadTailProperties, ConcatProperties
<1>6. ASSUME NEW i \in 1 .. Len(t) + Len(u) - 1
      PROVE  Tail(t \o u)[i] = (Tail(t) \o u)[i]
  <2>1. Tail(t \o u)[i] = (t \o u)[i + 1]
    BY <1>1, <1>2, <1>5, HeadTailProperties
  <2>2. i + 1 \in 1 .. Len(t) + Len(u)
    BY <1>1
  <2>3. (t \o u)[i + 1] = IF i + 1 <= Len(t) THEN t[i + 1] ELSE u[i + 1 - Len(t)]
    BY <2>2, ConcatProperties
  <2>4. (Tail(t) \o u)[i] = IF i <= Len(t) - 1 THEN Tail(t)[i] ELSE u[i - (Len(t) - 1)]
    BY <1>1, <1>4, ConcatProperties
  <2>5. i <= Len(t) - 1 => Tail(t)[i] = t[i + 1]
    BY <1>1, <1>4, HeadTailProperties
  <2> QED
    BY <1>1, <2>1, <2>3, <2>4, <2>5
<1> QED
  BY <1>1, <1>2, <1>3, <1>5, <1>6, SeqEqual

(* A report is lines that are no dot.                                      *)
LEMMA ReportType ==
  ASSUME NEW p \in Programs, NEW s \in Seeds
  PROVE  /\ Report(p, s) \in Seq(Lines)
         /\ Append(Report(p, s), Dot) \in Seq(Lines)
         /\ \A k \in 1 .. Len(Report(p, s)) : Report(p, s)[k].i # 0
<1>1. Length[p] \in Nat
  BY LengthAssumption DEF LengthAssumption
<1>2. Report(p, s) \in [1 .. Length[p] -> Lines]
  BY <1>1 DEF Report, Line, Lines
<1>3. Report(p, s) \in Seq(Lines) /\ Len(Report(p, s)) = Length[p]
  BY <1>1, <1>2, SeqDef, LenProperties
<1>4. Dot \in Lines
  BY DEF Lines
<1>5. \A k \in 1 .. Length[p] : Report(p, s)[k].i = k
  BY <1>1 DEF Report, Line
<1> QED
  BY <1>1, <1>3, <1>4, <1>5, AppendProperties

LEMMA AnswerType ==
  ASSUME command \in {"forget", "run"}, want \in Runs
  PROVE  Answer \in Seq(Lines)
<1>1. <<Dot>> \in Seq(Lines)
  BY DEF Lines
<1> QED
  BY <1>1, ReportType DEF Answer, Runs

(* The dot is read when everything before it was, and nothing is left.     *)
LEMMA DotIsLast ==
  ASSUME NEW r \in Seq(Lines), \A k \in 1 .. Len(r) : r[k].i # 0,
         NEW g \in Seq(Lines), NEW x \in Seq(Lines), x # <<>>,
         g \o x = Append(r, Dot), Head(x).i = 0
  PROVE  g = r /\ Tail(x) = <<>>
<1>1. /\ Len(g) \in Nat /\ Len(x) \in Nat \ {0} /\ Len(r) \in Nat
      /\ Len(g) + Len(x) = Len(r) + 1
  <2>1. Dot \in Lines
    BY DEF Lines
  <2> QED
    BY <2>1, EmptySeq, LenProperties, ConcatProperties, AppendProperties
<1>2. \A k \in 1 .. Len(r) : (g \o x)[k] = r[k]
  <2>1. Dot \in Lines
    BY DEF Lines
  <2> QED
    BY <2>1, AppendProperties
<1>3. (g \o x)[Len(g) + 1] = Head(x)
  BY <1>1, ConcatProperties
<1>4. Len(g) = Len(r) /\ Len(x) = 1
  <2>1. ~(Len(g) + 1 \in 1 .. Len(r))
    BY <1>2, <1>3
  <2> DEFINE lg == Len(g)  lx == Len(x)  lr == Len(r)
  <2>2. lg \in Nat /\ lx \in Nat \ {0} /\ lr \in Nat /\ lg + lx = lr + 1 /\ ~(lg + 1 \in 1 .. lr)
    BY <1>1, <2>1
  <2> HIDE DEF lg, lx, lr
  <2>3. lg = lr /\ lx = 1
    BY <2>2
  <2> QED
    BY <2>3 DEF lg, lx, lr
<1>5. \A k \in 1 .. Len(g) : g[k] = (g \o x)[k]
  BY <1>1, ConcatProperties
<1>6. g = r
  BY <1>2, <1>4, <1>5, SeqEqual
<1>7. Tail(x) \in Seq(Lines) /\ Len(Tail(x)) = 0
  BY <1>4, HeadTailProperties
<1> QED
  BY <1>6, <1>7, EmptySeq

-----------------------------------------------------------------------------
LEMMA CoInit == Init => CoInv
<1> SUFFICES ASSUME Init PROVE CoInv
  OBVIOUS
<1>1. Types
  BY EmptySeq DEF Init, Types, Observing
<1> QED
  BY <1>1 DEF Init, CoInv, Exchange, Forgotten, ReportRight

LEMMA CoObserve ==
  ASSUME CoInv, NEW run \in Runs, Observe(run)
  PROVE  CoInv'
<1>1. Types'
  BY EmptySeq DEF CoInv, Observing, Types, Observe, childVars
<1> QED
  BY <1>1 DEF CoInv, Exchange, Forgotten, ReportRight, Observe, childVars

LEMMA CoRaise ==
  ASSUME CoInv, Observing, child = "dead", Raise
  PROVE  CoInv'
<1>1. Types'
  BY DEF CoInv, Observing, Types, Raise, childVars
<1>2. Exchange'
  BY DEF Exchange, Raise, childVars
<1>3. Forgotten' /\ ReportRight'
  BY DEF Forgotten, ReportRight, Raise
<1> QED
  BY <1>1, <1>2, <1>3 DEF CoInv

LEMMA CoPoll ==
  ASSUME CoInv, Poll
  PROVE  CoInv'
<1>1. CASE child = "dead"
  BY <1>1, CoRaise DEF Poll, Observing
<1>2. CASE child # "dead"
  <2> USE <1>2 DEF Poll, childVars
  <2>1. Types'
    BY DEF CoInv, Observing, Types
  <2>2. Exchange'
    BY DEF CoInv, Exchange
  <2>3. Forgotten' /\ ReportRight'
    BY DEF CoInv, Forgotten, ReportRight
  <2> QED
    BY <2>1, <2>2, <2>3 DEF CoInv
<1> QED
  BY <1>1, <1>2

LEMMA CoSend ==
  ASSUME CoInv, Send
  PROVE  CoInv'
<1>1. CASE child = "dead"
  BY <1>1, CoRaise DEF Send, Observing
<1>2. CASE child = "up"
  <2> USE <1>2 DEF Send, childVars
  <2>1. toChild = <<>> /\ toTests = <<>> /\ out = <<>>
    BY DEF CoInv, Exchange
  <2>2. Types'
    BY <2>1, EmptySeq DEF CoInv, Observing, Types
  <2>3. toChild' = << <<command, want[2]>> >>
    BY <2>1
  <2>4. Asked'
    BY <2>1, <2>3 DEF Asked
  <2>5. Forgotten' /\ ReportRight'
    BY <2>3 DEF CoInv, Types, Forgotten, ReportRight
  <2> QED
    BY <2>2, <2>4, <2>5 DEF CoInv, Exchange
<1> QED
  BY <1>1, <1>2 DEF CoInv, Types

(* A line can only be read while the answer to this command is under way.  *)
LEMMA Reading ==
  ASSUME CoInv, pc = "read", toTests # <<>>
  PROVE  Types /\ Observing /\ Answering
BY DEF CoInv, Exchange, Asked, Observing

LEMMA CoReadLine ==
  ASSUME CoInv, ReadLine
  PROVE  CoInv'
<1> USE DEF ReadLine, childVars
<1>1. Types /\ Observing /\ Answering
  BY Reading
<1>2. Types'
  BY <1>1, HeadTailProperties, AppendProperties DEF Types, Observing
<1>3. got' \o (toTests' \o out') = got \o (toTests \o out)
  BY <1>1, HeadMovesBefore DEF Types
<1>4. Answering'
  BY <1>1, <1>3 DEF Answering, Answer
<1>5. Forgotten' /\ ReportRight'
  BY DEF CoInv, Forgotten, ReportRight
<1> QED
  BY <1>2, <1>4, <1>5 DEF CoInv, Exchange

LEMMA CoReadDot ==
  ASSUME CoInv, ReadDot
  PROVE  CoInv'
<1> USE DEF ReadDot, childVars
<1>1. Types /\ Observing /\ Answering
  BY Reading
<1>2. got \in Seq(Lines) /\ toTests \in Seq(Lines) /\ out \in Seq(Lines) /\ toTests # <<>>
  BY <1>1 DEF Types
<1> DEFINE x == toTests \o out
<1>3. x \in Seq(Lines) /\ x # <<>> /\ Head(x).i = 0 /\ Tail(x) = Tail(toTests) \o out
  BY <1>2, HeadOfConcat
<1> HIDE DEF x
<1>4. Tail(toTests) \in Seq(Lines)
  BY <1>2, HeadTailProperties
<1>5. CASE command = "forget"
  <2> DEFINE r == <<>>
  <2>1. r \in Seq(Lines) /\ \A k \in 1 .. Len(r) : r[k].i # 0
    BY EmptySeq
  <2>2. got \o x = Append(r, Dot)
    BY <1>1, <1>5 DEF Answering, Answer, x
  <2> HIDE DEF r
  <2>3. Tail(x) = <<>>
    BY <1>2, <1>3, <2>1, <2>2, DotIsLast
  <2>4. toTests' = <<>> /\ out' = <<>>
    <3>1. Tail(toTests) \o out = <<>>
      BY <1>3, <2>3
    <3>2. Tail(toTests) = <<>> /\ out = <<>>
      BY <1>2, <1>4, <3>1, ConcatEqualIffEmpty
    <3> QED
      BY <3>2
  <2>5. cache = NoProgram /\ toChild = <<>>
    BY <1>1, <1>5 DEF CoInv, Forgotten, Answering
  <2>6. Types'
    BY <1>1, <1>2, <1>4, <1>5 DEF Types, Observing
  <2>7. Exchange' /\ Forgotten' /\ ReportRight'
    BY <1>5, <2>4, <2>5 DEF CoInv, Exchange, Forgotten, ReportRight
  <2> QED
    BY <2>6, <2>7 DEF CoInv
<1>6. CASE command = "run"
  <2> DEFINE r == Report(want[1], want[2])
  <2>1. r \in Seq(Lines) /\ \A k \in 1 .. Len(r) : r[k].i # 0
    BY <1>1, ReportType DEF Types, Runs
  <2>2. got \o x = Append(r, Dot)
    BY <1>1, <1>6 DEF Answering, Answer, x
  <2> HIDE DEF r
  <2>3. got = r /\ Tail(x) = <<>>
    BY <1>2, <1>3, <2>1, <2>2, DotIsLast
  <2>4. toTests' = <<>> /\ out' = <<>> /\ toChild' = <<>>
    <3>1. Tail(toTests) \o out = <<>>
      BY <1>3, <2>3
    <3>2. Tail(toTests) = <<>> /\ out = <<>>
      BY <1>2, <1>4, <3>1, ConcatEqualIffEmpty
    <3> QED
      BY <1>1, <3>2 DEF Answering
  <2>5. Types'
    BY <1>1, <1>2, <1>4, <1>6 DEF Types, Observing
  <2>6. ReportRight'
    BY <1>6, <2>3 DEF ReportRight, r
  <2>7. Exchange' /\ Forgotten'
    BY <1>6, <2>4 DEF Exchange, Forgotten
  <2> QED
    BY <2>5, <2>6, <2>7 DEF CoInv
<1> QED
  BY <1>1, <1>5, <1>6 DEF Types

LEMMA CoEnd ==
  ASSUME CoInv, Finish \/ Close \/ Waited \/ TimedOut
  PROVE  CoInv'
<1> USE DEF Finish, Close, Waited, TimedOut, childVars
<1>1. pc' \in {"close", "wait", "over"}
  OBVIOUS
<1>2. Types'
  BY <1>1 DEF CoInv, Types, Observing
<1>3. ReportRight'
  BY DEF CoInv, ReportRight
<1> QED
  BY <1>1, <1>2, <1>3 DEF CoInv, Exchange, Forgotten

-----------------------------------------------------------------------------
(* A step of the child.                                                    *)

(* A child that is up and has a command has it from the tests, and has not *)
(* answered it.                                                            *)
LEMMA Asking ==
  ASSUME CoInv, child = "up", toChild # <<>>, pc = "idle" \/ Observing
  PROVE  /\ pc = "read" /\ Asked
         /\ Head(toChild) = <<command, want[2]>> /\ Tail(toChild) = <<>>
<1>1. pc = "read" /\ Asked
  BY DEF CoInv, Exchange, Observing, Answering
<1> QED
  BY <1>1 DEF Asked

LEMMA EmptyBefore ==
  ASSUME NEW S, NEW s \in Seq(S)
  PROVE  <<>> \o (<<>> \o s) = s
BY ConcatEmptySeq

LEMMA CoForget ==
  ASSUME CoInv, Forget
  PROVE  CoInv'
<1> USE DEF Forget, testVars
<1>1. <<Dot>> \in Seq(Lines)
  BY DEF Lines
<1>2. Types'
  BY <1>1 DEF CoInv, Types, Observing
<1>3. ReportRight'
  BY DEF CoInv, ReportRight
<1>4. Forgotten'
  BY DEF CoInv, Forgotten
<1>5. Exchange'
  <2>1. CASE pc = "idle" \/ Observing
    <3>1. pc = "read" /\ Asked /\ command = "forget" /\ toChild' = <<>>
      BY <2>1, Asking
    <3>2. Answering'
      BY <1>1, <3>1, EmptyBefore DEF Answering, Answer, Asked
    <3> QED
      BY <3>1, <3>2 DEF Exchange
  <2>2. CASE ~(pc = "idle" \/ Observing)
    BY <2>2 DEF Exchange, Observing
  <2> QED
    BY <2>1, <2>2
<1> QED
  BY <1>2, <1>3, <1>4, <1>5 DEF CoInv

LEMMA CoRun ==
  ASSUME CoInv, Run
  PROVE  CoInv'
<1> USE DEF Run, testVars
<1>1. ReportRight'
  BY DEF CoInv, ReportRight
<1>2. CASE pc = "idle" \/ Observing
  <2>1. pc = "read" /\ Asked /\ command = "run" /\ toChild' = <<>> /\ Head(toChild)[2] = want[2]
    BY <1>2, Asking
  <2>2. cache = NoProgram /\ file = want[1] /\ want \in Runs
    BY <2>1 DEF CoInv, Forgotten, Types, Observing
  <2>3. out' = Answer
    BY <2>1, <2>2 DEF Answer
  <2>4. Answer \in Seq(Lines)
    BY <2>1, <2>2, AnswerType
  <2>5. Types'
    BY <2>3, <2>4 DEF CoInv, Types, Observing
  <2>6. Answering'
    <3>1. got' = <<>> /\ toTests' = <<>> /\ toChild' = <<>> /\ out' = Answer'
      BY <2>1, <2>3 DEF Asked, Answer
    <3> QED
      BY <2>3, <2>4, <3>1, EmptyBefore DEF Answering
  <2> QED
    BY <1>1, <2>1, <2>5, <2>6 DEF CoInv, Exchange, Forgotten
<1>3. CASE ~(pc = "idle" \/ Observing)
  BY <1>1, <1>3 DEF CoInv, Types, Exchange, Forgotten, Observing
<1> QED
  BY <1>2, <1>3

(* Only the end of the tests asks the child to quit.                       *)
LEMMA CoQuit ==
  ASSUME CoInv, Quit
  PROVE  CoInv'
<1> USE DEF Quit, testVars
<1>1. ~(pc = "idle" \/ Observing)
  BY Asking DEF CoInv, Types
<1> QED
  BY <1>1 DEF CoInv, Types, Exchange, Forgotten, Observing, ReportRight

LEMMA CoWriteLine ==
  ASSUME CoInv, WriteLine
  PROVE  CoInv'
<1> USE DEF WriteLine, testVars
<1>1. Forgotten' /\ ReportRight'
  BY DEF CoInv, Forgotten, ReportRight
<1>2. CASE pc = "idle" \/ Observing
  <2>1. pc = "read" /\ Answering /\ Types
    BY <1>2 DEF CoInv, Exchange, Observing, Asked
  <2>2. Types'
    BY <1>2, <2>1, HeadTailProperties, AppendProperties DEF Types, Observing
  <2>3. toTests' \o out' = toTests \o out
    BY <1>2, <2>1, HeadMoves DEF Types
  <2>4. Answering'
    BY <2>1, <2>3 DEF Answering, Answer
  <2> QED
    BY <1>1, <2>1, <2>2, <2>4 DEF CoInv, Exchange
<1>3. CASE ~(pc = "idle" \/ Observing)
  BY <1>1, <1>3 DEF CoInv, Types, Exchange, Observing
<1> QED
  BY <1>2, <1>3

LEMMA CoDie ==
  ASSUME CoInv, Die
  PROVE  CoInv'
<1> USE DEF Die, testVars
<1>1. Types' /\ Forgotten' /\ ReportRight'
  BY DEF CoInv, Types, Observing, Forgotten, ReportRight
<1>2. Exchange'
  BY DEF CoInv, Exchange, Asked, Answering, Answer
<1> QED
  BY <1>1, <1>2 DEF CoInv

LEMMA CoStep ==
  ASSUME CoInv, [Next]_vars
  PROVE  CoInv'
<1>1. ASSUME NEW run \in Runs, Observe(run) PROVE CoInv'
  BY <1>1, CoObserve
<1>2. CASE Step
  <2>1. ASSUME ReadEnd PROVE CoInv'
    BY <2>1, CoRaise DEF ReadEnd, Observing
  <2> QED
    BY <1>2, <2>1, CoPoll, CoSend, CoReadLine, CoReadDot, CoEnd DEF Step
<1>3. CASE Child
  BY <1>3, CoForget, CoRun, CoQuit, CoWriteLine DEF Child
<1>4. CASE UNCHANGED vars
  BY <1>4 DEF vars, CoInv, Types, Observing, Exchange, Asked, Answering, Answer,
              Forgotten, ReportRight
<1> QED
  BY <1>1, <1>2, <1>3, <1>4, CoEnd, CoDie DEF Next

(* In every reachable state the answer is where CoInv says it is: a line   *)
(* leaves the child, the pipe and the reader in one order (_command).      *)
THEOREM Inductive == Spec => []CoInv
BY CoInit, CoStep, PTL DEF Spec

(* observe returns the whole report on its own program and contents or     *)
(* raises, wherever the child dies and however little its pipes hold       *)
(* (irrunner.observe, _command).                                           *)
THEOREM ReportCorrect == Spec => []ReportRight
<1>1. CoInv => ReportRight
  BY DEF CoInv
<1> QED
  BY <1>1, Inductive, PTL

(* Nothing of an earlier answer is under way when a command is written     *)
(* (_command).                                                             *)
THEOREM StaysInStep == Spec => []InStep
<1>1. CoInv => InStep
  BY DEF CoInv, Exchange, InStep
<1> QED
  BY <1>1, Inductive, PTL
=============================================================================
