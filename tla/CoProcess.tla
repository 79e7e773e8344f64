----------------------------- MODULE CoProcess ------------------------------
(***************************************************************************)
(* The evaluator as a co-process of the tests (tests/irrunner.py): one     *)
(* child is spawned and kept, and every run is a command written to its    *)
(* input and an answer read from its output, line by line up to a line     *)
(* with a dot.  All programs are passed in the same file, which the child  *)
(* remembers by its name until it is told to forget it.                    *)
(*                                                                         *)
(* The child is an external program; it is taken to do what the commands   *)
(* the tests send it ask for, and it may die at any moment.                *)
(***************************************************************************)
EXTENDS Integers, Sequences

CONSTANTS
  Programs,   \* programs the tests run
  Seeds,      \* initial contents they run them on
  PipeSize,   \* lines a pipe holds before a writer blocks
  Length      \* Length[p]: how many lines the report on p has

ASSUME LengthAssumption == Length \in [Programs -> Nat]

(* A line of the report on a run, and the report.                          *)
Line(p, s, i) == [p |-> p, s |-> s, i |-> i]
Report(p, s)  == [i \in 1 .. Length[p] |-> Line(p, s, i)]
Dot           == [i |-> 0]

NoProgram == "nothing"
Runs      == Programs \X Seeds
NoRun     == <<>>

VARIABLES
  pc,        \* of the tests: "idle", "check", "send", "read", "close", "wait", "over"
  want,      \* the run being observed
  command,   \* the command being exchanged, "forget" or "run"
  got,       \* the lines of its answer so far
  result,    \* what the last observe came to: none, a report, or "raised"
  file,      \* the program in the file
  toChild,   \* lines written and not read, in either direction
  toTests,
  child,     \* "up" or "dead"
  cache,     \* the program the child remembers for the file
  out        \* the lines the child has still to write

vars == <<pc, want, command, got, result, file, toChild, toTests, child, cache, out>>
testVars  == <<pc, want, command, got, result, file>>
childVars == <<child, cache, out>>

Init ==
  /\ pc = "idle" /\ want = NoRun /\ command = "forget" /\ got = <<>> /\ result = <<"none">>
  /\ file = NoProgram /\ toChild = <<>> /\ toTests = <<>>
  /\ child = "up" /\ cache = NoProgram /\ out = <<>>

-----------------------------------------------------------------------------
(* The tests: observe, and _command twice.                                 *)

Observe_Remembered(run) ==   \* mutant
  /\ pc = "idle"
  /\ want' = run /\ file' = run[1]
  /\ command' = "run" /\ pc' = "check"
  /\ got' = <<>> /\ result' = <<"none">>
  /\ UNCHANGED <<toChild, toTests, childVars>>
Observe(run) ==
  /\ pc = "idle"
  /\ want' = run /\ file' = run[1]
  /\ command' = "forget" /\ pc' = "check"
  /\ got' = <<>> /\ result' = <<"none">>
  /\ UNCHANGED <<toChild, toTests, childVars>>

Raise ==
  /\ pc' = "idle" /\ result' = <<"raised">>
  /\ UNCHANGED <<want, command, got, file, toChild, toTests, childVars>>

(* The child is polled before a command is written to it ...               *)
Poll ==
  /\ pc = "check"
  /\ IF child = "dead" THEN Raise
     ELSE pc' = "send" /\ UNCHANGED <<want, command, got, result, file, toChild, toTests, childVars>>

(* ... and may have died in between, which breaks the pipe.                *)
Send ==
  /\ pc = "send"
  /\ IF child = "dead" THEN Raise
     ELSE /\ toChild' = Append(toChild, <<command, want[2]>>)
          /\ got' = <<>> /\ pc' = "read"
          /\ UNCHANGED <<want, command, result, file, toTests, childVars>>

ReadLine_One ==   \* mutant
  /\ pc = "read" /\ toTests # <<>> /\ Head(toTests).i # 0
  /\ got' = Append(got, Head(toTests)) /\ toTests' = Tail(toTests)
  /\ pc' = IF Len(got) = 0 THEN "read" ELSE "idle"
  /\ UNCHANGED <<want, command, result, file, toChild, childVars>>
ReadLine ==
  /\ pc = "read" /\ toTests # <<>> /\ Head(toTests).i # 0
  /\ got' = Append(got, Head(toTests)) /\ toTests' = Tail(toTests)
  /\ UNCHANGED <<pc, want, command, result, file, toChild, childVars>>

ReadDot ==
  /\ pc = "read" /\ toTests # <<>> /\ Head(toTests).i = 0
  /\ toTests' = Tail(toTests)
  /\ IF command = "forget"
     THEN command' = "run" /\ pc' = "check" /\ UNCHANGED result
     ELSE pc' = "idle" /\ result' = <<"report", got>> /\ UNCHANGED command
  /\ UNCHANGED <<want, got, file, toChild, childVars>>

(* readline gives the empty string once the child is gone and its pipe is  *)
(* drained.                                                                *)
ReadEnd_Loops == FALSE   \* mutant
ReadEnd_AsDot ==   \* mutant
  /\ pc = "read" /\ toTests = <<>> /\ child = "dead"
  /\ pc' = "idle" /\ result' = <<"report", got>>
  /\ UNCHANGED <<want, command, got, file, toChild, toTests, childVars>>
ReadEnd ==
  /\ pc = "read" /\ toTests = <<>> /\ child = "dead"
  /\ Raise

(* The end of the tests, which may come in the middle of a command: close  *)
(* asks the child to quit, gives it five seconds, and kills it.            *)
Finish ==
  /\ pc \in {"idle", "check", "send", "read"}
  /\ pc' = "close"
  /\ UNCHANGED <<want, command, got, result, file, toChild, toTests, childVars>>

Close ==
  /\ pc = "close"
  /\ IF child = "dead" THEN pc' = "over" /\ UNCHANGED toChild
     ELSE pc' = "wait" /\ toChild' = Append(toChild, <<"quit">>)
  /\ UNCHANGED <<want, command, got, result, file, toTests, childVars>>

Waited ==
  /\ pc = "wait" /\ child = "dead"
  /\ pc' = "over"
  /\ UNCHANGED <<want, command, got, result, file, toChild, toTests, childVars>>

TimedOut_Left ==   \* mutant
  /\ pc = "wait" /\ child = "up"
  /\ pc' = "over" /\ child' = "up"
  /\ UNCHANGED <<want, command, got, result, file, toChild, toTests, cache, out>>
TimedOut ==
  /\ pc = "wait" /\ child = "up"
  /\ pc' = "over" /\ child' = "dead"
  /\ UNCHANGED <<want, command, got, result, file, toChild, toTests, cache, out>>

-----------------------------------------------------------------------------
(* The child.                                                              *)

Forget ==
  /\ child = "up" /\ out = <<>> /\ toChild # <<>> /\ Head(toChild)[1] = "forget"
  /\ toChild' = Tail(toChild)
  /\ cache' = NoProgram /\ out' = <<Dot>>
  /\ UNCHANGED <<testVars, toTests, child>>

Run ==
  /\ child = "up" /\ out = <<>> /\ toChild # <<>> /\ Head(toChild)[1] = "run"
  /\ toChild' = Tail(toChild)
  /\ LET p == IF cache = NoProgram THEN file ELSE cache
     IN  cache' = p /\ out' = Append(Report(p, Head(toChild)[2]), Dot)
  /\ UNCHANGED <<testVars, toTests, child>>

Quit ==
  /\ child = "up" /\ out = <<>> /\ toChild # <<>> /\ Head(toChild)[1] = "quit"
  /\ child' = "dead" /\ toChild' = Tail(toChild)
  /\ UNCHANGED <<testVars, toTests, cache, out>>

(* A full pipe blocks the child.                                           *)
WriteLine ==
  /\ child = "up" /\ out # <<>> /\ Len(toTests) < PipeSize
  /\ toTests' = Append(toTests, Head(out)) /\ out' = Tail(out)
  /\ UNCHANGED <<testVars, toChild, child, cache>>

Die ==
  /\ child = "up"
  /\ child' = "dead"
  /\ UNCHANGED <<testVars, toChild, toTests, cache, out>>

-----------------------------------------------------------------------------
Step  == Poll \/ Send \/ ReadLine \/ ReadDot \/ ReadEnd \/ Close \/ Waited
Child == Forget \/ Run \/ Quit \/ WriteLine
Next  == (\E run \in Runs : Observe(run)) \/ Step \/ Finish \/ TimedOut \/ Child \/ Die
Spec  == Init /\ [][Next]_vars
(* The tests go on with what they do, the child answers what it is asked,  *)
(* and a timeout expires.  Nobody has to start a run or to die.            *)
LiveSpec == Spec /\ WF_vars(Step) /\ WF_vars(Child) /\ WF_vars(TimedOut)

-----------------------------------------------------------------------------
(* observe returns the whole report on the program and the contents it was *)
(* given, or raises: never the report on the program before it, which was  *)
(* in the same file, and never what a dying child had written so far.      *)
ReportRight ==
  result[1] = "report" => result[2] = Report(want[1], want[2])

(* When a command is written nothing of an earlier answer is under way: a  *)
(* leftover line would be read as this command's.                          *)
InStep == pc \in {"idle", "check", "send"} /\ child = "up" => toTests = <<>> /\ out = <<>>

(* Every observe returns or raises, or the tests end.                      *)
Observed == pc = "check" ~> pc \in {"idle", "over"}

(* No child outlives the tests, not even one that is blocked in the middle *)
(* of an answer nobody reads.                                              *)
NoOrphan == pc = "close" ~> child = "dead"
=============================================================================
