--------------------------- MODULE RecorderOutput ---------------------------
(***************************************************************************)
(* How record() of src/src/embedded_recorder.hpp takes the recorder's       *)
(* output: line by line while it runs, stdout and stderr together, then a   *)
(* last line that has no end, then the exit code.                           *)
(*                                                                         *)
(* A line is the set of what matters in it: "json", and if it is an object  *)
(* "status" (a string), "step", "ok" and "error".                           *)
(***************************************************************************)
EXTENDS Integers, Sequences, FiniteSets

\* What record() returns, and which lines it has passed on as a status.
Answer(kind, line, shown) == [kind |-> kind, line |-> line, shown |-> shown]

IsStatus(line) == "status" \in line
IsOk(line) == "ok" \in line
IsError(line) == "error" \in line /\ ~IsOk(line)

\* After the last line.  An error in it is found only if it has no ok; a status
\* in it is not looked for.  Afterwards only a result counts: exit codes tell
\* which error a run without a result is.
AtEnd(last, exit, ok, shown) ==
  IF IsError(last) THEN Answer("error", last, shown)
  ELSE LET result == IF IsOk(last) THEN last ELSE ok
       IN IF result # {} THEN Answer("result", result, shown)
          ELSE Answer(IF exit # 0 THEN "exited" ELSE "empty", {}, shown)

Nothing == [ok |-> {}, error |-> {}, shown |-> <<>>]
Show(r, line) == [r EXCEPT !.shown = @ \o (IF "step" \in line THEN <<line>> ELSE <<>>)]

\* Wrong on purpose: an error is passed over like any other line.
TakeOn(r, line) ==
  IF IsStatus(line) THEN Show(r, line)
  ELSE IF IsOk(line) THEN [r EXCEPT !.ok = line]
  ELSE r

\* A line is a status, else a result, else an error, else nothing: an error ends
\* the recording at once, of the results the last one counts.
Take(r, line) ==
  IF r.error # {} THEN r
  ELSE IF IsStatus(line) THEN Show(r, line)
  ELSE IF IsOk(line) THEN [r EXCEPT !.ok = line]
  ELSE IF IsError(line) THEN [r EXCEPT !.error = line]
  ELSE r

Taken(lines) ==
  LET after[n \in 0..Len(lines)] == IF n = 0 THEN Nothing ELSE Take(after[n - 1], lines[n])
  IN after[Len(lines)]

Recorded(lines, last, exit) ==
  LET r == Taken(lines)
  IN IF r.error # {} THEN Answer("error", r.error, r.shown)
     ELSE AtEnd(last, exit, r.ok, r.shown)

-----------------------------------------------------------------------------
(* The lines that are errors, results, and steps before all errors.         *)
Errors(lines) == {i \in DOMAIN lines : ~IsStatus(lines[i]) /\ IsError(lines[i])}
Results(lines) == {i \in DOMAIN lines : ~IsStatus(lines[i]) /\ IsOk(lines[i])}
Steps(lines) == {i \in DOMAIN lines : /\ {"status", "step"} \subseteq lines[i]
                                      /\ \A j \in Errors(lines) : i < j}

(* The answer is a result only if no line was an error, and then it is the  *)
(* last result; it is an error only if some line was, the first; and a      *)
(* client is shown every step that came before, and none that came after.   *)
AnswerRight(lines, last, exit) ==
  LET answer == Recorded(lines, last, exit)
  IN /\ answer.kind = "error" <=> Errors(lines) # {} \/ IsError(last)
     /\ answer.kind = "error" =>
          IF Errors(lines) = {} THEN answer.line = last
          ELSE \E i \in Errors(lines) :
                 answer.line = lines[i] /\ \A j \in Errors(lines) : i <= j
     /\ answer.kind = "result" =>
          IF IsOk(last) THEN answer.line = last
          ELSE \E i \in Results(lines) :
                 answer.line = lines[i] /\ \A j \in Results(lines) : j <= i
     /\ answer.kind \in {"exited", "empty"} => Results(lines) = {} /\ ~IsOk(last)
     /\ Len(answer.shown) = Cardinality(Steps(lines))
=============================================================================
