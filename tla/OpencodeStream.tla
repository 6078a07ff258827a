--------------------------- MODULE OpencodeStream ---------------------------
(***************************************************************************)
(* What run_stream (agent/security_stream.py) makes of each of OpenCode's  *)
(* events.  Its state is a record; code is 0 until an event, the clock or  *)
(* the process ends it.                                                    *)
(* Token categories are summed: captured is what the steps reported,       *)
(* total their reported totals, known says that no step left one out.      *)
(***************************************************************************)
EXTENDS Integers

NoStream ==
  [ code |-> 0, timedOut |-> FALSE, captured |-> 0, total |-> {}, known |-> TRUE,
    starts |-> 0, steps |-> 0, tools |-> 0, text |-> "", final |-> "" ]

Stopped(s, code) == [s EXCEPT !.code = code]
TimedOut(s) == [s EXCEPT !.code = 124, !.timedOut = TRUE]

Plus(total, n) == {n + m : m \in IF total = {} THEN {0} ELSE total}

\* A step starts: what was said before it is not the answer.
StepStart(s, limit) ==
  [s EXCEPT !.starts = @ + 1, !.text = "", !.final = "",
            !.code = IF s.starts + 1 > limit.steps THEN 124 ELSE 0]

\* Texts of one step are joined before they are parsed: two do not parse.
Said(s, text) ==
  [s EXCEPT !.text = IF @ = "" THEN text
                     ELSE IF "refusal" \in {@, text} THEN "refusal" ELSE "junk"]

ToolUseOneMore(s, allowed, limit) ==
  [s EXCEPT !.tools = @ + 1,
            !.code = IF ~allowed THEN 4 ELSE IF s.tools > limit.steps THEN 124 ELSE 0]

\* A tool call: forbidden or unsuccessful, one too many, or fine.
ToolUse(s, allowed, limit) ==
  [s EXCEPT !.tools = @ + 1,
            !.code = IF ~allowed THEN 4 ELSE IF s.tools + 1 > limit.steps THEN 124 ELSE 0]

\* A step ends and reports in input and out output tokens, and a total; total
\* is {} when the step leaves a category out.
StepFinish(s, in, out, total, reason, limit) ==
  LET consistent == \A n \in total : n >= in + out
      captured == s.captured + in + out
      totals == IF total = {} THEN s.total
                ELSE Plus(s.total, CHOOSE n \in total : TRUE)
      over == \/ captured > limit.tokens \/ \E n \in totals : n > limit.tokens
              \/ in > limit.context \/ out > limit.output
              \/ s.steps + 1 > limit.steps
  IN [s EXCEPT !.steps = @ + 1, !.captured = captured, !.total = totals,
               !.known = @ /\ total # {} /\ consistent, !.final = reason,
               !.code = IF over THEN 124 ELSE IF consistent THEN 0 ELSE 4]

\* An event that is not one: counters read before the bad one are kept.
Malformed(s, in) == [s EXCEPT !.captured = @ + in, !.code = 4]

EndedByStatus(s, rc) ==
  [s EXCEPT !.code = IF rc # 0 \/ s.steps = 0 THEN 4 ELSE 0]

\* The process closed its output and ended with status rc.
Ended(s, rc) ==
  [s EXCEPT !.code = IF \/ rc # 0 \/ ~s.known \/ s.steps = 0
                        \/ s.starts # s.steps \/ s.final # "stop"
                     THEN 4 ELSE 0]

\* The total is published only when every step reported in full.
Published(s) == IF s.known THEN s.total ELSE {}

=============================================================================
