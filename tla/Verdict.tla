------------------------------ MODULE Verdict ------------------------------
(***************************************************************************)
(* How src/src/verify.rs turns the run of a backend's process into a       *)
(* verdict.  A line of output stands for every line that the code cannot   *)
(* tell from it:                                                           *)
(*   "sat", "unsat", "unknown"  an answer of Z3 on a line of its own;      *)
(*   "no core"                  Z3's error `unsat core is not available`;  *)
(*   "blank"                    a line of white space;                     *)
(*   "x", "y"                   any two other lines.                       *)
(* The last line of a stream may lack its newline, when the process is     *)
(* killed or prints none (cut).  Z3 prints no blank lines.                 *)
(***************************************************************************)
EXTENDS Integers, Sequences, FiniteSets

CONSTANT MaxLines   \* bound: lines a process prints on either stream

ASSUME BoundAssumption == MaxLines \in Nat

VARIABLES
    backend,   \* VerifierBackend
    expected,  \* its expected_output, for the sandbox
    stdout, stderr,
    verdict    \* VerificationResult::success, once the process has ended

vars == <<backend, expected, stdout, stderr, verdict>>

\* What the processes print on either stream; on stderr anything else as well.
Lines == [lean4 |-> {"x", "y"},
          z3 |-> {"sat", "unsat", "unknown", "no core"},
          sandbox |-> {"blank", "x", "y"}]

Occurs(l, s) == \E i \in 1..Len(s) : s[i] = l

-----------------------------------------------------------------------------
(* parse_z3_result: two searches in the text of both streams, one after    *)
(* the other.  A cut line of stdout goes on with the first of stderr.      *)

\* `contains("unsat")`: the answer has it, and so has the error message.
HasUnsat(s) == Occurs("unsat", s) \/ Occurs("no core", s)

\* `contains("sat\n")`: the end of either answer, with its newline.
HasSatLine(s, isCut) ==
    \E i \in 1..Len(s) : s[i] \in {"sat", "unsat"} /\ ~(isCut /\ i = Len(s))

\* The comment after it (verify.rs:85) promises success on `unsat`; but a whole
\* line `unsat` ends in "sat\n", and is what Z3 answers when there is a proof.
JudgeZ3(cut) ==
    /\ HasUnsat(stdout \o stderr)
    /\ ~HasSatLine(stdout, "stdout" \in cut) /\ ~HasSatLine(stderr, "stderr" \in cut)

\* run_lean4: a clean exit, and nothing on stderr.
JudgeLean(exitOk) == exitOk /\ stderr = <<>>

\* Defect: only the end is trimmed.
TrimEnd(s) ==
    LET kept == {i \in 1..Len(s) : s[i] # "blank"}
        last == CHOOSE i \in kept : \A j \in kept : i >= j
    IN  IF kept = {} THEN <<>> ELSE SubSeq(s, 1, last)

\* str::trim, on lines.
Trim(s) ==
    LET kept == {i \in 1..Len(s) : s[i] # "blank"}
        first == CHOOSE i \in kept : \A j \in kept : i <= j
        last == CHOOSE i \in kept : \A j \in kept : i >= j
    IN  IF kept = {} THEN <<>> ELSE SubSeq(s, first, last)

\* run_sandbox: a clean exit, and the expected text but for its margins.
JudgeSandbox(exitOk) == exitOk /\ Trim(stdout) = Trim(expected)

Judge(exitOk, cut) ==
    CASE backend = "lean4" -> JudgeLean(exitOk)
      [] backend = "z3" -> JudgeZ3(cut)
      [] backend = "sandbox" -> JudgeSandbox(exitOk)

-----------------------------------------------------------------------------
Init ==
    /\ backend \in DOMAIN Lines
    /\ expected \in IF backend = "sandbox"
                    THEN {<<>>, <<"x">>, <<"x", "blank", "y", "blank">>}
                    ELSE {<<>>}
    /\ stdout = <<>> /\ stderr = <<>>
    /\ verdict = "pending"

Output ==
    /\ verdict = "pending" /\ Len(stdout) < MaxLines
    /\ \E l \in Lines[backend] : stdout' = Append(stdout, l)
    /\ UNCHANGED <<backend, expected, stderr, verdict>>

Complain ==
    /\ verdict = "pending" /\ Len(stderr) < MaxLines
    /\ \E l \in Lines[backend] \cup {"x", "y"} : stderr' = Append(stderr, l)
    /\ UNCHANGED <<backend, expected, stdout, verdict>>

Exit ==
    /\ verdict = "pending"
    /\ \E exitOk \in BOOLEAN, cut \in SUBSET {"stdout", "stderr"} :
          verdict' = IF Judge(exitOk, cut) THEN "success" ELSE "failure"
    /\ UNCHANGED <<backend, expected, stdout, stderr>>

Next == Output \/ Complain \/ Exit

Spec == Init /\ [][Next]_vars

-----------------------------------------------------------------------------
(* Properties.                                                             *)

\* The sandbox accepts an output exactly when it is the expected one between
\* two margins of white space, and the process may complain as it likes.
SameButForMargins(s, t) ==
    \E a, b \in 0..Len(s), c, d \in 0..Len(t) :
        /\ \A i \in (1..a) \cup ((b + 1)..Len(s)) : s[i] = "blank"
        /\ \A i \in (1..c) \cup ((d + 1)..Len(t)) : t[i] = "blank"
        /\ SubSeq(s, a + 1, b) = SubSeq(t, c + 1, d)

SandboxComparesText ==
    backend = "sandbox" =>
        /\ verdict = "success" => SameButForMargins(stdout, expected)
        /\ SameButForMargins(stdout, expected) => JudgeSandbox(TRUE)
=============================================================================
