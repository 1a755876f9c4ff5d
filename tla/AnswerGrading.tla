---------------------------- MODULE AnswerGrading ----------------------------
(***************************************************************************)
(* The questions that are graded without running anything: choices         *)
(* (choice.cpp) and the expected output of a program (program_output.cpp). *)
(* Grades are integers that count Unit-ths of a point.                     *)
(***************************************************************************)
EXTENDS Integers, Sequences, FiniteSets, FiniteSetsExt

CONSTANTS
  Unit,            \* as in CourseTasks
  MaxLength        \* longer answers are not compared (5000 in the code)

-----------------------------------------------------------------------------
(* Choices.  A set of choices is a mask of 64 bits.  1 << choice is an int *)
(* that is widened with its sign, so that choice 31 sets bits 31 .. 63;    *)
(* from 32 on the shift is undefined, and such choices are left out.       *)

Choice == 0 .. 31

Bits(choice) == IF choice = 31 THEN 31 .. 63 ELSE { choice }

Mask(answer) == UNION { Bits(choice) : choice \in answer }

\* Mutation: the order of the two comparisons is swapped.
ChoiceGradeSwapped(q) ==
  LET ans == Mask(q.student)
      std == Mask(q.standard)
  IN  IF ans \cap std = ans THEN q.half ELSE IF ans = std THEN q.full ELSE 0

ChoiceGrade(q) ==
  LET ans == Mask(q.student)
      std == Mask(q.standard)
  IN  CASE ans = std -> q.full
        [] ans # std /\ ans \cap std = ans -> q.half
        [] OTHER -> 0

-----------------------------------------------------------------------------
(* The output of a program.  Strings are sequences of characters; " " and  *)
(* "\n" do not count.                                                      *)

Stripped(s) ==
  LET kept[n \in 0 .. Len(s)] ==
        IF n = 0 THEN << >>
        ELSE IF s[n] \in { " ", "\n" } THEN kept[n - 1] ELSE Append(kept[n - 1], s[n])
  IN  kept[Len(s)]

\* The edit distance, row by row; two strings one of which is too long are as
\* good as equal.  (The table is an array on the stack, of up to 200 MB for strings of
\* 5000 characters, whatever its comment says; that it may not fit is not modelled.)
Distance(s, t) ==
  LET d[p \in (0 .. Len(s)) \X (0 .. Len(t))] ==
        LET i == p[1]
            j == p[2]
        IN  IF i = 0 THEN j
            ELSE IF j = 0 THEN i
            ELSE Min({ d[<<i - 1, j>>] + 1, d[<<i, j - 1>>] + 1,
                       d[<<i - 1, j - 1>>] + IF s[i] = t[j] THEN 0 ELSE 1 })
  IN  IF Len(s) > MaxLength \/ Len(t) > MaxLength THEN 0 ELSE d[<<Len(s), Len(t)>>]

Longest(s, t) == IF Len(s) > Len(t) THEN Len(s) ELSE Len(t)

\* The share of the full grade that the similarity leaves.  Two empty strings
\* divide by zero; the problems ask for some output.
OutputGrade(q) ==
  LET s == Stripped(q.standard)
      t == Stripped(q.student)
  IN  (q.full * (Longest(s, t) - Distance(s, t))) \div Longest(s, t)

-----------------------------------------------------------------------------
(* What the two grades should be, from the description of the questions.   *)

\* Full for the right set; half for some of the right choices and no wrong one.
ChoiceDefined(right, chosen, full, half) ==
  CASE chosen = right -> full
    [] chosen # {} /\ chosen \subseteq right /\ chosen # right -> half
    [] OTHER -> 0

\* The edit distance without recursion: the cheapest way to pair some characters
\* in order and to insert or delete the others.
Alignments(s, t) ==
  { M \in SUBSET ((1 .. Len(s)) \X (1 .. Len(t))) :
      \A p, q \in M : p # q => (p[1] < q[1] /\ p[2] < q[2]) \/ (q[1] < p[1] /\ q[2] < p[2]) }

LeastEdits(s, t) ==
  Min({ Len(s) + Len(t) - 2 * Cardinality(M)
          + Cardinality({ p \in M : s[p[1]] # t[p[2]] }) : M \in Alignments(s, t) })
=============================================================================
