-------------------------- MODULE CourseGradingProofs --------------------------
(***************************************************************************)
(* Theorems of CourseGrading, with their proofs, for any configs of the    *)
(* problems and any verdicts of the checks.                                *)
(*                                                                         *)
(* First the tasks the two servers build: whatever is configured, they are *)
(* a compilation, tests that depend on it and memory checks that depend on *)
(* the standard tests (Shape).  Then the calls of process() and the        *)
(* reports they leave, the grades of choices and outputs - the edit        *)
(* distance, the bits of a choice, the sums -, what a failure takes from a *)
(* sum of rounded scores, the invariants, and the complete report.         *)
(***************************************************************************)
EXTENDS CourseGrading, FiniteSetTheorems, SequenceTheorems, WellFoundedInduction, TLAPS

-----------------------------------------------------------------------------
(* The tasks that are built.                                               *)

Script == { "compile", "standard", "standard-trusted", "static" }

TaskRecord ==
  [ check_type : CheckType, check_script : Script, score : Int, depends_on : Int,
    depends_cond : { "ACCEPTED" }, is_random : BOOLEAN, testcase_id : Int ]

\* A task may depend on the compilation or on a standard test.
Parent == { "compile", "standard" }

\* The task depends on one of the list before it.
Follows(before, task) ==
  /\ task \in TaskRecord /\ task.check_type # "compile" /\ task.check_script # "compile"
  /\ task.depends_on \in 0 .. Len(before) - 1
  /\ before[task.depends_on + 1].check_type \in Parent

\* The lists that from_json_programming makes, numbered from 1.
Listed(q) ==
  /\ q \in Seq(TaskRecord) /\ Len(q) >= 1
  /\ q[1].check_type = "compile" /\ q[1].check_script = "compile" /\ q[1].depends_on = -1
  /\ \A i \in 2 .. Len(q) :
       /\ q[i].check_type # "compile" /\ q[i].check_script # "compile"
       /\ q[i].depends_on \in 0 .. i - 2
       /\ q[q[i].depends_on + 1].check_type \in Parent

Without(q, type) == \A i \in 1 .. Len(q) : q[i].check_type # type
One(q, type) ==
  \A i, j \in 1 .. Len(q) : q[i].check_type = type /\ q[j].check_type = type => i = j

\* A problem has one static check and one task of google tests at most.
OneEach(q) == One(q, "static") /\ One(q, "gtest")

\* The same, numbered from 0.
Shape(T) ==
  /\ \E n \in Nat \ {0} : DOMAIN T = 0 .. n - 1
  /\ \A i \in DOMAIN T : T[i] \in TaskRecord
  /\ T[0].check_type = "compile" /\ T[0].check_script = "compile" /\ T[0].depends_on = -1
  /\ \A i \in DOMAIN T \ {0} :
       /\ T[i].check_type # "compile" /\ T[i].check_script # "compile"
       /\ T[i].depends_on \in 0 .. i - 1
       /\ T[T[i].depends_on].check_type \in Parent
  /\ \A i, j \in DOMAIN T :
       T[i].check_type \in { "static", "gtest" } /\ T[j].check_type = T[i].check_type => i = j

LEMMA Concatenation ==
  ASSUME NEW X, NEW p \in Seq(X), NEW q \in Seq(X)
  PROVE  /\ p \o q \in Seq(X) /\ Len(p \o q) = Len(p) + Len(q)
         /\ Len(p) \in Nat /\ Len(q) \in Nat
         /\ \A i \in 1 .. Len(p) : (p \o q)[i] = p[i] /\ p[i] \in X
         /\ \A i \in 1 .. Len(q) : (p \o q)[Len(p) + i] = q[i] /\ q[i] \in X
         /\ \A i \in 1 .. Len(p) + Len(q) :
              i \in 1 .. Len(p) \/ \E k \in 1 .. Len(q) : i = Len(p) + k
<1>1. \A i \in 1 .. Len(p) + Len(q) :
        i \in 1 .. Len(p) \/ \E k \in 1 .. Len(q) : i = Len(p) + k
  <2>1. ASSUME NEW i \in 1 .. Len(p) + Len(q), i \notin 1 .. Len(p)
        PROVE  \E k \in 1 .. Len(q) : i = Len(p) + k
    <3>1. i - Len(p) \in 1 .. Len(q) /\ i = Len(p) + (i - Len(p))
      BY <2>1
    <3>. QED  BY <3>1
  <2>. QED  BY <2>1
<1>. QED  BY <1>1

\* Two lists of tasks, one after the other.
Joins(all, p, q) ==
  /\ all \in Seq(TaskRecord) /\ Len(all) = Len(p) + Len(q)
  /\ Len(p) \in Nat /\ Len(q) \in Nat
  /\ \A i \in 1 .. Len(p) : all[i] = p[i]
  /\ \A k \in 1 .. Len(q) : all[Len(p) + k] = q[k]
  /\ \A i \in 1 .. Len(p) + Len(q) :
       i \in 1 .. Len(p) \/ \E k \in 1 .. Len(q) : i = Len(p) + k

LEMMA Joined ==
  ASSUME NEW p \in Seq(TaskRecord), NEW q \in Seq(TaskRecord)
  PROVE  Joins(p \o q, p, q)
BY Concatenation DEF Joins

\* Tasks that depend on the tasks before them can be added.
LEMMA ListedMore ==
  ASSUME NEW q, Listed(q), NEW more \in Seq(TaskRecord),
         \A k \in 1 .. Len(more) : Follows(q, more[k])
  PROVE  Listed(q \o more)
<1>0. PICK all : all = q \o more
  OBVIOUS
<1>1. /\ all \in Seq(TaskRecord) /\ Len(all) = Len(q) + Len(more)
      /\ Len(q) \in Nat \ {0} /\ Len(more) \in Nat
      /\ \A i \in 1 .. Len(q) : all[i] = q[i]
      /\ \A i \in 1 .. Len(more) : all[Len(q) + i] = more[i]
      /\ \A i \in 1 .. Len(q) + Len(more) :
           i \in 1 .. Len(q) \/ \E k \in 1 .. Len(more) : i = Len(q) + k
  BY <1>0, Concatenation DEF Listed
<1>2. ASSUME NEW i \in 2 .. Len(all)
      PROVE  /\ all[i].check_type # "compile" /\ all[i].check_script # "compile"
             /\ all[i].depends_on \in 0 .. i - 2
             /\ all[all[i].depends_on + 1].check_type \in Parent
  <2>1. CASE i \in 1 .. Len(q)
    <3>1. /\ all[i] = q[i] /\ i \in 2 .. Len(q) /\ i \in Int
      BY <1>1, <2>1
    <3>2. /\ q[i].check_type # "compile" /\ q[i].check_script # "compile"
          /\ q[i].depends_on \in 0 .. i - 2
          /\ q[q[i].depends_on + 1].check_type \in Parent
      BY <3>1 DEF Listed
    <3>3. q[i].depends_on + 1 \in 1 .. Len(q)
      BY <1>1, <3>1, <3>2
    <3>. QED  BY <1>1, <3>1, <3>2, <3>3
  <2>2. CASE \E k \in 1 .. Len(more) : i = Len(q) + k
    <3>1. PICK k \in 1 .. Len(more) : i = Len(q) + k
      BY <2>2
    <3>2. all[i] = more[k] /\ Follows(q, more[k])
      BY <1>1, <3>1
    <3>3. PICK d : d = more[k].depends_on
      OBVIOUS
    <3>4. /\ d \in 0 .. Len(q) - 1 /\ q[d + 1].check_type \in Parent
          /\ more[k].check_type # "compile" /\ more[k].check_script # "compile"
      BY <3>2, <3>3 DEF Follows
    <3>5. d + 1 \in 1 .. Len(q) /\ d \in 0 .. i - 2
      BY <1>1, <3>1, <3>4
    <3>6. all[d + 1] = q[d + 1]
      BY <1>1, <3>5
    <3>. QED  BY <3>2, <3>3, <3>4, <3>5, <3>6
  <2>. QED  BY <1>1, <2>1, <2>2
<1>3. all[1] = q[1]
  BY <1>1
<1>4. Listed(all)
  BY <1>1, <1>2, <1>3 DEF Listed
<1>. QED  BY <1>0, <1>4

\* Of a type that only one of two lists has.
LEMMA WithoutBoth ==
  ASSUME NEW p \in Seq(TaskRecord), NEW q \in Seq(TaskRecord), NEW type,
         Without(p, type), Without(q, type)
  PROVE  Without(p \o q, type)
BY Concatenation DEF Without

LEMMA OneMore ==
  ASSUME NEW p \in Seq(TaskRecord), NEW q \in Seq(TaskRecord), NEW type,
         \/ One(p, type) /\ Without(q, type)
         \/ Without(p, type) /\ One(q, type)
  PROVE  One(p \o q, type)
<1>1. PICK all : all = p \o q
  OBVIOUS
<1>2. Joins(all, p, q)
  BY <1>1, Joined
<1>3. CASE One(p, type) /\ Without(q, type)
  <2>1. ASSUME NEW i \in 1 .. Len(all), all[i].check_type = type
        PROVE  i \in 1 .. Len(p) /\ p[i].check_type = type
    <3>1. CASE i \in 1 .. Len(p)
      BY <1>2, <2>1, <3>1 DEF Joins
    <3>2. CASE \E k \in 1 .. Len(q) : i = Len(p) + k
      BY <1>2, <1>3, <2>1, <3>2 DEF Joins, Without
    <3>. QED  BY <1>2, <3>1, <3>2 DEF Joins
  <2>. QED  BY <1>1, <1>3, <2>1 DEF One
<1>4. CASE Without(p, type) /\ One(q, type)
  <2>1. ASSUME NEW i \in 1 .. Len(all), all[i].check_type = type
        PROVE  \E k \in 1 .. Len(q) : i = Len(p) + k /\ q[k].check_type = type
    <3>1. i \notin 1 .. Len(p)
      BY <1>2, <1>4, <2>1 DEF Joins, Without
    <3>2. PICK k \in 1 .. Len(q) : i = Len(p) + k
      BY <1>2, <2>1, <3>1 DEF Joins
    <3>3. all[i] = q[k]
      BY <1>2, <3>2 DEF Joins
    <3>. QED  BY <2>1, <3>2, <3>3
  <2>2. ASSUME NEW i \in 1 .. Len(all), NEW j \in 1 .. Len(all),
               all[i].check_type = type, all[j].check_type = type
        PROVE  i = j
    <3>1. PICK k \in 1 .. Len(q) : i = Len(p) + k /\ q[k].check_type = type
      BY <2>1, <2>2
    <3>2. PICK l \in 1 .. Len(q) : j = Len(p) + l /\ q[l].check_type = type
      BY <2>1, <2>2
    <3>. QED  BY <1>4, <3>1, <3>2 DEF One
  <2>. QED  BY <1>1, <2>2 DEF One
<1>. QED  BY <1>3, <1>4

\* Tests of one type, which depend on the compilation.
Tests(q, type) ==
  /\ q \in Seq(TaskRecord)
  /\ \A k \in 1 .. Len(q) : /\ q[k].check_type = type /\ q[k].check_script # "compile"
                            /\ q[k].depends_on = 0

LEMMA ListedTests ==
  ASSUME NEW q, Listed(q), NEW more, NEW type, type # "compile", Tests(more, type)
  PROVE  Listed(q \o more)
<1>1. Len(q) \in Nat \ {0} /\ more \in Seq(TaskRecord)
  BY DEF Listed, Tests
<1>2. ASSUME NEW k \in 1 .. Len(more)
      PROVE  Follows(q, more[k])
  <2>1. more[k] \in TaskRecord
    BY <1>1
  <2>2. more[k].depends_on = 0 /\ q[0 + 1].check_type \in Parent
    BY DEF Listed, Tests, Parent
  <2>3. 0 \in 0 .. Len(q) - 1
    BY <1>1
  <2>. QED  BY <2>1, <2>2, <2>3 DEF Tests, Follows
<1>. QED  BY <1>1, <1>2, ListedMore

\* The standard tests of a list are the k-th to the l-th task, and numbered from 0.
Standards(q) == { i \in DOMAIN q : q[i].check_type = "standard" }
Block(q, m, n) ==
  /\ m \in Nat /\ n \in Nat
  /\ \A i \in 1 .. Len(q) : q[i].check_type = "standard" <=> i \in m + 1 .. m + n
  /\ \A k \in 1 .. n : m + k \in 1 .. Len(q) /\ q[m + k].testcase_id = k - 1

LEMMA BlockAdded ==
  ASSUME NEW p \in Seq(TaskRecord), Without(p, "standard"),
         NEW q, Tests(q, "standard"), \A k \in 1 .. Len(q) : q[k].testcase_id = k - 1
  PROVE  Block(p \o q, Len(p), Len(q))
<1>0. q \in Seq(TaskRecord)
  BY DEF Tests
<1>1. PICK all : all = p \o q
  OBVIOUS
<1>2. /\ Len(all) = Len(p) + Len(q) /\ Len(p) \in Nat /\ Len(q) \in Nat
      /\ \A i \in 1 .. Len(p) : all[i] = p[i]
      /\ \A k \in 1 .. Len(q) : all[Len(p) + k] = q[k]
      /\ \A i \in 1 .. Len(p) + Len(q) :
           i \in 1 .. Len(p) \/ \E k \in 1 .. Len(q) : i = Len(p) + k
  <2>1. Joins(p \o q, p, q)
    BY <1>0, Joined
  <2>2. Joins(all, p, q)
    BY <1>1, <2>1
  <2>. QED  BY <2>2 DEF Joins
<1>3. ASSUME NEW i \in 1 .. Len(all)
      PROVE  all[i].check_type = "standard" <=> i \in Len(p) + 1 .. Len(p) + Len(q)
  <2>1. CASE i \in 1 .. Len(p)
    <3>1. all[i].check_type # "standard"
      BY <1>2, <2>1 DEF Without
    <3>. QED  BY <1>2, <2>1, <3>1
  <2>2. CASE i \notin 1 .. Len(p)
    <3>1. PICK k \in 1 .. Len(q) : i = Len(p) + k
      BY <1>2, <2>2
    <3>2. all[i].check_type = "standard"
      BY <1>2, <3>1 DEF Tests
    <3>. QED  BY <1>2, <3>1, <3>2
  <2>. QED  BY <2>1, <2>2
<1>4. ASSUME NEW k \in 1 .. Len(q)
      PROVE  Len(p) + k \in 1 .. Len(all) /\ all[Len(p) + k].testcase_id = k - 1
  <2>1. Len(p) + k \in 1 .. Len(p) + Len(q)
    BY <1>2
  <2>2. all[Len(p) + k] = q[k]
    BY <1>2
  <2>. QED  BY <1>2, <2>1, <2>2
<1>5. Block(all, Len(p), Len(q))
  BY <1>2, <1>3, <1>4 DEF Block
<1>. QED  BY <1>1, <1>5

LEMMA BlockKept ==
  ASSUME NEW p \in Seq(TaskRecord), NEW m, NEW n, Block(p, m, n),
         NEW q \in Seq(TaskRecord), Without(q, "standard")
  PROVE  Block(p \o q, m, n)
<1>1. PICK all : all = p \o q
  OBVIOUS
<1>2. /\ Len(all) = Len(p) + Len(q) /\ Len(p) \in Nat /\ Len(q) \in Nat
      /\ \A i \in 1 .. Len(p) : all[i] = p[i]
      /\ \A k \in 1 .. Len(q) : all[Len(p) + k] = q[k]
      /\ \A i \in 1 .. Len(p) + Len(q) :
           i \in 1 .. Len(p) \/ \E k \in 1 .. Len(q) : i = Len(p) + k
  <2>1. Joins(p \o q, p, q)
    BY Joined
  <2>2. Joins(all, p, q)
    BY <1>1, <2>1
  <2>. QED  BY <2>2 DEF Joins
<1>3. m \in Nat /\ n \in Nat /\ \A k \in 1 .. n : m + k \in 1 .. Len(p)
  BY DEF Block
<1>4. ASSUME NEW i \in 1 .. Len(all)
      PROVE  all[i].check_type = "standard" <=> i \in m + 1 .. m + n
  <2>1. CASE i \in 1 .. Len(p)
    BY <1>2, <2>1 DEF Block
  <2>2. CASE i \notin 1 .. Len(p)
    <3>1. all[i].check_type # "standard"
      <4>1. PICK k \in 1 .. Len(q) : i = Len(p) + k
        BY <1>2, <2>2
      <4>. QED  BY <1>2, <4>1 DEF Without
    <3>2. ~ (i \in m + 1 .. m + n)
      <4>1. SUFFICES ASSUME i \in m + 1 .. m + n  PROVE FALSE
        OBVIOUS
      <4>2. i - m \in 1 .. n /\ m + (i - m) = i
        BY <1>3, <4>1
      <4>. QED  BY <1>3, <2>2, <4>2
    <3>. QED  BY <3>1, <3>2
  <2>. QED  BY <2>1, <2>2
<1>5. \A k \in 1 .. n : m + k \in 1 .. Len(all) /\ all[m + k].testcase_id = k - 1
  <2>1. ASSUME NEW k \in 1 .. n
        PROVE  m + k \in 1 .. Len(all) /\ all[m + k] = p[m + k]
    <3>1. m + k \in 1 .. Len(p)
      BY <1>3
    <3>. QED  BY <1>2, <3>1
  <2>. QED  BY <2>1 DEF Block
<1>6. Block(all, m, n)
  BY <1>3, <1>4, <1>5 DEF Block
<1>. QED  BY <1>1, <1>6

\* The tasks but for the memory checks.
LEMMA ListBuilt ==
  ASSUME NEW c \in TaskRecord, c.check_type = "compile", c.check_script = "compile",
         c.depends_on = -1,
         NEW R, Tests(R, "random"), NEW S, Tests(S, "standard"), NEW A, Tests(A, "static"),
         Len(A) <= 1, NEW G, Tests(G, "gtest"), Len(G) <= 1,
         \A k \in 1 .. Len(S) : S[k].testcase_id = k - 1,
         NEW before, before = << c >> \o R \o S \o A \o G
  PROVE  /\ Listed(before) /\ OneEach(before)
         /\ Block(before, Len(<< c >> \o R), Len(S))
<1>0. /\ R \in Seq(TaskRecord) /\ S \in Seq(TaskRecord) /\ A \in Seq(TaskRecord)
      /\ G \in Seq(TaskRecord)
  BY DEF Tests
<1>1. PICK p1 : p1 = << c >>
  OBVIOUS
<1>2. p1 \in Seq(TaskRecord) /\ Len(p1) = 1 /\ p1[1] = c
  BY <1>1
<1>3. Listed(p1)
  BY <1>2 DEF Listed
<1>4. PICK p2 : p2 = p1 \o R
  OBVIOUS
<1>5. PICK p3 : p3 = p2 \o S
  OBVIOUS
<1>6. PICK p4 : p4 = p3 \o A
  OBVIOUS
<1>7. before = p4 \o G
  BY <1>1, <1>4, <1>5, <1>6
<1>8. Listed(p2) /\ Listed(p3) /\ Listed(p4) /\ Listed(before)
  <2>1. Listed(p2)
    BY <1>3, <1>4, ListedTests
  <2>2. Listed(p3)
    BY <2>1, <1>5, ListedTests
  <2>3. Listed(p4)
    BY <2>2, <1>6, ListedTests
  <2>. QED  BY <2>1, <2>2, <2>3, <1>7, ListedTests
<1>9. p2 \in Seq(TaskRecord) /\ p3 \in Seq(TaskRecord) /\ p4 \in Seq(TaskRecord)
  BY <1>8 DEF Listed
<1>10. /\ \A type \in { "standard", "static", "gtest" } : Without(p1, type) /\ Without(R, type)
       /\ \A type \in { "static", "gtest" } : Without(S, type)
       /\ \A type \in { "standard", "gtest" } : Without(A, type)
       /\ \A type \in { "standard", "static" } : Without(G, type)
  <2>1. \A type \in { "standard", "static", "gtest" } : Without(p1, type)
    BY <1>2 DEF Without
  <2>2. \A type \in { "standard", "static", "gtest" } : Without(R, type)
    BY DEF Tests, Without
  <2>3. \A type \in { "static", "gtest" } : Without(S, type)
    BY DEF Tests, Without
  <2>4. \A type \in { "standard", "gtest" } : Without(A, type)
    BY DEF Tests, Without
  <2>5. \A type \in { "standard", "static" } : Without(G, type)
    BY DEF Tests, Without
  <2>. QED  BY <2>1, <2>2, <2>3, <2>4, <2>5
<1>11. ASSUME NEW type \in { "static", "gtest" }
       PROVE  Without(p3, type)
  <2>1. Without(p2, type)
    BY <1>0, <1>2, <1>4, <1>10, WithoutBoth
  <2>. QED  BY <1>0, <1>5, <1>9, <1>10, <2>1, WithoutBoth
<1>12. One(before, "static")
  <2>1. One(A, "static")
    BY <1>0 DEF One
  <2>2. One(p4, "static")
    BY <1>0, <1>6, <1>9, <1>11, <2>1, OneMore
  <2>3. Without(G, "static")
    BY <1>10
  <2>. QED  BY <1>0, <1>7, <1>9, <2>2, <2>3, OneMore
<1>13. One(before, "gtest")
  <2>1. One(G, "gtest")
    BY <1>0 DEF One
  <2>2. Without(p3, "gtest") /\ Without(A, "gtest")
    BY <1>10, <1>11
  <2>3. Without(p4, "gtest")
    BY <1>0, <1>6, <1>9, <2>2, WithoutBoth
  <2>. QED  BY <1>0, <1>7, <1>9, <2>1, <2>3, OneMore
<1>14. Block(before, Len(p2), Len(S))
  <2>1. Without(p2, "standard")
    BY <1>0, <1>2, <1>4, <1>10, WithoutBoth
  <2>2. Block(p3, Len(p2), Len(S))
    BY <1>5, <1>9, <2>1, BlockAdded
  <2>3. Block(p4, Len(p2), Len(S))
    BY <1>0, <1>6, <1>9, <1>10, <2>2, BlockKept
  <2>. QED  BY <1>0, <1>7, <1>9, <1>10, <2>3, BlockKept
<1>. QED  BY <1>1, <1>4, <1>8, <1>12, <1>13, <1>14 DEF OneEach

\* There is a standard test of every number.
LEMMA NthStandard ==
  ASSUME NEW q \in Seq(TaskRecord), NEW m, NEW n, Block(q, m, n)
  PROVE  /\ Cardinality(Standards(q)) = n
         /\ \A k \in 1 .. n :
              LET nth == CHOOSE i \in Standards(q) : q[i].testcase_id = k - 1
              IN  nth \in 1 .. Len(q) /\ q[nth].check_type = "standard"
<1>1. m \in Nat /\ n \in Nat
  BY DEF Block
<1>2. Standards(q) = m + 1 .. m + n
  <2>1. DOMAIN q = 1 .. Len(q) /\ Len(q) \in Nat
    OBVIOUS
  <2>2. \A i \in m + 1 .. m + n : i \in 1 .. Len(q)
    <3>1. ASSUME NEW i \in m + 1 .. m + n
          PROVE  i \in 1 .. Len(q)
      <4>1. i - m \in 1 .. n /\ m + (i - m) = i
        BY <1>1
      <4>. QED  BY <4>1 DEF Block
    <3>. QED  BY <3>1
  <2>. QED  BY <2>1, <2>2 DEF Standards, Block
<1>3. Cardinality(Standards(q)) = n
  BY <1>1, <1>2, FS_Interval
<1>4. ASSUME NEW k \in 1 .. n
      PROVE  LET nth == CHOOSE i \in Standards(q) : q[i].testcase_id = k - 1
             IN  nth \in 1 .. Len(q) /\ q[nth].check_type = "standard"
  <2>1. m + k \in m + 1 .. m + n
    BY <1>1
  <2>2. m + k \in Standards(q) /\ q[m + k].testcase_id = k - 1
    BY <1>2, <2>1 DEF Block
  <2>3. (CHOOSE i \in Standards(q) : q[i].testcase_id = k - 1) \in Standards(q)
    BY <2>2
  <2>. QED  BY <2>3 DEF Standards
<1>. QED  BY <1>3, <1>4

\* Numbering a list from 0.
LEMMA ShapeOf ==
  ASSUME NEW all, Listed(all), OneEach(all)
  PROVE  Shape([ i \in 0 .. Len(all) - 1 |-> all[i + 1] ])
<1>1. Len(all) \in Nat \ {0} /\ \A k \in 1 .. Len(all) : all[k] \in TaskRecord
  BY DEF Listed
<1>2. PICK T : T = [ i \in 0 .. Len(all) - 1 |-> all[i + 1] ]
  OBVIOUS
<1>3. DOMAIN T = 0 .. Len(all) - 1 /\ \A i \in 0 .. Len(all) - 1 : T[i] = all[i + 1]
  BY <1>2
<1>4. \A i \in 0 .. Len(all) - 1 : i + 1 \in 1 .. Len(all)
  BY <1>1
<1>5. \A i \in DOMAIN T : T[i] \in TaskRecord
  BY <1>1, <1>3, <1>4
<1>6. T[0] = all[1]
  BY <1>1, <1>3
<1>7. ASSUME NEW i \in DOMAIN T \ {0}
      PROVE  /\ T[i].check_type # "compile" /\ T[i].check_script # "compile"
             /\ T[i].depends_on \in 0 .. i - 1
             /\ T[T[i].depends_on].check_type \in Parent
  <2>1. i + 1 \in 2 .. Len(all) /\ T[i] = all[i + 1] /\ i \in 1 .. Len(all) - 1
    BY <1>1, <1>3
  <2>2. /\ T[i].check_type # "compile" /\ T[i].check_script # "compile"
        /\ T[i].depends_on \in 0 .. (i + 1) - 2
        /\ all[T[i].depends_on + 1].check_type \in Parent
    BY <2>1 DEF Listed
  <2>3. T[i].depends_on \in 0 .. i - 1 /\ T[i].depends_on \in 0 .. Len(all) - 1
    BY <1>1, <2>1, <2>2
  <2>. QED  BY <1>3, <2>2, <2>3
<1>8. ASSUME NEW i \in DOMAIN T, NEW j \in DOMAIN T,
             T[i].check_type \in { "static", "gtest" }, T[j].check_type = T[i].check_type
      PROVE  i = j
  <2>1. i + 1 = j + 1 /\ i \in Int /\ j \in Int
    BY <1>3, <1>4, <1>8 DEF OneEach, One
  <2>. QED  BY <2>1
<1>9. Shape(T)
  BY <1>1, <1>3, <1>5, <1>6, <1>7, <1>8 DEF Shape, Listed
<1>. QED  BY <1>2, <1>9

\* A list made task by task.
LEMMA MadeList ==
  ASSUME NEW n \in Int, NEW q \in [1 .. n -> TaskRecord]
  PROVE  /\ q \in Seq(TaskRecord) /\ \A k \in 1 .. Len(q) : k \in 1 .. n
         /\ Len(q) = IF n > 0 THEN n ELSE 0
<1>1. PICK m \in Nat : m = IF n > 0 THEN n ELSE 0
  OBVIOUS
<1>2. 1 .. m = 1 .. n
  BY <1>1
<1>3. q \in [1 .. m -> TaskRecord]
  BY <1>2
<1>4. q \in Seq(TaskRecord) /\ Len(q) = m
  BY <1>3
<1>. QED  BY <1>1, <1>2, <1>4

LEMMA ShareType ==
  ASSUME NEW full \in Int, NEW n \in Nat \ {0}
  PROVE  (full * Unit) \div n \in Int
<1>1. PICK p \in Int : p = full * Unit
  BY UnitAssumption
<1>. QED  BY <1>1

\* The memory checks: a task for each standard test, which it depends on.
MemoryOf(before, full, n) ==
  [ k \in 1 .. n |->
      CourseTask("memory", "standard", Share(full, n),
                 (CHOOSE i \in Standards(before) : before[i].testcase_id = k - 1) - 1, k - 1) ]

LEMMA MemoryList ==
  ASSUME NEW before, Listed(before), OneEach(before), NEW m, NEW n, Block(before, m, n),
         NEW full \in Int, NEW more, more = MemoryOf(before, full, n)
  PROVE  Listed(before \o more) /\ OneEach(before \o more)
<1>0. n \in Nat /\ Len(before) \in Nat /\ before \in Seq(TaskRecord)
  BY DEF Block, Listed
<1>1. ASSUME NEW k \in 1 .. n
      PROVE  Follows(before, more[k]) /\ more[k].check_type = "memory"
  <2>1. PICK nth : nth = CHOOSE i \in Standards(before) : before[i].testcase_id = k - 1
    OBVIOUS
  <2>2. nth \in 1 .. Len(before) /\ before[nth].check_type = "standard"
    BY <1>0, <2>1, NthStandard
  <2>3. Share(full, n) \in Int
    BY <1>0, ShareType DEF Share
  <2>4. more[k] = CourseTask("memory", "standard", Share(full, n), nth - 1, k - 1)
    BY <2>1 DEF MemoryOf
  <2>5. more[k] \in TaskRecord
    BY <1>0, <2>2, <2>3, <2>4 DEF CourseTask, TaskRecord, CheckType, Script
  <2>6. /\ more[k].check_type = "memory" /\ more[k].check_script = "standard"
        /\ more[k].depends_on = nth - 1
    BY <2>4 DEF CourseTask
  <2>7. more[k].depends_on \in 0 .. Len(before) - 1 /\ more[k].depends_on + 1 = nth
    BY <1>0, <2>2, <2>6
  <2>. QED  BY <2>2, <2>5, <2>6, <2>7 DEF Follows, Parent
<1>2. more \in Seq(TaskRecord) /\ \A k \in 1 .. Len(more) : k \in 1 .. n
  <2>1. \A k \in 1 .. n : more[k] \in TaskRecord
    BY <1>1 DEF Follows
  <2>2. more \in [1 .. n -> TaskRecord]
    BY <2>1 DEF MemoryOf
  <2>. QED  BY <1>0, <2>2, MadeList
<1>3. Listed(before \o more)
  BY <1>1, <1>2, ListedMore
<1>4. Without(more, "static") /\ Without(more, "gtest")
  BY <1>1, <1>2 DEF Without
<1>5. One(before \o more, "static") /\ One(before \o more, "gtest")
  BY <1>0, <1>2, <1>4, OneMore DEF OneEach
<1>. QED  BY <1>3, <1>5 DEF OneEach

\* The tests of one type.
TestsOf(type, script, full, n) ==
  [ k \in 1 .. n |-> CourseTask(type, script, Share(full, n), 0, k - 1) ]

LEMMA TestList ==
  ASSUME NEW type \in CheckType \ { "compile" }, NEW script \in Script \ { "compile" },
         NEW full \in Int, NEW n \in Int, NEW q,
         q = TestsOf(type, script, full, n)
  PROVE  Tests(q, type) /\ \A k \in 1 .. Len(q) : q[k].testcase_id = k - 1
<1>2. ASSUME NEW k \in 1 .. n
      PROVE  /\ q[k] \in TaskRecord /\ q[k].testcase_id = k - 1 /\ q[k].check_type = type
             /\ q[k].check_script # "compile" /\ q[k].depends_on = 0
  <2>1. Share(full, n) \in Int
    BY ShareType DEF Share
  <2>2. q[k] = CourseTask(type, script, Share(full, n), 0, k - 1)
    BY DEF TestsOf
  <2>. QED  BY <2>1, <2>2 DEF CourseTask, TaskRecord
<1>3. q \in Seq(TaskRecord) /\ \A k \in 1 .. Len(q) : k \in 1 .. n
  <2>1. q \in [1 .. n -> TaskRecord]
    BY <1>2 DEF TestsOf
  <2>. QED  BY <2>1, MadeList
<1>. QED  BY <1>2, <1>3 DEF Tests

\* At most one test of a type.
LEMMA SingleTest ==
  ASSUME NEW type \in CheckType \ { "compile" }, NEW script \in Script \ { "compile" },
         NEW full \in Int, NEW q,
         q = << >> \/ q = << CourseTask(type, script, full * Unit, 0, -1) >>
  PROVE  Tests(q, type) /\ Len(q) <= 1
<1>1. CASE q = << >>
  BY <1>1 DEF Tests
<1>2. CASE q = << CourseTask(type, script, full * Unit, 0, -1) >>
  <2>1. PICK task : task = CourseTask(type, script, full * Unit, 0, -1)
    OBVIOUS
  <2>2. full * Unit \in Int
    BY UnitAssumption
  <2>3. /\ task \in TaskRecord /\ task.check_type = type /\ task.check_script # "compile"
        /\ task.depends_on = 0
    BY <2>1, <2>2 DEF CourseTask, TaskRecord
  <2>4. q \in Seq(TaskRecord) /\ Len(q) = 1 /\ q[1] = task
    BY <1>2, <2>1, <2>3
  <2>. QED  BY <2>3, <2>4 DEF Tests
<1>. QED  BY <1>1, <1>2

\* What the configs must be like for that.
ConfigType(config) ==
  /\ config.grading \in Grades
  /\ config.run_times \in Int /\ config.inputs \in Nat /\ config.outputs \in Nat

LEMMA SameCardinality ==
  /\ \A S : McourseServer!Cardinality(S) = Cardinality(S)
  /\ \A S : MojServer!Cardinality(S) = Cardinality(S)
BY DEF McourseServer!Cardinality, MojServer!Cardinality, Cardinality

LEMMA McourseShape ==
  ASSUME NEW config, ConfigType(config)
  PROVE  Shape(McourseServer!Tasks(config))
<1> USE DEF McourseServer!CourseTask, McourseServer!Share
<1>1. /\ config.grading.compile \in Int /\ config.grading.random \in Int
      /\ config.grading.standard \in Int /\ config.grading.static \in Int
      /\ config.grading.gtest \in Int /\ config.grading.memory \in Int
  BY DEF ConfigType, Grades
<1>2. PICK c \in TaskRecord : /\ McourseServer!CompileTasks(config) = << c >>
                              /\ c.check_type = "compile" /\ c.check_script = "compile"
                              /\ c.depends_on = -1
  <2>1. PICK c : c = CourseTask("compile", "compile", config.grading.compile * Unit, -1, -1)
    OBVIOUS
  <2>2. config.grading.compile * Unit \in Int
    BY <1>1, UnitAssumption
  <2>3. /\ c \in TaskRecord /\ c.check_type = "compile" /\ c.check_script = "compile"
        /\ c.depends_on = -1
    BY <2>1, <2>2 DEF CourseTask, TaskRecord, CheckType, Script
  <2>4. McourseServer!CompileTasks(config) = << c >>
    BY <2>1 DEF McourseServer!CompileTasks, CourseTask
  <2>. QED  BY <2>3, <2>4
<1>3. PICK R : R = McourseServer!RandomTasks(config) /\ Tests(R, "random")
  <2>1. McourseServer!RandomTimes(config) \in Int
    BY DEF McourseServer!RandomTimes, ConfigType
  <2>2. PICK n \in Int : n = McourseServer!RandomTimes(config)
    BY <2>1
  <2>3. McourseServer!RandomTasks(config) =
          TestsOf("random", "standard-trusted", config.grading.random, n)
    BY <2>2 DEF McourseServer!RandomTasks, TestsOf, CourseTask, Share
  <2>4. "random" \in CheckType \ { "compile" } /\ "standard-trusted" \in Script \ { "compile" }
    BY DEF CheckType, Script
  <2>. QED  BY <1>1, <2>2, <2>3, <2>4, TestList
<1>4. PICK S : /\ S = McourseServer!StandardTasks(config) /\ Tests(S, "standard")
               /\ \A k \in 1 .. Len(S) : S[k].testcase_id = k - 1
  <2>1. PICK n \in Int :
          n = IF config.grading.standard > 0 THEN McourseServer!TestData(config) ELSE 0
    BY DEF McourseServer!TestData, ConfigType
  <2>2. McourseServer!StandardTasks(config) =
          TestsOf("standard", "standard-trusted", config.grading.standard, n)
    <3>1. CASE config.grading.standard > 0
      BY <2>1, <3>1 DEF McourseServer!StandardTasks, TestsOf, CourseTask, Share
    <3>2. CASE ~ (config.grading.standard > 0)
      BY <2>1, <3>2 DEF McourseServer!StandardTasks, TestsOf
    <3>. QED  BY <3>1, <3>2
  <2>3. "standard" \in CheckType \ { "compile" } /\ "standard-trusted" \in Script \ { "compile" }
    BY DEF CheckType, Script
  <2>. QED  BY <1>1, <2>1, <2>2, <2>3, TestList
<1>5. PICK A : A = McourseServer!StaticTasks(config) /\ Tests(A, "static") /\ Len(A) <= 1
  <2>1. PICK A : A = McourseServer!StaticTasks(config)
    OBVIOUS
  <2>2. A = << >> \/ A = << CourseTask("static", "static", config.grading.static * Unit, 0, -1) >>
    BY <2>1 DEF McourseServer!StaticTasks, CourseTask
  <2>3. "static" \in CheckType \ { "compile" } /\ "static" \in Script \ { "compile" }
    BY DEF CheckType, Script
  <2>. QED  BY <1>1, <2>1, <2>2, <2>3, SingleTest
<1>6. PICK G : G = McourseServer!GTestTasks(config) /\ Tests(G, "gtest") /\ Len(G) <= 1
  <2>1. PICK G : G = McourseServer!GTestTasks(config)
    OBVIOUS
  <2>2. G = << >> \/ G = << CourseTask("gtest", "standard", config.grading.gtest * Unit, 0, -1) >>
    BY <2>1 DEF McourseServer!GTestTasks, CourseTask
  <2>3. "gtest" \in CheckType \ { "compile" } /\ "standard" \in Script \ { "compile" }
    BY DEF CheckType, Script
  <2>. QED  BY <1>1, <2>1, <2>2, <2>3, SingleTest
<1>7. PICK before, m, n : /\ before = << c >> \o R \o S \o A \o G
                          /\ Listed(before) /\ OneEach(before) /\ Block(before, m, n)
  BY <1>2, <1>3, <1>4, <1>5, <1>6, ListBuilt
<1>8. PICK M : M = McourseServer!MemoryTasks(config, before)
  OBVIOUS
<1>9. PICK all : all = before \o M
  OBVIOUS
<1>10. Listed(all) /\ OneEach(all)
  <2>1. before \in Seq(TaskRecord) /\ n = Cardinality(Standards(before))
    BY <1>7, NthStandard DEF Listed
  <2>2. CASE config.grading.memory = 0
    <3>1. M = << >>
      BY <1>8, <2>2 DEF McourseServer!MemoryTasks
    <3>2. all = before
      BY <1>9, <2>1, <3>1
    <3>. QED  BY <1>7, <3>2
  <2>3. CASE config.grading.memory # 0
    <3>1. M = MemoryOf(before, config.grading.memory, n)
      BY <1>8, <2>1, <2>3, SameCardinality
      DEF McourseServer!MemoryTasks, MemoryOf, Standards, CourseTask, Share
    <3>. QED  BY <1>1, <1>7, <1>9, <3>1, MemoryList
  <2>. QED  BY <2>2, <2>3
<1>11. McourseServer!Tasks(config) = [ i \in 0 .. Len(all) - 1 |-> all[i + 1] ]
  <2>1. before = McourseServer!CompileTasks(config) \o McourseServer!RandomTasks(config)
                   \o McourseServer!StandardTasks(config) \o McourseServer!StaticTasks(config)
                   \o McourseServer!GTestTasks(config)
    BY <1>2, <1>3, <1>4, <1>5, <1>6, <1>7
  <2>. QED  BY <1>8, <1>9, <2>1 DEF McourseServer!Tasks
<1>. QED  BY <1>10, <1>11, ShapeOf

LEMMA MojShape ==
  ASSUME NEW config, ConfigType(config)
  PROVE  Shape(MojServer!Tasks(config))
<1> USE DEF MojServer!CourseTask, MojServer!Share
<1>1. /\ config.grading.compile \in Int /\ config.grading.random \in Int
      /\ config.grading.standard \in Int /\ config.grading.static \in Int
      /\ config.grading.gtest \in Int /\ config.grading.memory \in Int
  BY DEF ConfigType, Grades
<1>2. PICK c \in TaskRecord :
        /\ c = CourseTask("compile", "compile", config.grading.compile * Unit, -1, -1)
        /\ c.check_type = "compile" /\ c.check_script = "compile" /\ c.depends_on = -1
  <2>1. PICK c : c = CourseTask("compile", "compile", config.grading.compile * Unit, -1, -1)
    OBVIOUS
  <2>2. config.grading.compile * Unit \in Int
    BY <1>1, UnitAssumption
  <2>3. /\ c \in TaskRecord /\ c.check_type = "compile" /\ c.check_script = "compile"
        /\ c.depends_on = -1
    BY <2>1, <2>2 DEF CourseTask, TaskRecord, CheckType, Script
  <2>. QED  BY <2>1, <2>3
<1>3. ASSUME NEW type \in { "random", "standard" }, NEW full \in Int, NEW n \in Int
      PROVE  /\ Tests(MojServer!Cases(type, "standard-trusted", full, n), type)
             /\ \A k \in 1 .. Len(MojServer!Cases(type, "standard-trusted", full, n)) :
                  MojServer!Cases(type, "standard-trusted", full, n)[k].testcase_id = k - 1
  <2>1. PICK q : q = MojServer!Cases(type, "standard-trusted", full, n)
    OBVIOUS
  <2>2. PICK cases \in Int : cases = IF full = 0 THEN 0 ELSE n
    OBVIOUS
  <2>3. q = TestsOf(type, "standard-trusted", full, cases)
    <3>1. CASE full = 0
      BY <2>1, <2>2, <3>1 DEF MojServer!Cases, TestsOf
    <3>2. CASE full # 0
      BY <2>1, <2>2, <3>2 DEF MojServer!Cases, TestsOf, CourseTask, Share
    <3>. QED  BY <3>1, <3>2
  <2>4. type \in CheckType \ { "compile" } /\ "standard-trusted" \in Script \ { "compile" }
    BY DEF CheckType, Script
  <2>5. Tests(q, type) /\ \A k \in 1 .. Len(q) : q[k].testcase_id = k - 1
    BY <2>3, <2>4, TestList
  <2>. QED  BY <2>1, <2>5
<1>4. PICK R : /\ R = MojServer!Cases("random", "standard-trusted", config.grading.random,
                                      MojServer!RandomTimes(config))
               /\ Tests(R, "random")
  <2>1. MojServer!RandomTimes(config) \in Int
    BY DEF MojServer!RandomTimes, ConfigType
  <2>. QED  BY <1>1, <1>3, <2>1
<1>5. PICK S : /\ S = MojServer!Cases("standard", "standard-trusted", config.grading.standard,
                                      MojServer!TestData(config))
               /\ Tests(S, "standard") /\ \A k \in 1 .. Len(S) : S[k].testcase_id = k - 1
  <2>1. MojServer!TestData(config) \in Int
    BY DEF MojServer!TestData, ConfigType
  <2>. QED  BY <1>1, <1>3, <2>1
<1>6. PICK A : /\ A = MojServer!Single("static", "static", config.grading.static)
               /\ Tests(A, "static") /\ Len(A) <= 1
  <2>1. PICK A : A = MojServer!Single("static", "static", config.grading.static)
    OBVIOUS
  <2>2. A = << >> \/ A = << CourseTask("static", "static", config.grading.static * Unit, 0, -1) >>
    BY <2>1 DEF MojServer!Single, CourseTask
  <2>3. "static" \in CheckType \ { "compile" } /\ "static" \in Script \ { "compile" }
    BY DEF CheckType, Script
  <2>. QED  BY <1>1, <2>1, <2>2, <2>3, SingleTest
<1>7. PICK G : /\ G = MojServer!Single("gtest", "standard", config.grading.gtest)
               /\ Tests(G, "gtest") /\ Len(G) <= 1
  <2>1. PICK G : G = MojServer!Single("gtest", "standard", config.grading.gtest)
    OBVIOUS
  <2>2. G = << >> \/ G = << CourseTask("gtest", "standard", config.grading.gtest * Unit, 0, -1) >>
    BY <2>1 DEF MojServer!Single, CourseTask
  <2>3. "gtest" \in CheckType \ { "compile" } /\ "standard" \in Script \ { "compile" }
    BY DEF CheckType, Script
  <2>. QED  BY <1>1, <2>1, <2>2, <2>3, SingleTest
<1>8. PICK before, m, n : /\ before = << c >> \o R \o S \o A \o G
                          /\ Listed(before) /\ OneEach(before) /\ Block(before, m, n)
  <2>1. c.check_type = "compile" /\ c.check_script = "compile" /\ c.depends_on = -1
    BY <1>2
  <2>2. PICK b : b = << c >> \o R \o S \o A \o G
    OBVIOUS
  <2>3. Listed(b) /\ OneEach(b) /\ Block(b, Len(<< c >> \o R), Len(S))
    <3>1. Tests(R, "random") /\ Tests(S, "standard") /\ Tests(A, "static") /\ Tests(G, "gtest")
      BY <1>4, <1>5, <1>6, <1>7
    <3>. QED  BY <1>2, <1>5, <1>6, <1>7, <2>1, <2>2, <3>1, ListBuilt
  <2>. QED  BY <2>2, <2>3
<1>9. PICK M : M = MojServer!MemoryTasks(config, before)
  OBVIOUS
<1>10. PICK all : all = before \o M
  OBVIOUS
<1>11. Listed(all) /\ OneEach(all)
  <2>1. before \in Seq(TaskRecord) /\ n = Cardinality(Standards(before))
    BY <1>8, NthStandard DEF Listed
  <2>2. M = MemoryOf(before, config.grading.memory, n)
    BY <1>9, <2>1, SameCardinality
    DEF MojServer!MemoryTasks, MemoryOf, Standards, CourseTask, Share
  <2>. QED  BY <1>1, <1>8, <1>10, <2>2, MemoryList
<1>12. MojServer!Tasks(config) = [ i \in 0 .. Len(all) - 1 |-> all[i + 1] ]
  <2>1. c = MojServer!CourseTask("compile", "compile", config.grading.compile * Unit, -1, -1)
    BY <1>2 DEF CourseTask
  <2>. HIDE DEF MojServer!CourseTask
  <2>. QED  BY <1>4, <1>5, <1>6, <1>7, <1>8, <1>9, <1>10, <2>1 DEF MojServer!Tasks
<1>. QED  BY <1>11, <1>12, ShapeOf

-----------------------------------------------------------------------------
(* The tasks of a submission.                                              *)

LEMMA TasksShape ==
  ASSUME sub \in Submissions, programming
  PROVE  Shape(tasks)
<1>1. ConfigType(sub.config) /\ sub.server \in { "mcourse", "moj" }
  BY SubmissionAssumption DEF programming, ConfigType
<1>2. CASE sub.server = "mcourse"
  BY <1>1, <1>2, McourseShape DEF tasks
<1>3. CASE sub.server # "mcourse"
  BY <1>1, <1>3, MojShape DEF tasks
<1>. QED  BY <1>2, <1>3

LEMMA SubStays == Spec => [](sub \in Submissions)
<1>1. Init => sub \in Submissions
  BY DEF Init
<1>2. sub \in Submissions /\ [Next]_vars => (sub \in Submissions)'
  BY DEF Next, vars, Judge, Depend, Return, Answer
<1>. QED  BY <1>1, <1>2, PTL DEF Spec

\* The tasks that from_json_programming builds pass verify of programming_judger if and
\* only if the contestant sent a program, whatever the problem's config: verify refuses
\* no problem for its graph.
THEOREM TasksVerified == Spec => []BuiltVerified
<1>1. ASSUME sub \in Submissions  PROVE BuiltVerified
  <2>1. SUFFICES ASSUME programming
                 PROVE  Verified([ judge_tasks |-> tasks, has_program |-> HasProgram ])
                          <=> HasProgram
    BY DEF BuiltVerified
  <2>2. PICK T : T = tasks
    OBVIOUS
  <2>3. Shape(T)
    BY <1>1, <2>1, <2>2, TasksShape
  <2>4. PICK n \in Nat \ {0} : DOMAIN T = 0 .. n - 1
    BY <2>3 DEF Shape
  <2>5. 0 \in DOMAIN T /\ \A i \in DOMAIN T : i \in Nat
    BY <2>4
  <2>6. \A i \in DOMAIN T : T[i].depends_on < i
    BY <2>3, <2>5 DEF Shape
  <2>7. \A i \in DOMAIN T : IsCompile(T, i) => i = 0
    BY <2>3 DEF Shape, IsCompile
  <2>8. Entry(T, 0)
    BY <2>3 DEF Shape, Entry
  <2>. QED  BY <2>2, <2>5, <2>6, <2>7, <2>8 DEF Verified
<1>. QED  BY <1>1, SubStays, PTL

-----------------------------------------------------------------------------
(* The recursion of process().                                             *)

ResultType ==
  [ status : Status, parses : BOOLEAN, score : Int, failed : SUBSET STRING, utf8 : BOOLEAN ]

\* The results a submission with tasks T may have.
Results(T) ==
  { rs \in [DOMAIN T -> ResultType] :
      \A i \in DOMAIN T :
        /\ T[i].check_type \in { "random", "standard" } => rs[i].status # "PARTIAL_CORRECT"
        /\ i = 0 => rs[i].status # "DEPENDENCY_NOT_SATISFIED" }

Waits(i) == results[i].status = "PENDING"
Frame(T) == [ task : DOMAIN T, todo : SUBSET (DOMAIN T) ]

\* The calls under way are calls for different tasks, which have their verdicts; the
\* dependents they have still to come to are where the last verdict left them.
Stack(T) ==
  /\ calls \in Seq(Frame(T))
  /\ \A k \in 1 .. Len(calls) :
       /\ ~ Waits(calls[k].task)
       /\ \A j \in calls[k].todo :
            T[j].depends_on = calls[k].task /\ Waits(j) /\ j \notin queue
  /\ \A k, l \in 1 .. Len(calls) : calls[k].task = calls[l].task => k = l

Todo(i) == \E k \in 1 .. Len(calls) : i \in calls[k].todo

\* A task that waits is in the queue, or a call will come to it, or its parent waits.  A
\* verdict agrees with that of the parent.
Placed(T) ==
  /\ queue \subseteq DOMAIN T
  /\ Waits(0) => 0 \in queue \/ ~ HasProgram
  /\ \A i \in queue : Waits(i)
  /\ \A i \in DOMAIN T \ {0} :
       LET from == results[T[i].depends_on].status
       IN  /\ i \in queue => from = "ACCEPTED"
           /\ Waits(i) => i \in queue \/ Todo(i) \/ from = "PENDING"
           /\ ~ Waits(i) =>
                /\ from # "PENDING"
                /\ from = "ACCEPTED" <=> results[i].status # "DEPENDENCY_NOT_SATISFIED"

\* Each verdict is counted by the call for its task.
Decided(T) == { i \in DOMAIN T : ~ Waits(i) }
Tally(T) == finished \in Nat /\ finished + Len(calls) = Cardinality(Decided(T))

CallInv(T) == results \in Results(T) /\ Stack(T) /\ Placed(T) /\ Tally(T) /\ ~ thrown

LEMMA ShapeFacts ==
  ASSUME NEW T, Shape(T)
  PROVE  /\ 0 \in DOMAIN T /\ T[0].depends_on = -1
         /\ \A i \in DOMAIN T : i \in Nat /\ T[i] \in TaskRecord /\ T[i].depends_cond = "ACCEPTED"
         /\ \A i \in DOMAIN T \ {0} :
              /\ T[i].depends_on \in DOMAIN T /\ T[i].depends_on < i
              /\ T[T[i].depends_on].check_type \in Parent
         /\ \A i \in DOMAIN T : Entry(T, i) <=> i = 0
         /\ IsFiniteSet(DOMAIN T) /\ Cardinality(DOMAIN T) \in Nat \ {0}
<1>1. PICK n \in Nat \ {0} : DOMAIN T = 0 .. n - 1
  BY DEF Shape
<1>2. IsFiniteSet(DOMAIN T) /\ Cardinality(DOMAIN T) = n
  BY <1>1, FS_Interval
<1>3. \A i \in DOMAIN T : i \in Nat /\ T[i] \in TaskRecord /\ T[i].depends_cond = "ACCEPTED"
  BY <1>1 DEF Shape, TaskRecord
<1>4. 0 \in DOMAIN T /\ T[0].depends_on = -1
  BY <1>1 DEF Shape
<1>5. \A i \in DOMAIN T \ {0} :
        /\ T[i].depends_on \in DOMAIN T /\ T[i].depends_on < i /\ T[i].depends_on \in 0 .. i - 1
        /\ T[T[i].depends_on].check_type \in Parent
  BY <1>1 DEF Shape
<1>6. \A i \in DOMAIN T : Entry(T, i) <=> i = 0
  BY <1>4, <1>5, <1>1 DEF Entry
<1>. QED  BY <1>2, <1>3, <1>4, <1>5, <1>6

LEMMA CallsInit ==
  ASSUME Init, programming, NEW T, T = tasks, Shape(T)
  PROVE  CallInv(T)
<1>1. /\ results = [ i \in DOMAIN T |-> Pending ] /\ calls = << >> /\ finished = 0 /\ ~ thrown
      /\ queue = { i \in DOMAIN T : Entry(T, i) /\ HasProgram }
  BY DEF Init, Task
<1>2. \A i \in DOMAIN T : results[i] = Pending /\ Waits(i)
  BY <1>1 DEF Waits, Pending, Result
<1>3. results \in Results(T)
  <2>1. Pending \in ResultType /\ Pending.status = "PENDING"
    BY DEF Pending, Result, ResultType, Status
  <2>. QED  BY <1>1, <2>1 DEF Results
<1>4. Stack(T)
  <2>1. << >> \in Seq(Frame(T)) /\ Len(<< >>) = 0
    OBVIOUS
  <2>. QED  BY <1>1, <2>1 DEF Stack
<1>5. Placed(T)
  <2>1. queue \subseteq {0} /\ (HasProgram => 0 \in queue)
    BY <1>1, ShapeFacts
  <2>2. \A i \in DOMAIN T \ {0} : results[T[i].depends_on].status = "PENDING"
    BY <1>2, ShapeFacts DEF Waits
  <2>. QED  BY <1>1, <1>2, <2>1, <2>2 DEF Placed
<1>6. Tally(T)
  <2>1. Decided(T) = {} /\ Len(<< >>) = 0
    BY <1>2 DEF Decided
  <2>. QED  BY <1>1, <2>1, FS_EmptySet DEF Tally
<1>. QED  BY <1>1, <1>3, <1>4, <1>5, <1>6 DEF CallInv

\* What a change of one result that waited does to the counting.
LEMMA OneDecided ==
  ASSUME NEW T, Shape(T), NEW i \in DOMAIN T, Waits(i), ~ Waits(i)',
         \A j \in DOMAIN T : j # i => results'[j] = results[j]
  PROVE  /\ Cardinality(Decided(T)') = Cardinality(Decided(T)) + 1
         /\ Cardinality(Decided(T)) \in Nat
<1>1. Decided(T)' = Decided(T) \cup {i} /\ i \notin Decided(T)
  BY DEF Decided, Waits
<1>2. IsFiniteSet(Decided(T))
  BY ShapeFacts, FS_Subset DEF Decided
<1>. QED  BY <1>1, <1>2, FS_AddElement, FS_CardinalityType

LEMMA CallType ==
  ASSUME NEW T, Shape(T), T = tasks, NEW i \in DOMAIN T
  PROVE  /\ Call(i) \in Frame(T) /\ Call(i).task = i
         /\ \A j \in Call(i).todo : j \in DOMAIN T \ {0} /\ T[j].depends_on = i
         /\ \A j \in DOMAIN T : T[j].depends_on = i => j \in Call(i).todo
<1>1. \A j \in DOMAIN T : T[j].depends_on = i => j # 0
  BY ShapeFacts
<1>. QED  BY <1>1 DEF Call, Dependents, Task, Frame

LEMMA JudgeCalls ==
  ASSUME NEW T, Shape(T), T = tasks, CallInv(T), NEW i \in DOMAIN T, Judge(i)
  PROVE  CallInv(T)'
<1>1. PICK result \in Judgement[T[i].check_type] :
        results' = [results EXCEPT ![i] = result]
  BY DEF Judge
<1>2. /\ calls = << >> /\ i \in queue /\ queue' = queue \ {i} /\ calls' = << Call(i) >>
      /\ UNCHANGED <<sub, finished, report, thrown>>
  BY DEF Judge
<1>3. /\ result \in Verdict /\ result \in ResultType
      /\ T[i].check_type \in { "random", "standard" } => result.status # "PARTIAL_CORRECT"
      /\ result.status # "PENDING" /\ result.status # "DEPENDENCY_NOT_SATISFIED"
  <2>1. T[i].check_type \in CheckType
    BY ShapeFacts DEF TaskRecord
  <2>. QED  BY <2>1, JudgementAssumption DEF Verdict, ResultType
<1>4. /\ results' \in Results(T) /\ results'[i] = result
      /\ \A j \in DOMAIN T : j # i => results'[j] = results[j]
  BY <1>1, <1>3 DEF CallInv, Results
<1>5. Waits(i) /\ ~ Waits(i)' /\ \A j \in DOMAIN T : j # i => (Waits(j)' <=> Waits(j))
  BY <1>2, <1>3, <1>4 DEF CallInv, Placed, Waits
<1>6. \A j \in DOMAIN T \ {0} : T[j].depends_on = i => Waits(j) /\ j \notin queue /\ j # i
  <2>1. ASSUME NEW j \in DOMAIN T \ {0}, T[j].depends_on = i
        PROVE  Waits(j) /\ j \notin queue /\ j # i
    BY <1>5, <2>1, ShapeFacts DEF CallInv, Placed, Waits
  <2>. QED  BY <2>1
<1>7. Stack(T)'
  <2>1. PICK frame \in Frame(T) : frame = Call(i) /\ calls' = << frame >>
    BY <1>2, CallType
  <2>2. calls' \in Seq(Frame(T)) /\ Len(calls') = 1 /\ calls'[1] = frame
    BY <2>1
  <2>3. frame.task = i /\ \A j \in frame.todo : j \in DOMAIN T \ {0} /\ T[j].depends_on = i
    BY <2>1, CallType
  <2>. QED  BY <1>2, <1>5, <1>6, <2>2, <2>3 DEF Stack
<1>8. Placed(T)'
  <2>1. /\ queue' \subseteq DOMAIN T /\ \A j \in queue' : Waits(j)'
        /\ HasProgram' <=> HasProgram
    BY <1>2, <1>5 DEF CallInv, Placed, HasProgram
  <2>2. Waits(0)' => 0 \in queue' \/ ~ HasProgram'
    BY <1>2, <1>5, <2>1, ShapeFacts DEF CallInv, Placed
  <2>3. \A j \in DOMAIN T : T[j].depends_on = i => Todo(j)'
    <3>1. PICK frame : frame = Call(i) /\ calls' = << frame >>
      BY <1>2
    <3>2. Len(calls') = 1 /\ calls'[1] = frame
      BY <3>1
    <3>3. \A j \in DOMAIN T : T[j].depends_on = i => j \in frame.todo
      BY <3>1, CallType
    <3>. QED  BY <3>2, <3>3 DEF Todo
  <2>4. \A j \in DOMAIN T : ~ Todo(j)
    BY <1>2 DEF Todo
  <2>5. ASSUME NEW j \in DOMAIN T \ {0}, NEW p, p = T[j].depends_on
        PROVE  /\ j \in queue' => results'[p].status = "ACCEPTED"
               /\ Waits(j)' => j \in queue' \/ Todo(j)' \/ results'[p].status = "PENDING"
               /\ ~ Waits(j)' =>
                    /\ results'[p].status # "PENDING"
                    /\ results'[p].status = "ACCEPTED"
                         <=> results'[j].status # "DEPENDENCY_NOT_SATISFIED"
    <3>1. p \in DOMAIN T
      BY <2>5, ShapeFacts
    <3>2. /\ j \in queue => results[p].status = "ACCEPTED"
          /\ Waits(j) => j \in queue \/ results[p].status = "PENDING"
          /\ ~ Waits(j) =>
               /\ results[p].status # "PENDING"
               /\ results[p].status = "ACCEPTED"
                    <=> results[j].status # "DEPENDENCY_NOT_SATISFIED"
      BY <2>4, <2>5 DEF CallInv, Placed
    <3>3. CASE p = i
      BY <1>2, <1>3, <1>4, <1>5, <1>6, <2>3, <2>5, <3>3
    <3>4. CASE p # i /\ j = i
      <4>1. results'[p] = results[p] /\ results[p].status = "ACCEPTED"
        BY <1>2, <1>4, <3>1, <3>2, <3>4
      <4>. QED  BY <1>2, <1>3, <1>4, <1>5, <3>4, <4>1
    <3>5. CASE p # i /\ j # i
      <4>1. results'[p] = results[p] /\ results'[j] = results[j] /\ (Waits(j)' <=> Waits(j))
        BY <1>4, <1>5, <3>1, <3>5
      <4>. QED  BY <1>2, <3>2, <3>5, <4>1
    <3>. QED  BY <3>3, <3>4, <3>5
  <2>. QED  BY <2>1, <2>2, <2>5 DEF Placed
<1>9. Tally(T)'
  <2>1. Len(calls) = 0 /\ Len(calls') = 1
    BY <1>2
  <2>2. Cardinality(Decided(T)') = Cardinality(Decided(T)) + 1 /\ Cardinality(Decided(T)) \in Nat
    BY <1>4, <1>5, OneDecided
  <2>. QED  BY <1>2, <2>1, <2>2 DEF CallInv, Tally
<1>. QED  BY <1>2, <1>4, <1>7, <1>8, <1>9 DEF CallInv

\* Every nonempty set of natural numbers has a least element.
LEMMA LeastElement ==
  ASSUME NEW S \in SUBSET Nat, S # {}
  PROVE  \E m \in S : \A k \in S : m <= k
<1> DEFINE R == { p \in Nat \X Nat : p[1] < p[2] }
<1>1. IsWellFoundedOn(R, Nat)
  BY NatLessThanWellFounded DEF OpToRel
<1> HIDE DEF R
<1>2. PICK m \in S : \A k \in S : ~ (<<k, m>> \in R)
  BY <1>1, WFMin
<1>3. ASSUME NEW k \in S
      PROVE  m <= k
  <2>1. k \in Nat /\ m \in Nat
    OBVIOUS
  <2>2. <<k, m>> \notin R
    BY <1>2
  <2>3. ~ (k < m)
    BY <2>1, <2>2 DEF R
  <2> QED
    BY <2>1, <2>3
<1> QED
  BY <1>3

\* The calls when the one at the top has come to its next dependent.
Onward == [calls EXCEPT ![Len(calls)].todo = @ \ {Min(Top.todo)}]

\* The call at the top of the stack goes on to the first dependent it has still to do.
LEMMA TopCall ==
  ASSUME NEW T, Shape(T), Stack(T), calls # << >>, Top.todo # {},
         NEW here, here = Onward
  PROVE  \E n \in Nat \ {0}, t \in DOMAIN T, j \in DOMAIN T \ {0} :
           /\ n = Len(calls) /\ t = Top.task /\ calls[n].task = t /\ j = Min(Top.todo)
           /\ j \in calls[n].todo /\ T[j].depends_on = t
           /\ here \in Seq(Frame(T)) /\ Len(here) = n
           /\ \A k \in 1 .. n : here[k].task = calls[k].task
           /\ \A k \in 1 .. n : \A i \in DOMAIN T : i \in here[k].todo <=> i \in calls[k].todo /\ i # j
<1>1. PICK n \in Nat \ {0} : n = Len(calls)
  BY DEF Stack
<1>2. /\ calls[n] \in Frame(T) /\ Top = calls[n] /\ n \in 1 .. Len(calls)
      /\ \A k \in 1 .. n : calls[k] \in Frame(T)
  BY <1>1 DEF Stack, Top
<1>3. PICK c \in Frame(T) : c = calls[n]
  BY <1>2
<1>4. PICK t \in DOMAIN T, todo \in SUBSET (DOMAIN T) :
        t = c.task /\ todo = c.todo /\ todo # {}
  BY <1>2, <1>3 DEF Frame
<1>5. PICK j : j = Min(todo)
  OBVIOUS
<1>6. j \in todo
  <2>1. todo \in SUBSET Nat
    BY <1>4, ShapeFacts
  <2>2. \E m \in todo : \A k \in todo : m <= k
    BY <1>4, <2>1, LeastElement
  <2>. QED  BY <1>5, <2>2 DEF Min
<1>7. T[j].depends_on = t /\ j \in DOMAIN T \ {0}
  <2>1. T[j].depends_on = t
    BY <1>2, <1>3, <1>4, <1>6, <1>1 DEF Stack
  <2>. QED  BY <1>4, <1>6, <2>1, ShapeFacts
<1>8. PICK frame : frame = [c EXCEPT !.todo = todo \ {j}]
  OBVIOUS
<1>9. frame \in Frame(T) /\ frame.task = t /\ frame.todo = todo \ {j}
  BY <1>3, <1>4, <1>8 DEF Frame
<1>10. here = [calls EXCEPT ![n] = frame]
  <2>1. here = [calls EXCEPT ![Len(calls)] =
                  [calls[Len(calls)] EXCEPT !.todo = calls[Len(calls)].todo \ {Min(Top.todo)}]]
    BY Zenon DEF Onward
  <2>2. Min(Top.todo) = j /\ calls[n].todo = todo
    BY <1>2, <1>3, <1>4, <1>5
  <2>. QED  BY <1>1, <1>3, <1>8, <2>1, <2>2
<1>11. /\ here \in Seq(Frame(T)) /\ Len(here) = n /\ here[n] = frame
       /\ \A k \in 1 .. n : k # n => here[k] = calls[k]
  <2>1. calls \in Seq(Frame(T))
    BY DEF Stack
  <2>. QED  BY <1>1, <1>2, <1>9, <1>10, <2>1
<1>12. \A k \in 1 .. n : here[k].task = calls[k].task
  BY <1>3, <1>4, <1>9, <1>11
<1>13. ASSUME NEW k \in 1 .. n, NEW i \in DOMAIN T
       PROVE  i \in here[k].todo <=> i \in calls[k].todo /\ i # j
  <2>1. CASE k = n
    BY <1>3, <1>4, <1>9, <1>11, <2>1
  <2>2. CASE k # n
    <3>1. j \notin calls[k].todo
      <4>1. SUFFICES ASSUME j \in calls[k].todo  PROVE FALSE
        OBVIOUS
      <4>2. calls[k].task = t
        BY <1>1, <1>7, <4>1 DEF Stack
      <4>. QED  BY <1>1, <1>2, <1>3, <1>4, <2>2, <4>2 DEF Stack
    <3>. QED  BY <1>11, <2>2, <3>1
  <2>. QED  BY <2>1, <2>2
<1>14. /\ n = Len(calls) /\ t = Top.task /\ calls[n].task = t /\ j = Min(Top.todo)
       /\ j \in calls[n].todo /\ T[j].depends_on = t
       /\ here \in Seq(Frame(T)) /\ Len(here) = n
       /\ \A k \in 1 .. n : here[k].task = calls[k].task
       /\ \A k \in 1 .. n : \A i \in DOMAIN T : i \in here[k].todo <=> i \in calls[k].todo /\ i # j
  <2>1. n = Len(calls) /\ t = Top.task /\ calls[n].task = t /\ j = Min(Top.todo) /\ j \in calls[n].todo
    BY <1>1, <1>2, <1>3, <1>4, <1>5, <1>6
  <2>. QED  BY <1>7, <1>11, <1>12, <1>13, <2>1
<1>. QED  BY <1>1, <1>4, <1>7, <1>14

LEMMA DependCalls ==
  ASSUME NEW T, Shape(T), T = tasks, CallInv(T), Depend
  PROVE  CallInv(T)'
<1>0. calls # << >> /\ Top.todo # {} /\ UNCHANGED <<sub, finished, report, thrown>>
  BY DEF Depend
<1>a. PICK here : here = Onward
  OBVIOUS
<1>1. PICK n \in Nat \ {0}, t \in DOMAIN T, j \in DOMAIN T \ {0} :
        /\ n = Len(calls) /\ t = Top.task /\ calls[n].task = t /\ j = Min(Top.todo)
        /\ j \in calls[n].todo /\ T[j].depends_on = t
        /\ here \in Seq(Frame(T)) /\ Len(here) = n
        /\ \A k \in 1 .. n : here[k].task = calls[k].task
        /\ \A k \in 1 .. n : \A i \in DOMAIN T : i \in here[k].todo <=> i \in calls[k].todo /\ i # j
  BY <1>0, <1>a, TopCall DEF CallInv
<1>b. calls \in Seq(Frame(T))
  BY DEF CallInv, Stack
<1>c. \A k \in 1 .. n : here[k] \in Frame(T) /\ calls[k] \in Frame(T)
  BY <1>1, <1>b
<1>2. /\ n \in 1 .. Len(calls) /\ ~ Waits(t) /\ Waits(j) /\ j \notin queue
      /\ \A k \in 1 .. n : here[k].todo \subseteq DOMAIN T /\ here[k] \in Frame(T)
      /\ \A k \in 1 .. n : calls[k] \in Frame(T) /\ calls[k].task \in DOMAIN T
  <2>1. n \in 1 .. Len(calls) /\ ~ Waits(t) /\ Waits(j) /\ j \notin queue
    BY <1>1 DEF CallInv, Stack
  <2>2. \A c \in Frame(T) : c.todo \subseteq DOMAIN T /\ c.task \in DOMAIN T
    BY DEF Frame
  <2>. QED  BY <1>c, <2>1, <2>2
<1>3. IF results[t].status = "ACCEPTED"
      THEN queue' = queue \cup {j} /\ calls' = here /\ results' = results
      ELSE /\ results' = [results EXCEPT
                            ![j] = [results[t] EXCEPT !.status = "DEPENDENCY_NOT_SATISFIED"]]
           /\ calls' = Append(here, Call(j)) /\ queue' = queue
  <2>1. Satisfied(T[j].depends_cond, results[t].status) <=> results[t].status = "ACCEPTED"
    BY ShapeFacts DEF Satisfied
  <2>. QED  BY <1>a, <1>1, <2>1 DEF Depend, Onward
<1>4. HasProgram' <=> HasProgram
  BY <1>0 DEF HasProgram
<1>5. CASE results[t].status = "ACCEPTED"
  <2>1. queue' = queue \cup {j} /\ calls' = here /\ results' = results
    BY <1>3, <1>5
  <2>2. \A i : Waits(i)' <=> Waits(i)
    BY <2>1 DEF Waits
  <2>3. Stack(T)'
    <3>1. ASSUME NEW k \in 1 .. n
          PROVE  /\ ~ Waits(here[k].task)
                 /\ \A i \in here[k].todo :
                      T[i].depends_on = here[k].task /\ Waits(i) /\ i \notin queue \cup {j}
      BY <1>1, <1>2 DEF CallInv, Stack
    <3>2. \A k, l \in 1 .. n : here[k].task = here[l].task => k = l
      BY <1>1 DEF CallInv, Stack
    <3>. QED  BY <1>1, <2>1, <2>2, <3>1, <3>2 DEF Stack
  <2>4. \A i \in DOMAIN T : Todo(i) => Todo(i)' \/ i \in queue'
    <3>1. ASSUME NEW i \in DOMAIN T, Todo(i), i # j  PROVE Todo(i)'
      BY <1>1, <2>1, <3>1 DEF Todo
    <3>. QED  BY <2>1, <3>1
  <2>5. Placed(T)'
    <3>1. /\ queue' \subseteq DOMAIN T /\ \A i \in queue' : Waits(i)'
          /\ Waits(0)' => 0 \in queue' \/ ~ HasProgram'
      BY <1>2, <1>4, <2>1, <2>2 DEF CallInv, Placed
    <3>2. ASSUME NEW i \in DOMAIN T \ {0}, NEW p, p = T[i].depends_on
          PROVE  /\ i \in queue' => results[p].status = "ACCEPTED"
                 /\ Waits(i) => i \in queue' \/ Todo(i)' \/ results[p].status = "PENDING"
                 /\ ~ Waits(i) =>
                      /\ results[p].status # "PENDING"
                      /\ results[p].status = "ACCEPTED"
                           <=> results[i].status # "DEPENDENCY_NOT_SATISFIED"
      BY <1>1, <1>5, <2>1, <2>4, <3>2 DEF CallInv, Placed
    <3>. QED  BY <2>1, <2>2, <3>1, <3>2 DEF Placed
  <2>6. Tally(T)' /\ results' \in Results(T)
    <3>1. Decided(T)' = Decided(T)
      BY <2>2 DEF Decided
    <3>. QED  BY <1>0, <1>1, <2>1, <3>1 DEF CallInv, Tally
  <2>. QED  BY <1>0, <2>3, <2>5, <2>6 DEF CallInv
<1>6. CASE results[t].status # "ACCEPTED"
  <2>1. PICK from : from = [results[t] EXCEPT !.status = "DEPENDENCY_NOT_SATISFIED"]
    OBVIOUS
  <2>2. from \in ResultType /\ from.status = "DEPENDENCY_NOT_SATISFIED"
    <3>1. "DEPENDENCY_NOT_SATISFIED" \in Status
      BY DEF Status
    <3>2. PICK r \in ResultType : r = results[t]
      BY DEF CallInv, Results
    <3>. QED  BY <2>1, <3>1, <3>2 DEF ResultType
  <2>3. results' = [results EXCEPT ![j] = from] /\ calls' = Append(here, Call(j)) /\ queue' = queue
    BY <1>3, <1>6, <2>1
  <2>4. /\ results' \in Results(T) /\ results'[j] = from
        /\ \A i \in DOMAIN T : i # j => results'[i] = results[i]
    BY <2>2, <2>3 DEF CallInv, Results
  <2>5. ~ Waits(j)' /\ \A i \in DOMAIN T : i # j => (Waits(i)' <=> Waits(i))
    BY <2>2, <2>4 DEF Waits
  <2>6. PICK frame \in Frame(T) :
          /\ frame = Call(j) /\ frame.task = j
          /\ \A i \in frame.todo : i \in DOMAIN T \ {0} /\ T[i].depends_on = j
          /\ \A i \in DOMAIN T : T[i].depends_on = j => i \in frame.todo
    BY CallType
  <2>7. /\ calls' \in Seq(Frame(T)) /\ Len(calls') = n + 1 /\ calls'[n + 1] = frame
        /\ \A k \in 1 .. n : calls'[k] = here[k]
    <3>1. calls' = Append(here, frame)
      BY <2>3, <2>6
    <3>. QED  BY <1>1, <3>1
  <2>8. \A i \in DOMAIN T \ {0} : T[i].depends_on = j => Waits(i) /\ i \notin queue /\ i # j
    <3>1. ASSUME NEW i \in DOMAIN T \ {0}, T[i].depends_on = j
          PROVE  Waits(i) /\ i \notin queue /\ i # j
      BY <1>2, <3>1, ShapeFacts DEF CallInv, Placed, Waits
    <3>. QED  BY <3>1
  <2>9. Stack(T)'
    <3>1. ASSUME NEW k \in 1 .. n
          PROVE  /\ ~ Waits(here[k].task)' /\ here[k].task # j
                 /\ \A i \in here[k].todo :
                      T[i].depends_on = here[k].task /\ Waits(i)' /\ i \notin queue'
      <4>1. /\ ~ Waits(calls[k].task)
            /\ \A i \in calls[k].todo : T[i].depends_on = calls[k].task /\ Waits(i) /\ i \notin queue
        BY <1>1 DEF CallInv, Stack
      <4>2. here[k].task = calls[k].task /\ here[k].task # j /\ here[k].task \in DOMAIN T
        BY <1>1, <1>2, <4>1
      <4>3. ~ Waits(here[k].task)'
        BY <2>5, <4>1, <4>2
      <4>4. \A i \in here[k].todo : i \in DOMAIN T /\ i \in calls[k].todo /\ i # j
        BY <1>1, <1>2
      <4>. QED  BY <2>3, <2>5, <4>1, <4>2, <4>3, <4>4
    <3>2. \A k, l \in 1 .. n : here[k].task = here[l].task => k = l
      BY <1>1 DEF CallInv, Stack
    <3>3. \A k \in 1 .. n + 1 : k \in 1 .. n \/ k = n + 1
      OBVIOUS
    <3>4. /\ ~ Waits(frame.task)'
          /\ \A i \in frame.todo : T[i].depends_on = frame.task /\ Waits(i)' /\ i \notin queue'
      BY <2>3, <2>5, <2>6, <2>8
    <3>5. \A k \in 1 .. n + 1 :
            /\ results'[calls'[k].task].status # "PENDING"
            /\ \A i \in calls'[k].todo :
                 T[i].depends_on = calls'[k].task /\ results'[i].status = "PENDING" /\ i \notin queue'
      BY <2>7, <3>1, <3>3, <3>4 DEF Waits
    <3>6. \A k, l \in 1 .. n + 1 : calls'[k].task = calls'[l].task => k = l
      BY <2>6, <2>7, <3>1, <3>2, <3>3
    <3>. QED  BY <2>7, <3>5, <3>6 DEF Stack, Waits
  <2>10. \A i \in DOMAIN T : (Todo(i) /\ i # j) \/ T[i].depends_on = j => Todo(i)'
    <3>1. ASSUME NEW i \in DOMAIN T, Todo(i), i # j  PROVE Todo(i)'
      <4>1. PICK k \in 1 .. n : i \in calls[k].todo
        BY <1>1, <3>1 DEF Todo
      <4>2. i \in here[k].todo
        BY <1>1, <3>1, <4>1
      <4>3. calls'[k] = here[k] /\ k \in 1 .. Len(calls')
        BY <2>7
      <4>. QED  BY <4>2, <4>3 DEF Todo
    <3>2. ASSUME NEW i \in DOMAIN T, T[i].depends_on = j  PROVE Todo(i)'
      <4>1. i \in calls'[n + 1].todo /\ n + 1 \in 1 .. Len(calls')
        BY <2>6, <2>7, <3>2
      <4>. QED  BY <4>1 DEF Todo
    <3>. QED  BY <3>1, <3>2
  <2>11. Placed(T)'
    <3>1. /\ queue' \subseteq DOMAIN T /\ \A i \in queue' : Waits(i)'
          /\ Waits(0)' => 0 \in queue' \/ ~ HasProgram'
      BY <1>2, <1>4, <2>3, <2>5, ShapeFacts DEF CallInv, Placed
    <3>2. ASSUME NEW i \in DOMAIN T \ {0}, NEW p, p = T[i].depends_on
          PROVE  /\ i \in queue' => results'[p].status = "ACCEPTED"
                 /\ Waits(i)' => i \in queue' \/ Todo(i)' \/ results'[p].status = "PENDING"
                 /\ ~ Waits(i)' =>
                      /\ results'[p].status # "PENDING"
                      /\ results'[p].status = "ACCEPTED"
                           <=> results'[i].status # "DEPENDENCY_NOT_SATISFIED"
      <4>1. p \in DOMAIN T
        BY <3>2, ShapeFacts
      <4>2. /\ i \in queue => results[p].status = "ACCEPTED"
            /\ Waits(i) => i \in queue \/ Todo(i) \/ results[p].status = "PENDING"
            /\ ~ Waits(i) =>
                 /\ results[p].status # "PENDING"
                 /\ results[p].status = "ACCEPTED"
                      <=> results[i].status # "DEPENDENCY_NOT_SATISFIED"
        BY <3>2 DEF CallInv, Placed
      <4>3. CASE i = j
        <5>1. p = t /\ results'[p] = results[p]
          BY <1>1, <1>2, <2>4, <3>2, <4>3
        <5>. QED  BY <1>2, <1>6, <2>2, <2>3, <2>4, <2>5, <4>3, <5>1 DEF Waits
      <4>4. CASE p = j
        BY <2>3, <2>5, <2>8, <2>10, <3>2, <4>4
      <4>5. CASE i # j /\ p # j
        <5>1. results'[p] = results[p] /\ results'[i] = results[i] /\ (Waits(i)' <=> Waits(i))
          BY <2>4, <2>5, <4>1, <4>5
        <5>. QED  BY <2>3, <2>10, <4>2, <4>5, <5>1
      <4>. QED  BY <4>3, <4>4, <4>5
    <3>. QED  BY <3>1, <3>2 DEF Placed
  <2>12. Tally(T)'
    <3>1. Cardinality(Decided(T)') = Cardinality(Decided(T)) + 1 /\ Cardinality(Decided(T)) \in Nat
      BY <1>2, <2>4, <2>5, OneDecided
    <3>. QED  BY <1>0, <1>1, <2>7, <3>1 DEF CallInv, Tally
  <2>. QED  BY <1>0, <2>4, <2>9, <2>11, <2>12 DEF CallInv
<1>. QED  BY <1>5, <1>6

LEMMA DependAgrees ==
  ASSUME NEW T, Shape(T), T = tasks, CallInv(T), Depend
  PROVE  \A i \in DOMAIN T : results[i].status # "PENDING" => results'[i] = results[i]
<1>1. calls # << >> /\ Top.todo # {}
  BY DEF Depend
<1>2. PICK n \in Nat \ {0}, j \in DOMAIN T \ {0} :
        n = Len(calls) /\ j = Min(Top.todo) /\ j \in calls[n].todo
  <2>1. PICK here : here = Onward
    OBVIOUS
  <2>. QED  BY <1>1, <2>1, TopCall DEF CallInv
<1>3. results[j].status = "PENDING"
  BY <1>2 DEF CallInv, Stack, Waits
<1>4. \A i \in DOMAIN T : i # j => results'[i] = results[i]
  BY <1>2 DEF Depend, CallInv, Results
<1>. QED  BY <1>3, <1>4

\* The copies of the operators that the two servers have.
LEMMA SameSums ==
  /\ \A f : McourseServer!SumFunction(f) = SumFunction(f)
  /\ \A f : MojServer!SumFunction(f) = SumFunction(f)
<1>1. ASSUME NEW f  PROVE McourseServer!SumFunction(f) = SumFunction(f)
  BY Zenon DEF McourseServer!SumFunction, McourseServer!SumFunctionOnSet,
     McourseServer!FoldFunctionOnSet, McourseServer!MapThenFoldSet,
     SumFunction, SumFunctionOnSet, FoldFunctionOnSet, MapThenFoldSet
<1>2. ASSUME NEW f  PROVE MojServer!SumFunction(f) = SumFunction(f)
  BY Zenon DEF MojServer!SumFunction, MojServer!SumFunctionOnSet,
     MojServer!FoldFunctionOnSet, MojServer!MapThenFoldSet,
     SumFunction, SumFunctionOnSet, FoldFunctionOnSet, MapThenFoldSet
<1>. QED  BY <1>1, <1>2

LEMMA SameRounds ==
  /\ \A s : McourseServer!Round(s) = Round(s)
  /\ \A s : MojServer!Round(s) = Round(s)
BY Zenon DEF McourseServer!Round, MojServer!Round, Round

LEMMA SameSections ==
  /\ \A s, l : McourseServer!Section(s, l) = Section(s, l)
  /\ \A s, l : MojServer!Section(s, l) = Section(s, l)
BY SameRounds DEF McourseServer!Section, MojServer!Section, Section

LEMMA SameEarned ==
  /\ \A T, rs, S : McourseServer!EarnedBy(T, rs, S) = EarnedBy(T, rs, S)
  /\ \A T, rs, S : MojServer!EarnedBy(T, rs, S) = EarnedBy(T, rs, S)
<1>1. /\ \A T, rs, i : McourseServer!Earned(T, rs, i) = Earned(T, rs, i)
      /\ \A T, rs, i : MojServer!Earned(T, rs, i) = Earned(T, rs, i)
  BY Zenon DEF McourseServer!Earned, MojServer!Earned, Earned
<1>. QED  BY <1>1, SameSums DEF McourseServer!EarnedBy, MojServer!EarnedBy, EarnedBy

LEMMA SameCases ==
  /\ \A T, rs, S, l : McourseServer!CaseSection(T, rs, S, l) = CaseSection(T, rs, S, l)
  /\ \A T, rs, S, l : MojServer!CaseSection(T, rs, S, l) = CaseSection(T, rs, S, l)
<1>1. /\ \A rs, S, s : McourseServer!Shown(rs, S, s) = Shown(rs, S, s)
      /\ \A rs, S, s : MojServer!Shown(rs, S, s) = Shown(rs, S, s)
  BY DEF McourseServer!Shown, MojServer!Shown, Shown, McourseServer!Ran, MojServer!Ran, Ran,
         McourseServer!None, MojServer!None, None
<1>2. ASSUME NEW T, NEW rs, NEW S, NEW l
      PROVE  /\ McourseServer!CaseSection(T, rs, S, l) = CaseSection(T, rs, S, l)
             /\ MojServer!CaseSection(T, rs, S, l) = CaseSection(T, rs, S, l)
  BY <1>1, SameEarned, SameSections
     DEF McourseServer!CaseSection, MojServer!CaseSection, CaseSection,
         McourseServer!Ran, MojServer!Ran, Ran,
         McourseServer!Unlisted, MojServer!Unlisted, Unlisted,
         McourseServer!StatusString, MojServer!StatusString, StatusString,
         McourseServer!Status, MojServer!Status, Status,
         McourseServer!ServerError, MojServer!ServerError, ServerError,
         McourseServer!None, MojServer!None, None, McourseServer!Broken, MojServer!Broken, Broken,
         McourseServer!Thrown, MojServer!Thrown, Thrown
<1>. QED  BY <1>2

-----------------------------------------------------------------------------
(* The sections of a report.                                               *)

\* The parts that the two servers put their sections together from.
CompileShown(T, rs) ==
  CASE rs[0].status = "ACCEPTED" -> Section(T[0].score, {})
    [] rs[0].status = "SYSTEM_ERROR" -> Broken
    [] OTHER -> Section(0, {0})

DoneOn(rs, S) == \A i \in S : rs[i].status # "PENDING"
AcceptedOf(rs, S) == { i \in S : rs[i].status = "ACCEPTED" }
NotAccepted(rs, S) == { i \in Ran(rs, S) : rs[i].status # "ACCEPTED" }

StaticShown(T, rs, S) ==
  IF ~ DoneOn(rs, S) THEN None
  ELSE IF \E i \in S : rs[i].status \in ServerError THEN Broken
  ELSE Shown(rs, S, Section(EarnedBy(T, rs, S), Ran(rs, S)))

MemoryShown(T, rs, S, listed) ==
  IF ~ DoneOn(rs, S) THEN None
  ELSE Shown(rs, S, Section(EarnedBy(T, rs, AcceptedOf(rs, S)), listed))

LEMMA SameNames ==
  /\ McourseServer!CheckType = CheckType /\ MojServer!CheckType = CheckType
  /\ McourseServer!None = None /\ MojServer!None = None
  /\ McourseServer!Broken = Broken /\ MojServer!Broken = Broken
  /\ McourseServer!ServerError = ServerError /\ MojServer!ServerError = ServerError
  /\ MojServer!Unlisted = Unlisted
  /\ \A T, type : McourseServer!OfType(T, type) = OfType(T, type)
  /\ \A T, type : MojServer!OfType(T, type) = OfType(T, type)
  /\ \A rs, S : McourseServer!Ran(rs, S) = Ran(rs, S)
  /\ \A rs, S : MojServer!Ran(rs, S) = Ran(rs, S)
  /\ \A rs, S, s : McourseServer!Shown(rs, S, s) = Shown(rs, S, s)
  /\ \A rs, S, s : MojServer!Shown(rs, S, s) = Shown(rs, S, s)
BY DEF McourseServer!CheckType, MojServer!CheckType, CheckType,
       McourseServer!None, MojServer!None, None, McourseServer!Broken, MojServer!Broken, Broken,
       McourseServer!ServerError, MojServer!ServerError, ServerError,
       MojServer!Unlisted, Unlisted, MojServer!StatusString, StatusString,
       MojServer!Status, Status, McourseServer!OfType, MojServer!OfType, OfType,
       McourseServer!Ran, MojServer!Ran, Ran, McourseServer!Shown, MojServer!Shown, Shown

\* The sections of mcourse.
LEMMA McourseSections ==
  ASSUME NEW config, NEW T, NEW rs, NEW all, all = McourseServer!Sections(config, T, rs)
  PROVE  /\ DOMAIN all = CheckType
         /\ all["compile"] = CompileShown(T, rs)
         /\ all["memory"] = MemoryShown(T, rs, OfType(T, "memory"), NotAccepted(rs, OfType(T, "memory")))
         /\ \A type \in { "random", "standard" } :
              all[type] = CaseSection(T, rs, OfType(T, type), NotAccepted(rs, OfType(T, type)))
         /\ all["static"] = StaticShown(T, McourseServer!Reread(T, rs), OfType(T, "static"))
         /\ all["gtest"] = McourseServer!GTestSection(config, T, rs)
<1>1. /\ DOMAIN all = CheckType
      /\ all["compile"] = McourseServer!CompileSection(T, rs)
      /\ all["memory"] = McourseServer!MemorySection(T, rs)
      /\ all["random"] = McourseServer!RandomSection(T, rs)
      /\ all["standard"] = McourseServer!StandardSection(T, rs)
      /\ all["static"] = McourseServer!StaticSection(T, McourseServer!Reread(T, rs))
      /\ all["gtest"] = McourseServer!GTestSection(config, T, rs)
  BY SameNames DEF McourseServer!Sections, CheckType
<1>2. McourseServer!CompileSection(T, rs) = CompileShown(T, rs)
  BY SameNames, SameSections DEF McourseServer!CompileSection, CompileShown
<1>3. \A S : McourseServer!Failed(rs, S) = NotAccepted(rs, S)
  BY SameNames DEF McourseServer!Failed, NotAccepted
<1>4. McourseServer!MemorySection(T, rs)
        = MemoryShown(T, rs, OfType(T, "memory"), NotAccepted(rs, OfType(T, "memory")))
  BY <1>3, SameNames, SameSections, SameEarned
     DEF McourseServer!MemorySection, MemoryShown, DoneOn, AcceptedOf
<1>5. /\ McourseServer!RandomSection(T, rs)
           = CaseSection(T, rs, OfType(T, "random"), NotAccepted(rs, OfType(T, "random")))
      /\ McourseServer!StandardSection(T, rs)
           = CaseSection(T, rs, OfType(T, "standard"), NotAccepted(rs, OfType(T, "standard")))
  BY <1>3, SameNames, SameCases DEF McourseServer!RandomSection, McourseServer!StandardSection
<1>6. \A known : McourseServer!StaticSection(T, known) = StaticShown(T, known, OfType(T, "static"))
  BY SameNames, SameSections, SameEarned DEF McourseServer!StaticSection, StaticShown, DoneOn
<1>. QED  BY <1>1, <1>2, <1>4, <1>5, <1>6

\* Those of MOJ.
LEMMA MojSections ==
  ASSUME NEW T, NEW rs, NEW all, all = MojServer!Sections(T, rs)
  PROVE  /\ DOMAIN all = CheckType
         /\ all["compile"] = CompileShown(T, rs)
         /\ LET S == OfType(T, "memory")
            IN  all["memory"] = MojServer!Counted(T, rs, S,
                                  MemoryShown(T, rs, S, Ran(rs, S) \ AcceptedOf(rs, S)))
         /\ \A type \in { "random", "standard" } :
              LET S == OfType(T, type)
              IN  all[type] = MojServer!Counted(T, rs, S, CaseSection(T, rs, S, Ran(rs, S)))
         /\ \A type \in { "static", "gtest" } :
              all[type] = StaticShown(T, MojServer!Reread(T, rs), OfType(T, type))
<1>1. /\ DOMAIN all = CheckType
      /\ all["compile"] = MojServer!CompileSection(T, rs)
      /\ all["memory"] = MojServer!MemorySection(T, rs)
      /\ all["random"] = MojServer!RandomSection(T, rs)
      /\ all["standard"] = MojServer!StandardSection(T, rs)
      /\ all["static"] = MojServer!StaticSection(T, MojServer!Reread(T, rs))
      /\ all["gtest"] = MojServer!GTestSection(T, MojServer!Reread(T, rs))
  BY SameNames DEF MojServer!Sections, CheckType
<1>2. MojServer!CompileSection(T, rs) = CompileShown(T, rs)
  BY SameNames, SameSections DEF MojServer!CompileSection, CompileShown
<1>3. MojServer!MemorySection(T, rs)
        = MojServer!Counted(T, rs, OfType(T, "memory"),
            MemoryShown(T, rs, OfType(T, "memory"),
                        Ran(rs, OfType(T, "memory")) \ AcceptedOf(rs, OfType(T, "memory"))))
  <2>1. PICK S : S = OfType(T, "memory")
    OBVIOUS
  <2>2. PICK s : s = Shown(rs, S, Section(EarnedBy(T, rs, AcceptedOf(rs, S)), Ran(rs, S) \ AcceptedOf(rs, S)))
    OBVIOUS
  <2>3. MojServer!MemorySection(T, rs)
          = IF \E i \in S : rs[i].status = "PENDING" THEN None ELSE MojServer!Counted(T, rs, S, s)
    BY <2>1, <2>2, SameNames, SameSections, SameEarned DEF MojServer!MemorySection, AcceptedOf
  <2>4. MojServer!Counted(T, rs, S, None) = None
    BY DEF MojServer!Counted, None
  <2>. QED  BY <2>1, <2>2, <2>3, <2>4 DEF MemoryShown, DoneOn
<1>4. /\ MojServer!RandomSection(T, rs)
           = MojServer!Counted(T, rs, OfType(T, "random"),
               CaseSection(T, rs, OfType(T, "random"), Ran(rs, OfType(T, "random"))))
      /\ MojServer!StandardSection(T, rs)
           = MojServer!Counted(T, rs, OfType(T, "standard"),
               CaseSection(T, rs, OfType(T, "standard"), Ran(rs, OfType(T, "standard"))))
  BY SameNames, SameCases DEF MojServer!RandomSection, MojServer!StandardSection
<1>5. \A known : /\ MojServer!StaticSection(T, known) = StaticShown(T, known, OfType(T, "static"))
                 /\ MojServer!GTestSection(T, known) = StaticShown(T, known, OfType(T, "gtest"))
  BY SameNames, SameSections, SameEarned
     DEF MojServer!StaticSection, MojServer!GTestSection, StaticShown, DoneOn
<1>. QED  BY <1>1, <1>2, <1>3, <1>4, <1>5

\* The results when more tasks have their verdicts.
Agree(S, rs, rs2) == \A i \in S : rs[i].status # "PENDING" => rs2[i] = rs[i]

LEMMA SameOn ==
  ASSUME NEW rs, NEW rs2, NEW S, Agree(S, rs, rs2), DoneOn(rs, S)
  PROVE  /\ DoneOn(rs2, S) /\ \A i \in S : rs2[i] = rs[i]
         /\ Ran(rs2, S) = Ran(rs, S) /\ AcceptedOf(rs2, S) = AcceptedOf(rs, S)
         /\ NotAccepted(rs2, S) = NotAccepted(rs, S)
         /\ \A section : Shown(rs2, S, section) = Shown(rs, S, section)
<1>1. \A i \in S : rs2[i] = rs[i]
  BY DEF Agree, DoneOn
<1>2. Ran(rs2, S) = Ran(rs, S)
  BY <1>1 DEF Ran
<1>3. DoneOn(rs2, S) /\ AcceptedOf(rs2, S) = AcceptedOf(rs, S)
  BY <1>1 DEF DoneOn, AcceptedOf
<1>4. NotAccepted(rs2, S) = NotAccepted(rs, S)
  BY <1>1, <1>2 DEF NotAccepted, Ran
<1>. QED  BY <1>1, <1>2, <1>3, <1>4 DEF Shown

LEMMA SameSum ==
  ASSUME NEW T, NEW rs, NEW rs2, NEW S, \A i \in S : rs2[i] = rs[i]
  PROVE  EarnedBy(T, rs2, S) = EarnedBy(T, rs, S)
<1>1. \A i \in S : Earned(T, rs2, i) = Earned(T, rs, i)
  BY DEF Earned
<1>2. [ i \in S |-> Earned(T, rs2, i) ] = [ i \in S |-> Earned(T, rs, i) ]
  BY <1>1
<1>. QED  BY <1>2 DEF EarnedBy

LEMMA StaticKept ==
  ASSUME NEW T, NEW rs, NEW rs2, NEW S, Agree(S, rs, rs2),
         StaticShown(T, rs, S).kind # "none"
  PROVE  StaticShown(T, rs2, S) = StaticShown(T, rs, S)
<1>1. DoneOn(rs, S)
  BY DEF StaticShown, None
<1>2. StaticShown(T, rs, S)
        = IF \E i \in S : rs[i].status \in ServerError THEN Broken
          ELSE Shown(rs, S, Section(EarnedBy(T, rs, S), Ran(rs, S)))
  BY <1>1 DEF StaticShown
<1>3. StaticShown(T, rs2, S)
        = IF \E i \in S : rs2[i].status \in ServerError THEN Broken
          ELSE Shown(rs2, S, Section(EarnedBy(T, rs2, S), Ran(rs2, S)))
  BY <1>1, SameOn DEF StaticShown
<1>4. EarnedBy(T, rs2, S) = EarnedBy(T, rs, S)
  BY <1>1, SameOn, SameSum
<1>. QED  BY <1>1, <1>2, <1>3, <1>4, SameOn

LEMMA MemoryKept ==
  ASSUME NEW T, NEW rs, NEW rs2, NEW S, Agree(S, rs, rs2),
         NEW l, NEW l2, DoneOn(rs, S) => l2 = l,
         MemoryShown(T, rs, S, l).kind # "none"
  PROVE  DoneOn(rs, S) /\ MemoryShown(T, rs2, S, l2) = MemoryShown(T, rs, S, l)
<1>1. DoneOn(rs, S)
  BY DEF MemoryShown, None
<1>2. MemoryShown(T, rs, S, l) = Shown(rs, S, Section(EarnedBy(T, rs, AcceptedOf(rs, S)), l))
  BY <1>1 DEF MemoryShown
<1>3. MemoryShown(T, rs2, S, l2) = Shown(rs2, S, Section(EarnedBy(T, rs2, AcceptedOf(rs2, S)), l))
  BY <1>1, SameOn DEF MemoryShown
<1>4. EarnedBy(T, rs2, AcceptedOf(rs, S)) = EarnedBy(T, rs, AcceptedOf(rs, S))
  <2>1. \A i \in AcceptedOf(rs, S) : rs2[i] = rs[i]
    BY <1>1, SameOn DEF AcceptedOf
  <2>. QED  BY <2>1, SameSum
<1>. QED  BY <1>1, <1>2, <1>3, <1>4, SameOn

LEMMA CaseKept ==
  ASSUME NEW T, Shape(T), NEW rs, NEW rs2, NEW S, S \subseteq DOMAIN T, Agree(S, rs, rs2),
         NEW l, NEW l2, DoneOn(rs, S) => l2 = l,
         CaseSection(T, rs, S, l).kind # "none"
  PROVE  /\ CaseSection(T, rs2, S, l2) = CaseSection(T, rs, S, l)
         /\ CaseSection(T, rs, S, l).kind = "graded" => DoneOn(rs, S)
<1> DEFINE Stops(r) == { i \in Ran(r, S) : r[i].status \in Unlisted \cup { "PENDING" } }
           First(r) == CHOOSE i \in Stops(r) : \A j \in Stops(r) : i <= j
<1>1. /\ Stops(rs) \in SUBSET Nat /\ Stops(rs2) \in SUBSET Nat
      /\ Stops(rs) \subseteq S /\ Stops(rs2) \subseteq S
  BY ShapeFacts DEF Ran
<1>2. CASE Stops(rs) = {}
  <2>1. DoneOn(rs, S)
    BY <1>2 DEF DoneOn, Ran
  <2>2. Ran(rs2, S) = Ran(rs, S) /\ \A i \in S : rs2[i] = rs[i]
    BY <2>1, SameOn
  <2>3. Stops(rs2) = {}
    BY <1>2, <2>2 DEF Ran
  <2>4. CaseSection(T, rs, S, l) = Shown(rs, S, Section(EarnedBy(T, rs, S), l))
    BY <1>2 DEF CaseSection
  <2>5. CaseSection(T, rs2, S, l2) = Shown(rs2, S, Section(EarnedBy(T, rs2, S), l))
    BY <2>1, <2>3 DEF CaseSection
  <2>6. EarnedBy(T, rs2, S) = EarnedBy(T, rs, S)
    BY <2>2, SameSum
  <2>. QED  BY <2>1, <2>4, <2>5, <2>6, SameOn
<1>3. CASE Stops(rs) # {}
  <2>1. PICK f \in Stops(rs) : \A j \in Stops(rs) : f <= j
    BY <1>1, <1>3, LeastElement
  <2>2. First(rs) = f
    BY <1>1, <2>1
  <2>3. CaseSection(T, rs, S, l) =
          CASE rs[f].status = "PENDING" -> None
            [] rs[f].status \in ServerError -> Broken
            [] OTHER -> Thrown
    BY <1>3, <2>2 DEF CaseSection
  <2>4. rs[f].status # "PENDING"
    <3>1. None.kind = "none"
      BY DEF None
    <3>2. rs[f].status = "PENDING" => CaseSection(T, rs, S, l) = None
      BY <2>3 DEF ServerError
    <3>. QED  BY <3>1, <3>2
  <2>5. rs2[f] = rs[f] /\ f \in Stops(rs2)
    BY <1>1, <2>1, <2>4 DEF Agree, Ran
  <2>6. ASSUME NEW j \in Stops(rs2)  PROVE f <= j
    <3>1. SUFFICES ASSUME j < f  PROVE FALSE
      BY <1>1, <2>1
    <3>2. j \in S /\ j \notin Stops(rs)
      BY <1>1, <2>1, <3>1
    <3>3. rs[j].status # "PENDING"
      BY <3>2 DEF Ran
    <3>4. rs2[j] = rs[j]
      BY <3>2, <3>3 DEF Agree
    <3>. QED  BY <3>2, <3>4 DEF Ran
  <2>7. First(rs2) = f
    BY <1>1, <2>5, <2>6
  <2>8. CaseSection(T, rs2, S, l2) =
          CASE rs2[f].status = "PENDING" -> None
            [] rs2[f].status \in ServerError -> Broken
            [] OTHER -> Thrown
    BY <2>5, <2>7 DEF CaseSection
  <2>9. CaseSection(T, rs, S, l).kind # "graded"
    BY <2>3, <2>4 DEF Broken, Thrown
  <2>. QED  BY <2>3, <2>5, <2>8, <2>9
<1>. QED  BY <1>2, <1>3

LEMMA CountedKept ==
  ASSUME NEW T, NEW rs, NEW rs2, NEW S, Agree(S, rs, rs2),
         NEW section, section.kind = "graded" => DoneOn(rs, S)
  PROVE  MojServer!Counted(T, rs2, S, section) = MojServer!Counted(T, rs, S, section)
<1>1. CASE section.kind = "graded"
  <2>1. { i \in S : rs2[i].status = "ACCEPTED" } = { i \in S : rs[i].status = "ACCEPTED" }
    BY <1>1, SameOn DEF AcceptedOf
  <2>. QED  BY <2>1 DEF MojServer!Counted
<1>2. CASE section.kind # "graded"
  BY <1>2 DEF MojServer!Counted
<1>. QED  BY <1>1, <1>2

LEMMA CountedKind ==
  ASSUME NEW T, NEW rs, NEW S, NEW section
  PROVE  MojServer!Counted(T, rs, S, section).kind = section.kind
BY DEF MojServer!Counted

LEMMA RereadKept ==
  ASSUME NEW T, NEW rs \in [DOMAIN T -> ResultType], NEW rs2 \in [DOMAIN T -> ResultType],
         Agree(DOMAIN T, rs, rs2)
  PROVE  /\ Agree(DOMAIN T, McourseServer!Reread(T, rs), McourseServer!Reread(T, rs2))
         /\ Agree(DOMAIN T, MojServer!Reread(T, rs), MojServer!Reread(T, rs2))
<1>1. ASSUME NEW i \in DOMAIN T, McourseServer!Reread(T, rs)[i].status # "PENDING"
      PROVE  McourseServer!Reread(T, rs2)[i] = McourseServer!Reread(T, rs)[i]
  <2>1. rs[i].status # "PENDING"
    BY <1>1 DEF McourseServer!Reread
  <2>2. rs2[i] = rs[i]
    BY <2>1 DEF Agree
  <2>. QED  BY <2>2 DEF McourseServer!Reread
<1>2. ASSUME NEW i \in DOMAIN T, MojServer!Reread(T, rs)[i].status # "PENDING"
      PROVE  MojServer!Reread(T, rs2)[i] = MojServer!Reread(T, rs)[i]
  <2>1. rs[i].status # "PENDING"
    BY <1>2 DEF MojServer!Reread
  <2>2. rs2[i] = rs[i]
    BY <2>1 DEF Agree
  <2>. QED  BY <2>2 DEF MojServer!Reread
<1>. QED  BY <1>1, <1>2 DEF Agree

\* A section that is there stays as it is while more tasks get their verdicts.
LEMMA McourseKept ==
  ASSUME NEW config, NEW T, Shape(T), NEW rs \in Results(T), NEW rs2 \in Results(T),
         Agree({ i \in DOMAIN T : T[i].check_type \notin { "static" } }, rs, rs2),
         Agree(DOMAIN T, McourseServer!Reread(T, rs), McourseServer!Reread(T, rs2)), rs[0].status # "PENDING", NEW type \in CheckType,
         McourseServer!Sections(config, T, rs)[type].kind # "none"
  PROVE  McourseServer!Sections(config, T, rs2)[type] = McourseServer!Sections(config, T, rs)[type]
<1>1. PICK all : all = McourseServer!Sections(config, T, rs)
  OBVIOUS
<1>2. PICK all2 : all2 = McourseServer!Sections(config, T, rs2)
  OBVIOUS
<1>3. PICK S \in SUBSET (DOMAIN T) :
        S = OfType(T, type) /\ (type \notin { "static" } => Agree(S, rs, rs2))
  BY DEF OfType, Agree
<1>4. CASE type = "compile"
  <2>0. 0 \in DOMAIN T /\ T[0].check_type = "compile"
    BY ShapeFacts DEF Shape
  <2>1. rs2[0] = rs[0]
    BY <2>0 DEF Agree
  <2>2. CompileShown(T, rs2) = CompileShown(T, rs)
    BY <2>1 DEF CompileShown
  <2>. QED  BY <1>1, <1>2, <1>4, <2>2, McourseSections
<1>5. CASE type = "memory"
  <2>1. PICK l : l = NotAccepted(rs, S)
    OBVIOUS
  <2>2. PICK l2 : l2 = NotAccepted(rs2, S)
    OBVIOUS
  <2>3. DoneOn(rs, S) => l2 = l
    BY <2>1, <2>2, <1>3, <1>5, SameOn
  <2>4. MemoryShown(T, rs, S, l).kind # "none"
    BY <1>1, <1>3, <1>5, <2>1, McourseSections
  <2>5. MemoryShown(T, rs2, S, l2) = MemoryShown(T, rs, S, l)
    BY <1>3, <1>5, <2>3, <2>4, MemoryKept
  <2>. QED  BY <1>1, <1>2, <1>3, <1>5, <2>1, <2>2, <2>5, McourseSections
<1>6. CASE type \in { "random", "standard" }
  <2>1. PICK l : l = NotAccepted(rs, S)
    OBVIOUS
  <2>2. PICK l2 : l2 = NotAccepted(rs2, S)
    OBVIOUS
  <2>3. DoneOn(rs, S) => l2 = l
    BY <2>1, <2>2, <1>3, <1>6, SameOn
  <2>4. CaseSection(T, rs, S, l).kind # "none"
    BY <1>1, <1>3, <1>6, <2>1, McourseSections
  <2>5. CaseSection(T, rs2, S, l2) = CaseSection(T, rs, S, l)
    BY <1>3, <1>6, <2>3, <2>4, CaseKept
  <2>. QED  BY <1>1, <1>2, <1>3, <1>6, <2>1, <2>2, <2>5, McourseSections
<1>7. CASE type = "static"
  <2>1. PICK known : known = McourseServer!Reread(T, rs)
    OBVIOUS
  <2>2. PICK known2 : known2 = McourseServer!Reread(T, rs2)
    OBVIOUS
  <2>3. Agree(S, known, known2)
    BY <1>3, <2>1, <2>2 DEF Agree
  <2>4. StaticShown(T, known, S).kind # "none"
    BY <1>1, <1>3, <1>7, <2>1, McourseSections
  <2>5. StaticShown(T, known2, S) = StaticShown(T, known, S)
    BY <2>3, <2>4, StaticKept
  <2>. QED  BY <1>1, <1>2, <1>3, <1>7, <2>1, <2>2, <2>5, McourseSections
<1>8. CASE type = "gtest"
  <2>1. McourseServer!GTestSection(config, T, rs).kind # "none"
    BY <1>1, <1>8, McourseSections
  <2>2. PICK i : i = CHOOSE k \in S : TRUE
    OBVIOUS
  <2>3. S # {} /\ config.info /\ i \in S
    <3>1. McourseServer!GTestSection(config, T, rs) = None => FALSE
      BY <2>1 DEF None
    <3>2. S # {} /\ config.info
      BY <1>3, <1>8, <3>1, SameNames DEF McourseServer!GTestSection
    <3>. QED  BY <2>2, <3>2
  <2>4. \A r : McourseServer!GTestSection(config, T, r) =
          IF r[i].status \in { "PENDING", "DEPENDENCY_NOT_SATISFIED" } THEN None
          ELSE IF \/ ~ r[i].parses
                  \/ r[i].status \notin { "ACCEPTED", "PARTIAL_CORRECT", "WRONG_ANSWER" }
          THEN McourseServer!Section(0, {})
          ELSE McourseServer!Section(T[i].score - McourseServer!Charged(config, r[i].failed),
                                     r[i].failed)
    BY <1>3, <1>8, <2>2, <2>3, SameNames DEF McourseServer!GTestSection
  <2>5. rs[i].status # "PENDING"
    <3>1. None.kind = "none"
      BY DEF None
    <3>2. rs[i].status = "PENDING" => McourseServer!GTestSection(config, T, rs) = None
      BY <2>4
    <3>. QED  BY <2>1, <3>1, <3>2
  <2>6. rs2[i] = rs[i]
    BY <1>3, <1>8, <2>3, <2>5 DEF Agree
  <2>7. McourseServer!GTestSection(config, T, rs2) = McourseServer!GTestSection(config, T, rs)
    BY <2>4, <2>6
  <2>. QED  BY <1>1, <1>2, <1>8, <2>7, McourseSections
<1>. QED  BY <1>4, <1>5, <1>6, <1>7, <1>8 DEF CheckType

LEMMA MojKept ==
  ASSUME NEW T, Shape(T), NEW rs \in Results(T), NEW rs2 \in Results(T),
         Agree({ i \in DOMAIN T : T[i].check_type \notin { "static", "gtest" } }, rs, rs2),
         Agree(DOMAIN T, MojServer!Reread(T, rs), MojServer!Reread(T, rs2)), rs[0].status # "PENDING", NEW type \in CheckType,
         MojServer!Sections(T, rs)[type].kind # "none"
  PROVE  MojServer!Sections(T, rs2)[type] = MojServer!Sections(T, rs)[type]
<1>1. PICK all : all = MojServer!Sections(T, rs)
  OBVIOUS
<1>2. PICK all2 : all2 = MojServer!Sections(T, rs2)
  OBVIOUS
<1>3. PICK S \in SUBSET (DOMAIN T) :
        S = OfType(T, type) /\ (type \notin { "static", "gtest" } => Agree(S, rs, rs2))
  BY DEF OfType, Agree
<1>4. CASE type = "compile"
  <2>0. 0 \in DOMAIN T /\ T[0].check_type = "compile"
    BY ShapeFacts DEF Shape
  <2>1. rs2[0] = rs[0]
    BY <2>0 DEF Agree
  <2>2. CompileShown(T, rs2) = CompileShown(T, rs)
    BY <2>1 DEF CompileShown
  <2>3. all[type] = CompileShown(T, rs) /\ all2[type] = CompileShown(T, rs2)
    BY <1>1, <1>2, <1>4, MojSections
  <2>. QED  BY <1>1, <1>2, <2>2, <2>3
<1>5. CASE type = "memory"
  <2>1. PICK l : l = Ran(rs, S) \ AcceptedOf(rs, S)
    OBVIOUS
  <2>2. PICK l2 : l2 = Ran(rs2, S) \ AcceptedOf(rs2, S)
    OBVIOUS
  <2>3. PICK s : s = MemoryShown(T, rs, S, l)
    OBVIOUS
  <2>4. all[type] = MojServer!Counted(T, rs, S, s)
    BY <1>1, <1>3, <1>5, <2>1, <2>3, MojSections
  <2>5. all2[type] = MojServer!Counted(T, rs2, S, MemoryShown(T, rs2, S, l2))
    BY <1>2, <1>3, <1>5, <2>2, MojSections
  <2>6. s.kind # "none"
    BY <1>1, <2>4, CountedKind
  <2>a. DoneOn(rs, S) => l2 = l
    BY <2>1, <2>2, <1>3, <1>5, SameOn
  <2>7. DoneOn(rs, S) /\ MemoryShown(T, rs2, S, l2) = s
    BY <1>3, <1>5, <2>3, <2>6, <2>a, MemoryKept
  <2>8. MojServer!Counted(T, rs2, S, s) = MojServer!Counted(T, rs, S, s)
    BY <1>3, <1>5, <2>7, CountedKept
  <2>. QED  BY <1>1, <1>2, <2>4, <2>5, <2>7, <2>8
<1>6. CASE type \in { "random", "standard" }
  <2>1. PICK l : l = Ran(rs, S)
    OBVIOUS
  <2>2. PICK l2 : l2 = Ran(rs2, S)
    OBVIOUS
  <2>3. PICK s : s = CaseSection(T, rs, S, l)
    OBVIOUS
  <2>4. all[type] = MojServer!Counted(T, rs, S, s)
    BY <1>1, <1>3, <1>6, <2>1, <2>3, MojSections
  <2>5. all2[type] = MojServer!Counted(T, rs2, S, CaseSection(T, rs2, S, l2))
    BY <1>2, <1>3, <1>6, <2>2, MojSections
  <2>6. s.kind # "none"
    BY <1>1, <2>4, CountedKind
  <2>7. DoneOn(rs, S) => l2 = l
    BY <2>1, <2>2, <1>3, <1>6, SameOn
  <2>8. CaseSection(T, rs2, S, l2) = s /\ (s.kind = "graded" => DoneOn(rs, S))
    BY <1>3, <1>6, <2>3, <2>6, <2>7, CaseKept
  <2>9. MojServer!Counted(T, rs2, S, s) = MojServer!Counted(T, rs, S, s)
    BY <1>3, <1>6, <2>8, CountedKept
  <2>. QED  BY <1>1, <1>2, <2>4, <2>5, <2>8, <2>9
<1>7. CASE type \in { "static", "gtest" }
  <2>1. PICK known : known = MojServer!Reread(T, rs)
    OBVIOUS
  <2>2. PICK known2 : known2 = MojServer!Reread(T, rs2)
    OBVIOUS
  <2>3. Agree(S, known, known2)
    BY <1>3, <2>1, <2>2 DEF Agree
  <2>4. all[type] = StaticShown(T, known, S) /\ all2[type] = StaticShown(T, known2, S)
    BY <1>1, <1>2, <1>3, <1>7, <2>1, <2>2, MojSections
  <2>5. StaticShown(T, known2, S) = StaticShown(T, known, S)
    BY <1>1, <2>3, <2>4, StaticKept
  <2>. QED  BY <1>1, <1>2, <2>4, <2>5
<1>. QED  BY <1>4, <1>5, <1>6, <1>7 DEF CheckType

\* Reading the results again changes no verdict that is missing or was refused, and only
\* results of static checks and google tests.
LEMMA KnownFacts ==
  ASSUME NEW T, T = tasks, Shape(T), NEW rs \in Results(T)
  PROVE  /\ Known(rs) \in Results(T)
         /\ \A i \in DOMAIN T :
              /\ Known(rs)[i].status = "PENDING" <=> rs[i].status = "PENDING"
              /\ Known(rs)[i].status = "DEPENDENCY_NOT_SATISFIED"
                   <=> rs[i].status = "DEPENDENCY_NOT_SATISFIED"
              /\ Known(rs)[i].utf8 = rs[i].utf8
              /\ \/ Known(rs)[i] = rs[i]
                 \/ T[i].check_type = "static"
                 \/ T[i].check_type = "gtest" /\ sub.server # "mcourse"
<1>1. PICK known : known = Known(rs)
  OBVIOUS
<1>2. rs \in [DOMAIN T -> ResultType]
  BY DEF Results
<1>3. /\ known = [ i \in DOMAIN T |-> known[i] ]
      /\ \A i \in DOMAIN T :
           \/ known[i] = rs[i]
           \/ /\ known[i] = [ rs[i] EXCEPT !.status = "SYSTEM_ERROR" ]
              /\ rs[i].status \notin { "PENDING", "DEPENDENCY_NOT_SATISFIED" }
              /\ \/ T[i].check_type = "static"
                 \/ T[i].check_type = "gtest" /\ sub.server # "mcourse"
  <2>1. CASE sub.server = "mcourse"
    BY <1>1, <1>2, <2>1 DEF Known, McourseServer!Reread
  <2>2. CASE sub.server # "mcourse"
    BY <1>1, <1>2, <2>2 DEF Known, MojServer!Reread
  <2>. QED  BY <2>1, <2>2
<1>4. ASSUME NEW i \in DOMAIN T
      PROVE  /\ known[i] \in ResultType
             /\ known[i].status = "PENDING" <=> rs[i].status = "PENDING"
             /\ known[i].status = "DEPENDENCY_NOT_SATISFIED"
                  <=> rs[i].status = "DEPENDENCY_NOT_SATISFIED"
             /\ known[i].status = "PARTIAL_CORRECT" => rs[i].status = "PARTIAL_CORRECT"
             /\ known[i].utf8 = rs[i].utf8
  <2>1. PICK r \in ResultType : r = rs[i]
    BY <1>2
  <2>2. PICK e \in ResultType : /\ e = [ r EXCEPT !.status = "SYSTEM_ERROR" ]
                                   /\ e.status = "SYSTEM_ERROR" /\ e.utf8 = r.utf8
    <3>1. PICK e : e = [ r EXCEPT !.status = "SYSTEM_ERROR" ]
      OBVIOUS
    <3>2. "SYSTEM_ERROR" \in Status
      BY DEF Status
    <3>3. e \in ResultType /\ e.status = "SYSTEM_ERROR" /\ e.utf8 = r.utf8
      BY <3>1, <3>2 DEF ResultType
    <3>. QED  BY <3>1, <3>3
  <2>. QED  BY <1>3, <2>1, <2>2
<1>5. known \in Results(T)
  BY <1>3, <1>4 DEF Results
<1>. QED  BY <1>1, <1>3, <1>4, <1>5

\* Reading the results again twice is reading them again once.
LEMMA KnownTwice ==
  ASSUME NEW T, T = tasks, Shape(T), NEW rs \in Results(T)
  PROVE  Known(Known(rs)) = Known(rs)
<1>1. rs \in [DOMAIN T -> ResultType]
  BY DEF Results
<1>2. PICK rs2 : rs2 = Known(rs)
  OBVIOUS
<1>3. PICK rs3 : rs3 = Known(rs2)
  OBVIOUS
<1>4. DOMAIN rs2 = DOMAIN T /\ DOMAIN rs3 = DOMAIN T
      /\ rs2 = [ i \in DOMAIN T |-> rs2[i] ] /\ rs3 = [ i \in DOMAIN T |-> rs3[i] ]
  <2>1. rs2 \in Results(T)
    BY <1>2, KnownFacts
  <2>2. rs3 \in Results(T)
    BY <1>3, <2>1, KnownFacts
  <2>. QED  BY <2>1, <2>2 DEF Results
<1>5. ASSUME NEW i \in DOMAIN T  PROVE rs3[i] = rs2[i]
  <2>1. PICK x : x = rs[i]
    OBVIOUS
  <2>2. PICK y : y = [ x EXCEPT !.status = "SYSTEM_ERROR" ]
    OBVIOUS
  <2>3. y.parses = x.parses /\ y.status = "SYSTEM_ERROR" /\ y = [ y EXCEPT !.status = "SYSTEM_ERROR" ]
    BY <1>1, <2>1, <2>2 DEF ResultType
  <2>4. CASE sub.server = "mcourse"
    <3>1. rs2 = McourseServer!Reread(T, rs) /\ rs3 = McourseServer!Reread(T, rs2)
      BY <1>2, <1>3, <2>4 DEF Known
    <3>. QED  BY <1>1, <1>4, <2>1, <2>2, <2>3, <3>1 DEF McourseServer!Reread
  <2>5. CASE sub.server # "mcourse"
    <3>1. rs2 = MojServer!Reread(T, rs) /\ rs3 = MojServer!Reread(T, rs2)
      BY <1>2, <1>3, <2>5 DEF Known
    <3>. QED  BY <1>1, <1>4, <2>1, <2>2, <2>3, <3>1 DEF MojServer!Reread
  <2>. QED  BY <2>4, <2>5
<1>. QED  BY <1>2, <1>3, <1>4, <1>5

\* A section that is there is the same when more tasks have their verdicts, and when the
\* results were read again.
LEMMA SectionsKept ==
  ASSUME NEW T, T = tasks, Shape(T), NEW rs \in Results(T), NEW rs2 \in Results(T),
         Agree(DOMAIN T, rs, rs2) \/ rs2 = Known(rs), rs[0].status # "PENDING",
         NEW type \in CheckType, SectionsOf(rs)[type].kind # "none"
  PROVE  SectionsOf(rs2)[type] = SectionsOf(rs)[type]
<1>1. rs \in [DOMAIN T -> ResultType] /\ rs2 \in [DOMAIN T -> ResultType]
  BY DEF Results
<1>2. CASE sub.server = "mcourse"
  <2>1. Agree({ i \in DOMAIN T : T[i].check_type \notin { "static" } }, rs, rs2)
    <3>1. CASE Agree(DOMAIN T, rs, rs2)
      BY <3>1 DEF Agree
    <3>2. CASE rs2 = Known(rs)
      BY <1>2, <3>2, KnownFacts DEF Agree
    <3>. QED  BY <3>1, <3>2
  <2>2. Agree(DOMAIN T, McourseServer!Reread(T, rs), McourseServer!Reread(T, rs2))
    <3>1. CASE Agree(DOMAIN T, rs, rs2)
      BY <1>1, <3>1, RereadKept
    <3>2. CASE rs2 = Known(rs)
      <4>1. rs2 = McourseServer!Reread(T, rs)
        BY <1>2, <3>2 DEF Known
      <4>2. \A i \in DOMAIN T : McourseServer!Reread(T, rs2)[i] = McourseServer!Reread(T, rs)[i]
        BY <1>1, <4>1 DEF McourseServer!Reread, ResultType
      <4>. QED  BY <4>2 DEF Agree
    <3>. QED  BY <3>1, <3>2
  <2>3. \A r : SectionsOf(r) = McourseServer!Sections(sub.config, T, r)
    BY <1>2 DEF SectionsOf
  <2>. QED  BY <2>1, <2>2, <2>3, McourseKept
<1>3. CASE sub.server # "mcourse"
  <2>1. Agree({ i \in DOMAIN T : T[i].check_type \notin { "static", "gtest" } }, rs, rs2)
    <3>1. CASE Agree(DOMAIN T, rs, rs2)
      BY <3>1 DEF Agree
    <3>2. CASE rs2 = Known(rs)
      BY <1>3, <3>2, KnownFacts DEF Agree
    <3>. QED  BY <3>1, <3>2
  <2>2. Agree(DOMAIN T, MojServer!Reread(T, rs), MojServer!Reread(T, rs2))
    <3>1. CASE Agree(DOMAIN T, rs, rs2)
      BY <1>1, <3>1, RereadKept
    <3>2. CASE rs2 = Known(rs)
      <4>1. rs2 = MojServer!Reread(T, rs)
        BY <1>3, <3>2 DEF Known
      <4>2. \A i \in DOMAIN T : MojServer!Reread(T, rs2)[i] = MojServer!Reread(T, rs)[i]
        <5>1. DOMAIN rs = DOMAIN T /\ DOMAIN rs2 = DOMAIN T
          BY <1>1, <4>1 DEF MojServer!Reread, ResultType
        <5>2. ASSUME NEW i \in DOMAIN T
              PROVE  MojServer!Reread(T, rs2)[i] = MojServer!Reread(T, rs)[i]
          <6>1. PICK x : x = rs[i]
            OBVIOUS
          <6>2. PICK y : y = [ x EXCEPT !.status = "SYSTEM_ERROR" ]
            OBVIOUS
          <6>3. y.parses = x.parses /\ y.status = "SYSTEM_ERROR" /\ y = [ y EXCEPT !.status = "SYSTEM_ERROR" ]
            BY <1>1, <6>1, <6>2 DEF ResultType
          <6>. QED  BY <4>1, <5>1, <6>1, <6>2, <6>3 DEF MojServer!Reread
        <5>. QED  BY <5>2
      <4>. QED  BY <4>2 DEF Agree
    <3>. QED  BY <3>1, <3>2
  <2>3. \A r : SectionsOf(r) = MojServer!Sections(T, r)
    BY <1>3 DEF SectionsOf
  <2>. QED  BY <2>1, <2>2, <2>3, MojKept
<1>. QED  BY <1>2, <1>3

\* No section is None, and only None has that kind.
LEMMA NoneOnly ==
  ASSUME NEW T, T = tasks, Shape(T), NEW rs, NEW type \in CheckType,
         SectionsOf(rs)[type].kind = "none"
  PROVE  SectionsOf(rs)[type] = None
<1> USE DEF Section, Broken, None, Thrown, Shown
<1>1. CompileShown(T, rs).kind # "none"
  BY DEF CompileShown
<1>2. \A r, S : StaticShown(T, r, S).kind = "none" => StaticShown(T, r, S) = None
  BY DEF StaticShown
<1>3. \A S, l : MemoryShown(T, rs, S, l).kind = "none" => MemoryShown(T, rs, S, l) = None
  BY DEF MemoryShown
<1>4. \A S, l : CaseSection(T, rs, S, l).kind = "none" => CaseSection(T, rs, S, l) = None
  BY DEF CaseSection
<1>5. \A config : McourseServer!GTestSection(config, T, rs).kind = "none" =>
                    McourseServer!GTestSection(config, T, rs) = None
  BY SameNames, SameSections DEF McourseServer!GTestSection
<1>6. \A S, section : MojServer!Counted(T, rs, S, section).kind = "none" =>
                        /\ section.kind = "none"
                        /\ MojServer!Counted(T, rs, S, section) = section
  BY CountedKind DEF MojServer!Counted
<1> HIDE DEF Section, Broken, None, Thrown, Shown
<1>7. PICK all : all = SectionsOf(rs)
  OBVIOUS
<1>8. CASE sub.server = "mcourse"
  <2>1. all = McourseServer!Sections(sub.config, T, rs)
    BY <1>7, <1>8 DEF SectionsOf
  <2>2. CASE type = "compile"
    BY <1>1, <1>7, <2>1, <2>2, McourseSections
  <2>3. CASE type = "memory"
    BY <1>3, <1>7, <2>1, <2>3, McourseSections
  <2>4. CASE type \in { "random", "standard" }
    BY <1>4, <1>7, <2>1, <2>4, McourseSections
  <2>5. CASE type = "static"
    BY <1>2, <1>7, <2>1, <2>5, McourseSections
  <2>6. CASE type = "gtest"
    BY <1>5, <1>7, <2>1, <2>6, McourseSections
  <2>. QED  BY <2>2, <2>3, <2>4, <2>5, <2>6 DEF CheckType
<1>9. CASE sub.server # "mcourse"
  <2>1. all = MojServer!Sections(T, rs)
    BY <1>7, <1>9 DEF SectionsOf
  <2>2. CASE type = "compile"
    BY <1>1, <1>7, <2>1, <2>2, MojSections
  <2>3. CASE type = "memory"
    <3>1. PICK S, s : /\ S = OfType(T, "memory")
                      /\ s = MemoryShown(T, rs, S, Ran(rs, S) \ AcceptedOf(rs, S))
      OBVIOUS
    <3>2. all[type] = MojServer!Counted(T, rs, S, s)
      BY <2>1, <2>3, <3>1, MojSections
    <3>3. s.kind = "none" /\ all[type] = s
      BY <1>6, <1>7, <3>2
    <3>. QED  BY <1>3, <1>7, <3>1, <3>3
  <2>4. CASE type \in { "random", "standard" }
    <3>1. PICK S, s : S = OfType(T, type) /\ s = CaseSection(T, rs, S, Ran(rs, S))
      OBVIOUS
    <3>2. all[type] = MojServer!Counted(T, rs, S, s)
      BY <2>1, <2>4, <3>1, MojSections
    <3>3. s.kind = "none" /\ all[type] = s
      BY <1>6, <1>7, <3>2
    <3>. QED  BY <1>4, <1>7, <3>1, <3>3
  <2>5. CASE type \in { "static", "gtest" }
    BY <1>2, <1>7, <2>1, <2>5, MojSections
  <2>. QED  BY <2>2, <2>3, <2>4, <2>5 DEF CheckType
<1>. QED  BY <1>8, <1>9

\* Reading the results again changes no section.
LEMMA SectionsKnown ==
  ASSUME NEW T, T = tasks, Shape(T), NEW rs \in Results(T), rs[0].status # "PENDING",
         NEW rs2, rs2 = Known(rs), NEW type \in CheckType
  PROVE  SectionsOf(rs2)[type] = SectionsOf(rs)[type]
<1>1. rs2 \in Results(T) /\ Known(rs2) = rs2 /\ 0 \in DOMAIN T
  BY KnownFacts, KnownTwice, ShapeFacts
<1>2. rs2[0].status # "PENDING"
  BY <1>1, KnownFacts
<1>3. CASE SectionsOf(rs)[type].kind # "none"
  BY <1>1, <1>3, SectionsKept
<1>4. CASE SectionsOf(rs2)[type].kind # "none"
  <2>1. \A i \in DOMAIN T : \/ rs2[i] = rs[i]
                            \/ T[i].check_type = "static"
                            \/ T[i].check_type = "gtest" /\ sub.server # "mcourse"
    BY KnownFacts
  <2>2. CASE sub.server = "mcourse"
    <3>1. Agree({ i \in DOMAIN T : T[i].check_type \notin { "static" } }, rs2, rs)
      BY <2>1, <2>2 DEF Agree
    <3>2. McourseServer!Reread(T, rs) = McourseServer!Reread(T, rs2)
      BY <1>1, <2>2 DEF Known
    <3>3. Agree(DOMAIN T, McourseServer!Reread(T, rs2), McourseServer!Reread(T, rs))
      BY <3>2 DEF Agree
    <3>4. \A r : SectionsOf(r) = McourseServer!Sections(sub.config, T, r)
      BY <2>2 DEF SectionsOf
    <3>. QED  BY <1>1, <1>2, <1>4, <3>1, <3>3, <3>4, McourseKept
  <2>3. CASE sub.server # "mcourse"
    <3>1. Agree({ i \in DOMAIN T : T[i].check_type \notin { "static", "gtest" } }, rs2, rs)
      BY <2>1 DEF Agree
    <3>2. MojServer!Reread(T, rs) = MojServer!Reread(T, rs2)
      BY <1>1, <2>3 DEF Known
    <3>3. Agree(DOMAIN T, MojServer!Reread(T, rs2), MojServer!Reread(T, rs))
      BY <3>2 DEF Agree
    <3>4. \A r : SectionsOf(r) = MojServer!Sections(T, r)
      BY <2>3 DEF SectionsOf
    <3>. QED  BY <1>1, <1>2, <1>4, <3>1, <3>3, <3>4, MojKept
  <2>. QED  BY <2>2, <2>3
<1>5. CASE SectionsOf(rs)[type].kind = "none" /\ SectionsOf(rs2)[type].kind = "none"
  BY <1>5, NoneOnly
<1>. QED  BY <1>3, <1>4, <1>5

\* Nor does it change what the report quotes, and whether that can be dumped.
LEMMA DumpsKnown ==
  ASSUME NEW T, T = tasks, Shape(T), NEW rs \in Results(T), rs[0].status # "PENDING",
         NEW rs2, rs2 = Known(rs)
  PROVE  Dumps(rs2) <=> Dumps(rs)
<1>1. rs2 \in Results(T) /\ Known(rs2) = rs2
  BY KnownFacts, KnownTwice
<1>2. PICK all, all2 : all = SectionsOf(rs) /\ all2 = SectionsOf(rs2)
  OBVIOUS
<1>3. \A type \in CheckType : all2[type] = all[type]
  BY <1>2, SectionsKnown
<1>4. \A i \in DOMAIN T : T[i].check_type \in CheckType
  BY ShapeFacts DEF TaskRecord
<1>5. QuotedRaw(rs2) = QuotedRaw(rs) /\ QuotedRaw(rs) \subseteq DOMAIN T
  <2>1. CASE sub.server = "mcourse"
    <3>1. PICK known : known = McourseServer!Reread(T, rs) /\ known = McourseServer!Reread(T, rs2)
      BY <1>1, <2>1 DEF Known
    <3>2. \A i \in OfType(T, "gtest") : rs2[i] = rs[i]
      BY <2>1, KnownFacts DEF OfType
    <3>3. /\ McourseServer!Sections(sub.config, T, rs) = all
          /\ McourseServer!Sections(sub.config, T, rs2) = all2
      BY <1>2, <2>1 DEF SectionsOf
    <3>4. McourseServer!Quoted(T, known, all2) = McourseServer!Quoted(T, known, all)
      BY <1>3, <1>4 DEF McourseServer!Quoted
    <3>5. McourseServer!Quoted(T, known, all) \subseteq DOMAIN T
      BY DEF McourseServer!Quoted
    <3>6. PICK x : x = { i \in OfType(T, "gtest") :
                          /\ all["gtest"].kind = "graded"
                          /\ ~ rs[i].parses \/ rs[i].status \in ServerError }
      OBVIOUS
    <3>7. x = { i \in OfType(T, "gtest") :
                 /\ all2["gtest"].kind = "graded"
                 /\ ~ rs2[i].parses \/ rs2[i].status \in ServerError }
      <4>1. "gtest" \in CheckType
        BY DEF CheckType
      <4>. QED  BY <1>3, <3>2, <3>6, <4>1
    <3>8. QuotedRaw(rs) = McourseServer!Quoted(T, known, all) \cup x
      BY <2>1, <3>1, <3>3, <3>6, SameNames DEF QuotedRaw, McourseServer!QuotedRaw
    <3>9. QuotedRaw(rs2) = McourseServer!Quoted(T, known, all2) \cup x
      BY <2>1, <3>1, <3>3, <3>7, SameNames DEF QuotedRaw, McourseServer!QuotedRaw
    <3>. QED  BY <3>4, <3>5, <3>6, <3>8, <3>9 DEF OfType
  <2>2. CASE sub.server # "mcourse"
    <3>1. PICK known : known = MojServer!Reread(T, rs) /\ known = MojServer!Reread(T, rs2)
      BY <1>1, <2>2 DEF Known
    <3>2. MojServer!Sections(T, rs) = all /\ MojServer!Sections(T, rs2) = all2
      BY <1>2, <2>2 DEF SectionsOf
    <3>3. MojServer!Quoted(T, known, all2) = MojServer!Quoted(T, known, all)
      BY <1>3, <1>4 DEF MojServer!Quoted
    <3>4. MojServer!Quoted(T, known, all) \subseteq DOMAIN T
      BY DEF MojServer!Quoted
    <3>5. /\ QuotedRaw(rs) = MojServer!Quoted(T, known, all) \cup OfType(T, "compile")
          /\ QuotedRaw(rs2) = MojServer!Quoted(T, known, all2) \cup OfType(T, "compile")
      BY <2>2, <3>1, <3>2, SameNames DEF QuotedRaw, MojServer!QuotedRaw
    <3>. QED  BY <3>3, <3>4, <3>5 DEF OfType
  <2>. QED  BY <2>1, <2>2
<1>6. ASSUME NEW i \in DOMAIN T  PROVE rs2[i].utf8 = rs[i].utf8
  BY KnownFacts
<1>. QED  BY <1>5, <1>6 DEF Dumps

\* The static check has a report that is not JSON.
Unread(T, rs) ==
  \E i \in OfType(T, "static") :
    /\ rs[i].status \notin { "PENDING", "DEPENDENCY_NOT_SATISFIED" }
    /\ ~ rs[i].parses

LEMMA LogGrows ==
  ASSUME NEW T, T = tasks, NEW rs
  PROVE  LogAfter(rs) = IF Unread(T, rs) THEN errorLog + 1 ELSE errorLog
BY SameNames DEF LogAfter, McourseServer!ErrorLog, MojServer!ErrorLog, Unread

\* Then its section is an error.
LEMMA UnreadBroken ==
  ASSUME NEW T, T = tasks, Shape(T), NEW rs \in Results(T), Unread(T, rs)
  PROVE  SectionsOf(rs)["static"] = Broken /\ Unread(T, Known(rs))
<1>1. PICK i \in OfType(T, "static") :
        /\ rs[i].status \notin { "PENDING", "DEPENDENCY_NOT_SATISFIED" }
        /\ ~ rs[i].parses
  BY DEF Unread
<1>2. i \in DOMAIN T /\ T[i].check_type = "static" /\ OfType(T, "static") = {i}
  BY <1>1 DEF OfType, Shape
<1>3. PICK known : known = Known(rs)
  OBVIOUS
<1>4. rs \in [DOMAIN T -> ResultType] /\ rs[i] \in ResultType
  BY <1>2 DEF Results
<1>5. known[i] = [ rs[i] EXCEPT !.status = "SYSTEM_ERROR" ]
  <2>1. CASE sub.server = "mcourse"
    BY <1>1, <1>2, <1>3, <1>4, <2>1 DEF Known, McourseServer!Reread
  <2>2. CASE sub.server # "mcourse"
    BY <1>1, <1>2, <1>3, <1>4, <2>2 DEF Known, MojServer!Reread
  <2>. QED  BY <2>1, <2>2
<1>6. known[i].status = "SYSTEM_ERROR" /\ known[i].parses = rs[i].parses
  BY <1>4, <1>5 DEF ResultType
<1>7. StaticShown(T, known, {i}) = Broken
  BY <1>6 DEF StaticShown, DoneOn, ServerError
<1>8. SectionsOf(rs)["static"] = StaticShown(T, known, {i})
  <2>1. CASE sub.server = "mcourse"
    BY <1>2, <1>3, <2>1, McourseSections DEF SectionsOf, Known
  <2>2. CASE sub.server # "mcourse"
    BY <1>2, <1>3, <2>2, MojSections DEF SectionsOf, Known
  <2>. QED  BY <2>1, <2>2
<1>. QED  BY <1>1, <1>2, <1>3, <1>6, <1>7, <1>8 DEF Unread

-----------------------------------------------------------------------------
(* What kinds of sections there are, and which checks have one.            *)

LEMMA CaseKind ==
  ASSUME NEW T, Shape(T), NEW rs \in Results(T), NEW S, S \subseteq DOMAIN T, NEW l,
         \A i \in S : rs[i].status # "PARTIAL_CORRECT"
  PROVE  /\ CaseSection(T, rs, S, l).kind \in { "graded", "error", "none" }
         /\ DoneOn(rs, S) => (CaseSection(T, rs, S, l).kind = "none" <=> Ran(rs, S) = {})
<1> DEFINE Stops == { i \in Ran(rs, S) : rs[i].status \in Unlisted \cup { "PENDING" } }
           First == CHOOSE i \in Stops : \A j \in Stops : i <= j
<1>1. Stops \in SUBSET Nat /\ Stops \subseteq S
  BY ShapeFacts DEF Ran
<1>2. CASE Stops = {}
  <2>1. CaseSection(T, rs, S, l) = Shown(rs, S, Section(EarnedBy(T, rs, S), l))
    BY <1>2 DEF CaseSection
  <2>. QED  BY <2>1 DEF Shown, Section, None
<1>3. CASE Stops # {}
  <2>1. PICK f \in Stops : \A j \in Stops : f <= j
    BY <1>1, <1>3, LeastElement
  <2>2. First = f
    BY <1>1, <2>1
  <2>3. CaseSection(T, rs, S, l) =
          CASE rs[f].status = "PENDING" -> None
            [] rs[f].status \in ServerError -> Broken
            [] OTHER -> Thrown
    BY <1>3, <2>2 DEF CaseSection
  <2>4. rs[f].status \in ServerError \cup { "PENDING" }
    <3>1. f \in S /\ rs[f].status \in Unlisted \cup { "PENDING" }
      BY <1>1, <2>1
    <3>2. rs[f].status # "PARTIAL_CORRECT" /\ rs[f].status # "DEPENDENCY_NOT_SATISFIED"
      BY <2>1, <3>1 DEF Ran
    <3>. QED  BY <3>1, <3>2 DEF Unlisted, Status, StatusString, ServerError
  <2>5. CASE rs[f].status = "PENDING"
    <3>1. CaseSection(T, rs, S, l) = None /\ ~ DoneOn(rs, S)
      BY <1>1, <2>1, <2>3, <2>5 DEF ServerError, DoneOn
    <3>. QED  BY <3>1 DEF None
  <2>6. CASE rs[f].status \in ServerError
    <3>1. CaseSection(T, rs, S, l) = Broken /\ Ran(rs, S) # {}
      BY <2>1, <2>3, <2>6 DEF ServerError
    <3>. QED  BY <3>1 DEF Broken
  <2>. QED  BY <2>4, <2>5, <2>6
<1>. QED  BY <1>2, <1>3

LEMMA StaticKind ==
  ASSUME NEW T, NEW rs, NEW S, NEW known, Ran(known, S) = Ran(rs, S),
         DoneOn(known, S) <=> DoneOn(rs, S)
  PROVE  /\ StaticShown(T, known, S).kind \in { "graded", "error", "none" }
         /\ DoneOn(rs, S) => (StaticShown(T, known, S).kind = "none" <=> Ran(rs, S) = {})
<1>1. CASE ~ DoneOn(known, S)
  BY <1>1 DEF StaticShown, None
<1>2. CASE DoneOn(known, S) /\ \E i \in S : known[i].status \in ServerError
  <2>1. StaticShown(T, known, S) = Broken
    BY <1>2 DEF StaticShown
  <2>2. Ran(known, S) # {}
    BY <1>2 DEF Ran, ServerError
  <2>. QED  BY <2>1, <2>2 DEF Broken
<1>3. CASE DoneOn(known, S) /\ ~ \E i \in S : known[i].status \in ServerError
  <2>1. StaticShown(T, known, S) = Shown(known, S, Section(EarnedBy(T, known, S), Ran(known, S)))
    BY <1>3 DEF StaticShown
  <2>. QED  BY <2>1 DEF Shown, Section, None
<1>. QED  BY <1>1, <1>2, <1>3

LEMMA MemoryKind ==
  ASSUME NEW T, NEW rs, NEW S, NEW l
  PROVE  /\ MemoryShown(T, rs, S, l).kind \in { "graded", "none" }
         /\ DoneOn(rs, S) => (MemoryShown(T, rs, S, l).kind = "none" <=> Ran(rs, S) = {})
BY DEF MemoryShown, Shown, Section, None

LEMMA CompileKind ==
  ASSUME NEW T, Shape(T), NEW rs \in Results(T)
  PROVE  /\ CompileShown(T, rs).kind \in { "graded", "error" }
         /\ Ran(rs, OfType(T, "compile")) # {}
<1>1. CompileShown(T, rs).kind \in { "graded", "error" }
  BY DEF CompileShown, Section, Broken
<1>2. 0 \in Ran(rs, OfType(T, "compile"))
  BY ShapeFacts DEF Shape, OfType, Ran, Results
<1>. QED  BY <1>1, <1>2

\* No section is an exception; when all tasks have their verdicts, the sections are for
\* the checks of which a task was judged.
LEMMA SectionKinds ==
  ASSUME NEW T, T = tasks, Shape(T), NEW rs \in Results(T), NEW type \in CheckType
  PROVE  /\ SectionsOf(rs)[type].kind \in { "graded", "error", "none" }
         /\ DoneOn(rs, DOMAIN T) =>
              ( SectionsOf(rs)[type].kind # "none" <=>
                  /\ Ran(rs, OfType(T, type)) # {}
                  /\ type = "gtest" /\ sub.server = "mcourse" => sub.config.info )
<1>1. PICK S \in SUBSET (DOMAIN T) : S = OfType(T, type)
  BY DEF OfType
<1>2. DoneOn(rs, DOMAIN T) => DoneOn(rs, S)
  BY DEF DoneOn
<1>3. PICK all : all = SectionsOf(rs)
  OBVIOUS
<1>4. PICK known : known = Known(rs)
  OBVIOUS
<1>5. Ran(known, S) = Ran(rs, S) /\ (DoneOn(known, S) <=> DoneOn(rs, S))
  BY <1>4, KnownFacts DEF Ran, DoneOn
<1>6. type \in { "random", "standard" } => \A i \in S : rs[i].status # "PARTIAL_CORRECT"
  BY <1>1 DEF OfType, Results
<1>7. CASE sub.server = "mcourse"
  <2>1. all = McourseServer!Sections(sub.config, T, rs) /\ known = McourseServer!Reread(T, rs)
    BY <1>3, <1>4, <1>7 DEF SectionsOf, Known
  <2>2. CASE type = "compile"
    <3>1. all[type] = CompileShown(T, rs)
      BY <2>1, <2>2, McourseSections
    <3>. QED  BY <1>3, <2>2, <3>1, CompileKind
  <2>3. CASE type = "memory"
    <3>1. all[type] = MemoryShown(T, rs, S, NotAccepted(rs, S))
      BY <1>1, <2>1, <2>3, McourseSections
    <3>. QED  BY <1>1, <1>2, <1>3, <2>3, <3>1, MemoryKind
  <2>4. CASE type \in { "random", "standard" }
    <3>1. all[type] = CaseSection(T, rs, S, NotAccepted(rs, S))
      BY <1>1, <2>1, <2>4, McourseSections
    <3>2. \A i \in S : rs[i].status # "PARTIAL_CORRECT"
      BY <1>6, <2>4
    <3>. QED  BY <1>1, <1>2, <1>3, <2>4, <3>1, <3>2, CaseKind
  <2>5. CASE type = "static"
    <3>1. all[type] = StaticShown(T, known, S)
      BY <1>1, <2>1, <2>5, McourseSections
    <3>. QED  BY <1>1, <1>2, <1>3, <1>5, <2>5, <3>1, StaticKind
  <2>6. CASE type = "gtest"
    <3>1. all[type] = McourseServer!GTestSection(sub.config, T, rs)
      BY <2>1, <2>6, McourseSections
    <3>2. all[type].kind \in { "graded", "none" }
      BY <3>1, SameNames, SameSections DEF McourseServer!GTestSection, Section, None
    <3>3. CASE S = {} \/ ~ sub.config.info
      <4>1. all[type] = None
        BY <1>1, <2>6, <3>1, <3>3, SameNames DEF McourseServer!GTestSection
      <4>. QED  BY <1>1, <1>3, <1>7, <2>6, <3>3, <4>1 DEF None, Ran
    <3>4. CASE S # {} /\ sub.config.info
      <4>1. PICK i \in S : i = CHOOSE j \in S : TRUE
        BY <3>4
      <4>2. S = {i}
        BY <1>1, <2>6 DEF Shape, OfType
      <4>3. rs[i].status \in { "PENDING", "DEPENDENCY_NOT_SATISFIED" } => all[type] = None
        BY <1>1, <2>6, <3>1, <3>4, <4>1, SameNames DEF McourseServer!GTestSection
      <4>4. rs[i].status \notin { "PENDING", "DEPENDENCY_NOT_SATISFIED" } => all[type].kind = "graded"
        <5>1. \A score, listed : McourseServer!Section(score, listed).kind = "graded"
          BY SameSections DEF Section
        <5>2. PICK graded : graded =
                McourseServer!Section(T[i].score - McourseServer!Charged(sub.config, rs[i].failed),
                                      rs[i].failed)
          OBVIOUS
        <5>3. all[type] =
                IF rs[i].status \in { "PENDING", "DEPENDENCY_NOT_SATISFIED" } THEN None
                ELSE IF \/ ~ rs[i].parses
                        \/ rs[i].status \notin { "ACCEPTED", "PARTIAL_CORRECT", "WRONG_ANSWER" }
                THEN McourseServer!Section(0, {})
                ELSE graded
          BY <1>1, <2>6, <3>1, <3>4, <4>1, <5>2, SameNames DEF McourseServer!GTestSection
        <5>. QED  BY <5>1, <5>2, <5>3
      <4>5. Ran(rs, S) = {} <=> rs[i].status = "DEPENDENCY_NOT_SATISFIED"
        BY <4>2 DEF Ran
      <4>6. DoneOn(rs, S) => rs[i].status # "PENDING"
        BY <4>1 DEF DoneOn
      <4>7. None.kind = "none"
        BY DEF None
      <4>. QED  BY <1>1, <1>2, <1>3, <3>2, <3>4, <4>3, <4>4, <4>5, <4>6, <4>7
    <3>. QED  BY <3>3, <3>4
  <2>. QED  BY <2>2, <2>3, <2>4, <2>5, <2>6 DEF CheckType
<1>8. CASE sub.server # "mcourse"
  <2>1. all = MojServer!Sections(T, rs) /\ known = MojServer!Reread(T, rs)
    BY <1>3, <1>4, <1>8 DEF SectionsOf, Known
  <2>2. CASE type = "compile"
    <3>1. all[type] = CompileShown(T, rs)
      BY <2>1, <2>2, MojSections
    <3>. QED  BY <1>3, <2>2, <3>1, CompileKind
  <2>3. CASE type = "memory"
    <3>1. PICK l : l = Ran(rs, S) \ AcceptedOf(rs, S)
      OBVIOUS
    <3>2. PICK s : s = MemoryShown(T, rs, S, l)
      OBVIOUS
    <3>3. all[type] = MojServer!Counted(T, rs, S, s)
      BY <1>1, <2>1, <2>3, <3>1, <3>2, MojSections
    <3>4. all[type].kind = s.kind
      BY <3>3, CountedKind
    <3>. QED  BY <1>1, <1>2, <1>3, <1>8, <2>3, <3>2, <3>4, MemoryKind
  <2>4. CASE type \in { "random", "standard" }
    <3>1. PICK s : s = CaseSection(T, rs, S, Ran(rs, S))
      OBVIOUS
    <3>2. all[type] = MojServer!Counted(T, rs, S, s)
      BY <1>1, <2>1, <2>4, <3>1, MojSections
    <3>3. all[type].kind = s.kind
      BY <3>2, CountedKind
    <3>4. \A i \in S : rs[i].status # "PARTIAL_CORRECT"
      BY <1>6, <2>4
    <3>. QED  BY <1>1, <1>2, <1>3, <1>8, <2>4, <3>1, <3>3, <3>4, CaseKind
  <2>5. CASE type \in { "static", "gtest" }
    <3>1. all[type] = StaticShown(T, known, S)
      BY <1>1, <2>1, <2>5, MojSections
    <3>. QED  BY <1>1, <1>2, <1>3, <1>5, <1>8, <3>1, StaticKind
  <2>. QED  BY <2>2, <2>3, <2>4, <2>5 DEF CheckType
<1>. QED  BY <1>7, <1>8

-----------------------------------------------------------------------------
(* The return of a call, and the report it makes.                          *)

LEMMA NoThrow ==
  ASSUME NEW T, T = tasks, Shape(T), NEW rs \in Results(T)
  PROVE  ~ Throws(rs)
<1>1. ASSUME NEW type \in CheckType  PROVE SectionsOf(rs)[type].kind # "thrown"
  BY SectionKinds
<1>. QED  BY <1>1 DEF Throws

LEMMA Popped ==
  ASSUME NEW F, NEW q \in Seq(F), q # << >>, NEW r, r = SubSeq(q, 1, Len(q) - 1)
  PROVE  /\ Len(q) \in Nat \ {0} /\ r \in Seq(F) /\ Len(r) = Len(q) - 1
         /\ \A k \in 1 .. Len(r) : k \in 1 .. Len(q) /\ r[k] = q[k]
<1>1. PICK n \in Nat : n = Len(q) - 1 /\ Len(q) = n + 1
  <2>1. Len(q) \in Nat /\ Len(q) # 0
    OBVIOUS
  <2>. QED  BY <2>1
<1>2. r \in Seq(F) /\ Len(r) = n /\ \A k \in 1 .. n : r[k] = q[k]
  <2>1. \A k \in 1 .. n : q[k] \in F
    BY <1>1
  <2>2. r = SubSeq(q, 1, n)
    BY <1>1
  <2>. QED  BY <2>1, <2>2, SubSeqProperties
<1>. QED  BY <1>1, <1>2

\* It counts its task and reads the results again; if the report can be dumped, it is the
\* latest one.
LEMMA Returns ==
  ASSUME NEW T, Shape(T), T = tasks, CallInv(T), Return
  PROVE  /\ results' = Known(results) /\ finished' = finished + 1 /\ UNCHANGED <<sub, queue>>
         /\ errorLog' = LogAfter(results)
         /\ Dumps(results) => report' = Summary(results, finished + 1) /\ shownLog' = LogAfter(results)
         /\ ~ Dumps(results) => UNCHANGED <<report, shownLog>>
         /\ IF Dumps(results) \/ sub.server = "mcourse" THEN Pop ELSE Leave
<1>1. ~ Throws(results)
  BY NoThrow DEF CallInv
<1>. QED  BY <1>1 DEF Return, ReportToServer

LEMMA ReturnCalls ==
  ASSUME NEW T, Shape(T), T = tasks, CallInv(T), Return, Dumps(results) \/ sub.server = "mcourse"
  PROVE  CallInv(T)'
<1>1. /\ calls # << >> /\ Top.todo = {} /\ finished' = finished + 1
      /\ UNCHANGED <<sub, queue>> /\ results \in Results(T)
  BY DEF Return, CallInv
<1>2. /\ results' = Known(results) /\ calls' = SubSeq(calls, 1, Len(calls) - 1)
      /\ thrown' = thrown
  BY Returns DEF Pop
<1>3. PICK n \in Nat \ {0} :
        /\ n = Len(calls) /\ calls' \in Seq(Frame(T)) /\ Len(calls') = n - 1
        /\ \A k \in 1 .. n - 1 : k \in 1 .. n /\ calls'[k] = calls[k]
        /\ calls[n].todo = {}
  <2>1. calls \in Seq(Frame(T))
    BY DEF CallInv, Stack
  <2>. QED  BY <1>1, <1>2, <2>1, Popped DEF Top
<1>4. /\ results' \in Results(T)
      /\ \A i \in DOMAIN T :
           /\ results'[i].status = "PENDING" <=> results[i].status = "PENDING"
           /\ results'[i].status = "DEPENDENCY_NOT_SATISFIED"
                <=> results[i].status = "DEPENDENCY_NOT_SATISFIED"
           /\ T[i].check_type \notin { "static", "gtest" } => results'[i] = results[i]
  BY <1>1, <1>2, KnownFacts
<1>5. \A i \in DOMAIN T : Waits(i)' <=> Waits(i)
  BY <1>4 DEF Waits
<1>6. Stack(T)'
  <2>1. ASSUME NEW k \in 1 .. n - 1
        PROVE  /\ results'[calls'[k].task].status # "PENDING"
               /\ \A j \in calls'[k].todo :
                    /\ T[j].depends_on = calls'[k].task /\ results'[j].status = "PENDING"
                    /\ j \notin queue'
    <3>1. /\ calls'[k] = calls[k] /\ k \in 1 .. Len(calls) /\ calls'[k] \in Frame(T)
      BY <1>3, <2>1
    <3>2. calls[k].task \in DOMAIN T /\ calls[k].todo \subseteq DOMAIN T
      BY <3>1 DEF Frame
    <3>3. /\ results[calls[k].task].status # "PENDING"
          /\ \A j \in calls[k].todo :
               /\ T[j].depends_on = calls[k].task /\ results[j].status = "PENDING"
               /\ j \notin queue
      BY <3>1 DEF CallInv, Stack, Waits
    <3>. QED  BY <1>1, <1>4, <3>1, <3>2, <3>3
  <2>2. \A k, l \in 1 .. n - 1 : calls'[k].task = calls'[l].task => k = l
    BY <1>3 DEF CallInv, Stack
  <2>. QED  BY <1>3, <2>1, <2>2 DEF Stack, Waits
<1>7. \A i \in DOMAIN T : Todo(i) => Todo(i)'
  <2>1. ASSUME NEW i \in DOMAIN T, Todo(i)  PROVE Todo(i)'
    <3>1. PICK k \in 1 .. n : i \in calls[k].todo
      BY <1>3, <2>1 DEF Todo
    <3>2. k \in 1 .. n - 1
      <4>1. k # n
        BY <1>3, <3>1
      <4>. QED  BY <4>1
    <3>. QED  BY <1>3, <3>1, <3>2 DEF Todo
  <2>. QED  BY <2>1
<1>8. Placed(T)'
  <2>1. /\ queue' \subseteq DOMAIN T /\ \A i \in queue' : Waits(i)'
        /\ Waits(0)' => 0 \in queue' \/ ~ HasProgram'
    BY <1>1, <1>5, ShapeFacts DEF CallInv, Placed, HasProgram
  <2>2. ASSUME NEW i \in DOMAIN T \ {0}, NEW p, p = T[i].depends_on
        PROVE  /\ i \in queue' => results'[p].status = "ACCEPTED"
               /\ Waits(i)' => i \in queue' \/ Todo(i)' \/ results'[p].status = "PENDING"
               /\ ~ Waits(i)' =>
                    /\ results'[p].status # "PENDING"
                    /\ results'[p].status = "ACCEPTED"
                         <=> results'[i].status # "DEPENDENCY_NOT_SATISFIED"
    <3>1. p \in DOMAIN T /\ T[p].check_type \notin { "static", "gtest" }
      BY <2>2, ShapeFacts DEF Parent
    <3>2. results'[p] = results[p]
      BY <1>4, <3>1
    <3>3. /\ i \in queue => results[p].status = "ACCEPTED"
          /\ Waits(i) => i \in queue \/ Todo(i) \/ results[p].status = "PENDING"
          /\ ~ Waits(i) =>
               /\ results[p].status # "PENDING"
               /\ results[p].status = "ACCEPTED"
                    <=> results[i].status # "DEPENDENCY_NOT_SATISFIED"
      BY <2>2 DEF CallInv, Placed
    <3>. QED  BY <1>1, <1>4, <1>5, <1>7, <3>2, <3>3
  <2>. QED  BY <2>1, <2>2 DEF Placed
<1>9. Tally(T)'
  <2>1. Decided(T)' = Decided(T)
    BY <1>5 DEF Decided
  <2>. QED  BY <1>1, <1>3, <2>1 DEF CallInv, Tally
<1>. QED  BY <1>2, <1>4, <1>6, <1>8, <1>9 DEF CallInv

\* The latest report: its sections are those the results would give now, and it is
\* complete when all tasks are counted and it could be dumped.
ReportInv(T) ==
  /\ DOMAIN report.sections \subseteq CheckType
  /\ DOMAIN report.sections # {} => ~ Waits(0)
  /\ \A type \in DOMAIN report.sections :
       /\ report.sections[type] = SectionsOf(results)[type]
       /\ SectionsOf(results)[type].kind # "none"
  /\ report.complete => finished = Cardinality(DOMAIN T) /\ Dumps(results)
  /\ finished = Cardinality(DOMAIN T) => report.complete \/ ~ Dumps(results)
  /\ report.complete =>
       DOMAIN report.sections = { type \in CheckType : SectionsOf(results)[type].kind # "none" }

\* The error log of the static check, and what the latest report shows of it: one complaint
\* for each report made since it ended with a report that is not JSON.
LogInv(T) ==
  /\ errorLog \in Nat /\ shownLog \in Nat /\ shownLog <= errorLog /\ errorLog <= finished
  /\ errorLog > 0 => Unread(T, results)

\* MOJ after a report that could not be dumped: the process ends with the submission as it is.
Left(T) ==
  /\ thrown /\ calls = << >> /\ sub.server # "mcourse"
  /\ results \in Results(T) /\ ~ Dumps(results)
  /\ queue \subseteq DOMAIN T /\ finished \in 0 .. Cardinality(DOMAIN T)
  /\ ~ report.complete
  /\ \A type \in DOMAIN report.sections :
       type \in CheckType /\ report.sections[type].kind \in SectionKind

\* When all tasks are counted, all have their verdicts and no call is left.
LEMMA AllCounted ==
  ASSUME NEW T, Shape(T), CallInv(T), finished = Cardinality(DOMAIN T)
  PROVE  calls = << >> /\ DoneOn(results, DOMAIN T) /\ queue = {}
<1>1. Decided(T) \subseteq DOMAIN T /\ IsFiniteSet(DOMAIN T)
  BY ShapeFacts DEF Decided
<1>2. /\ Cardinality(Decided(T)) \in Nat /\ Cardinality(Decided(T)) <= Cardinality(DOMAIN T)
      /\ Cardinality(Decided(T)) = Cardinality(DOMAIN T) => Decided(T) = DOMAIN T
  BY <1>1, FS_Subset, FS_CardinalityType
<1>3. calls \in Seq(Frame(T)) /\ Len(calls) \in Nat /\ Cardinality(DOMAIN T) \in Nat
  BY ShapeFacts DEF CallInv, Stack
<1>4. Len(calls) = 0 /\ Decided(T) = DOMAIN T
  BY <1>2, <1>3 DEF CallInv, Tally
<1>5. DoneOn(results, DOMAIN T)
  BY <1>4 DEF Decided, DoneOn, Waits
<1>. QED  BY <1>3, <1>4, <1>5 DEF CallInv, Placed, Decided

\* If any task has its verdict, the compilation has.
LEMMA RootDecided ==
  ASSUME NEW T, Shape(T), Placed(T), NEW i \in DOMAIN T, ~ Waits(i)
  PROVE  ~ Waits(0)
<1>1. PICK D : D = { j \in DOMAIN T : ~ Waits(j) }
  OBVIOUS
<1>2. D \in SUBSET Nat /\ D # {}
  BY <1>1, ShapeFacts
<1>3. PICK m \in D : \A k \in D : m <= k
  BY <1>2, LeastElement
<1>4. m = 0
  <2>1. SUFFICES ASSUME m \in DOMAIN T \ {0}  PROVE FALSE
    BY <1>1, <1>3
  <2>2. T[m].depends_on \in DOMAIN T /\ T[m].depends_on < m /\ m \in Nat /\ T[m].depends_on \in Nat
    BY <2>1, ShapeFacts
  <2>3. ~ Waits(T[m].depends_on)
    BY <1>1, <1>3, <2>1 DEF Placed, Waits
  <2>4. T[m].depends_on \in D
    BY <1>1, <2>2, <2>3
  <2>. QED  BY <1>3, <2>2, <2>4
<1>. QED  BY <1>1, <1>3, <1>4

-----------------------------------------------------------------------------
(* The edit distance.                                                      *)

Chain(M) ==
  \A p, q \in M : p # q => (p[1] < q[1] /\ p[2] < q[2]) \/ (q[1] < p[1] /\ q[2] < p[2])

\* The alignments of the first i characters of s with the first j of t, and their cost.
Aligned(i, j) == { M \in SUBSET ((1 .. i) \X (1 .. j)) : Chain(M) }
Unlike(s, t, M) == { p \in M : s[p[1]] # t[p[2]] }
Edits(s, t, M, i, j) == i + j - 2 * Cardinality(M) + Cardinality(Unlike(s, t, M))
Unequal(s, t, i, j) == IF s[i] = t[j] THEN 0 ELSE 1

LEMMA AlignedFinite ==
  ASSUME NEW i \in Nat, NEW j \in Nat, NEW M \in Aligned(i, j), NEW s, NEW t
  PROVE  /\ IsFiniteSet(M) /\ Cardinality(M) \in Nat
         /\ IsFiniteSet(Unlike(s, t, M)) /\ Cardinality(Unlike(s, t, M)) \in Nat
<1>1. IsFiniteSet((1 .. i) \X (1 .. j))
  <2>1. IsFiniteSet(1 .. i) /\ IsFiniteSet(1 .. j)
    BY FS_Interval
  <2>. QED  BY <2>1, FS_Product
<1>2. IsFiniteSet(M)
  BY <1>1, FS_Subset DEF Aligned
<1>3. IsFiniteSet(Unlike(s, t, M))
  BY <1>2, FS_Subset DEF Unlike
<1>. QED  BY <1>2, <1>3, FS_CardinalityType

\* Nothing is aligned with the empty string.
LEMMA EditsBase ==
  ASSUME NEW i \in Nat, NEW j \in Nat, i = 0 \/ j = 0, NEW M \in Aligned(i, j), NEW s, NEW t
  PROVE  Edits(s, t, M, i, j) = i + j
<1>1. M = {}
  BY DEF Aligned
<1>2. Unlike(s, t, M) = {}
  BY <1>1 DEF Unlike
<1>3. Cardinality(M) = 0 /\ Cardinality(Unlike(s, t, M)) = 0
  BY <1>1, <1>2, FS_EmptySet
<1>. QED  BY <1>3 DEF Edits

\* The empty alignment.
LEMMA NoneAligned ==
  ASSUME NEW i \in Nat, NEW j \in Nat
  PROVE  {} \in Aligned(i, j)
BY DEF Aligned, Chain

\* One more pair at the end.
LEMMA PairAdded ==
  ASSUME NEW i \in Nat \ {0}, NEW j \in Nat \ {0}, NEW M \in Aligned(i - 1, j - 1),
         NEW s, NEW t, NEW L, L = M \cup { <<i, j>> }
  PROVE  /\ L \in Aligned(i, j)
         /\ Edits(s, t, L, i, j) = Edits(s, t, M, i - 1, j - 1) + Unequal(s, t, i, j)
<1>1. \A p \in M : p \in (1 .. i - 1) \X (1 .. j - 1) /\ p[1] < i /\ p[2] < j /\ p # <<i, j>>
  BY DEF Aligned
<1>2. L \in SUBSET ((1 .. i) \X (1 .. j))
  BY <1>1
<1>3. Chain(L)
  BY <1>1 DEF Aligned, Chain
<1>4. <<i, j>> \notin M
  BY <1>1
<1>5. IsFiniteSet(M) /\ Cardinality(M) \in Nat
      /\ IsFiniteSet(Unlike(s, t, M)) /\ Cardinality(Unlike(s, t, M)) \in Nat
  BY AlignedFinite
<1>6. Cardinality(L) = Cardinality(M) + 1
  BY <1>4, <1>5, FS_AddElement
<1>7. CASE s[i] = t[j]
  <2>1. Unlike(s, t, L) = Unlike(s, t, M)
    BY <1>7 DEF Unlike
  <2>. QED  BY <1>2, <1>3, <1>5, <1>6, <1>7, <2>1 DEF Edits, Unequal, Aligned
<1>8. CASE s[i] # t[j]
  <2>1. Unlike(s, t, L) = Unlike(s, t, M) \cup { <<i, j>> } /\ <<i, j>> \notin Unlike(s, t, M)
    BY <1>4, <1>8 DEF Unlike
  <2>2. Cardinality(Unlike(s, t, L)) = Cardinality(Unlike(s, t, M)) + 1
    BY <1>5, <2>1, FS_AddElement
  <2>. QED  BY <1>2, <1>3, <1>5, <1>6, <1>8, <2>2 DEF Edits, Unequal, Aligned
<1>. QED  BY <1>7, <1>8

\* One more character of one of the strings, which is not aligned.
LEMMA RowAdded ==
  ASSUME NEW i \in Nat \ {0}, NEW j \in Nat, NEW M \in Aligned(i - 1, j), NEW s, NEW t
  PROVE  M \in Aligned(i, j) /\ Edits(s, t, M, i, j) = Edits(s, t, M, i - 1, j) + 1
<1>1. Cardinality(M) \in Nat /\ Cardinality(Unlike(s, t, M)) \in Nat
  BY AlignedFinite
<1>2. M \in SUBSET ((1 .. i) \X (1 .. j)) /\ Chain(M)
  BY DEF Aligned
<1>. QED  BY <1>1, <1>2 DEF Aligned, Edits

\* Or it may leave out the last character of t.
LEMMA ColumnAdded ==
  ASSUME NEW i \in Nat, NEW j \in Nat \ {0}, NEW M \in Aligned(i, j - 1), NEW s, NEW t
  PROVE  M \in Aligned(i, j) /\ Edits(s, t, M, i, j) = Edits(s, t, M, i, j - 1) + 1
<1>1. Cardinality(M) \in Nat /\ Cardinality(Unlike(s, t, M)) \in Nat
  BY AlignedFinite
<1>2. M \in SUBSET ((1 .. i) \X (1 .. j)) /\ Chain(M)
  BY DEF Aligned
<1>. QED  BY <1>1, <1>2 DEF Aligned, Edits

\* Every alignment ends in one of the three ways.
LEMMA LastStep ==
  ASSUME NEW i \in Nat \ {0}, NEW j \in Nat \ {0}, NEW M \in Aligned(i, j)
  PROVE  \/ \E L \in Aligned(i - 1, j - 1) : M = L \cup { <<i, j>> }
         \/ M \in Aligned(i - 1, j)
         \/ M \in Aligned(i, j - 1)
<1>0. M \in SUBSET ((1 .. i) \X (1 .. j)) /\ Chain(M)
  BY DEF Aligned
<1>1. CASE <<i, j>> \in M
  <2>1. PICK L : L = M \ { <<i, j>> }
    OBVIOUS
  <2>2. ASSUME NEW p \in L
        PROVE  p \in (1 .. i - 1) \X (1 .. j - 1)
    <3>1. p \in M /\ p # <<i, j>> /\ p \in (1 .. i) \X (1 .. j)
      BY <1>0, <2>1
    <3>2. (p[1] < i /\ p[2] < j) \/ (i < p[1] /\ j < p[2])
      BY <1>0, <1>1, <3>1 DEF Chain
    <3>. QED  BY <3>1, <3>2
  <2>3. Chain(L)
    BY <1>0, <2>1 DEF Chain
  <2>4. M = L \cup { <<i, j>> }
    BY <1>1, <2>1
  <2>. QED  BY <2>2, <2>3, <2>4 DEF Aligned
<1>2. CASE <<i, j>> \notin M /\ \E p \in M : p[1] = i
  <2>1. PICK p \in M : p[1] = i
    BY <1>2
  <2>2. p \in (1 .. i) \X (1 .. j)
    BY <1>0
  <2>3. p[2] # j
    BY <1>2, <2>1, <2>2
  <2>4. ASSUME NEW q \in M
        PROVE  q \in (1 .. i) \X (1 .. j - 1)
    <3>1. q \in (1 .. i) \X (1 .. j)
      BY <1>0
    <3>2. CASE q = p
      BY <2>2, <2>3, <3>2
    <3>3. CASE q # p
      <4>1. (p[1] < q[1] /\ p[2] < q[2]) \/ (q[1] < p[1] /\ q[2] < p[2])
        BY <1>0, <3>3 DEF Chain
      <4>. QED  BY <2>1, <2>2, <3>1, <4>1
    <3>. QED  BY <3>2, <3>3
  <2>. QED  BY <1>0, <2>4 DEF Aligned
<1>3. CASE \A p \in M : p[1] # i
  <2>1. \A p \in M : p \in (1 .. i - 1) \X (1 .. j)
    BY <1>0, <1>3
  <2>. QED  BY <1>0, <2>1 DEF Aligned
<1>. QED  BY <1>1, <1>2, <1>3

\* No alignment costs less than nothing.
Natural(s, t, i, j) == \A M \in Aligned(i, j) : Edits(s, t, M, i, j) \in Nat

LEMMA NaturalStep ==
  ASSUME NEW s, NEW t, NEW i \in Nat \ {0}, NEW j \in Nat \ {0},
         Natural(s, t, i - 1, j), Natural(s, t, i, j - 1), Natural(s, t, i - 1, j - 1)
  PROVE  Natural(s, t, i, j)
<1>. SUFFICES ASSUME NEW M \in Aligned(i, j)  PROVE Edits(s, t, M, i, j) \in Nat
  BY DEF Natural
<1>0. i - 1 \in Nat /\ j - 1 \in Nat
  OBVIOUS
<1>1. CASE \E L \in Aligned(i - 1, j - 1) : M = L \cup { <<i, j>> }
  <2>1. PICK L \in Aligned(i - 1, j - 1) : M = L \cup { <<i, j>> }
    BY <1>1
  <2>2. Edits(s, t, M, i, j) = Edits(s, t, L, i - 1, j - 1) + Unequal(s, t, i, j)
    BY <2>1, PairAdded
  <2>3. Edits(s, t, L, i - 1, j - 1) \in Nat
    BY <2>1 DEF Natural
  <2>. QED  BY <2>2, <2>3 DEF Unequal
<1>2. CASE M \in Aligned(i - 1, j)
  <2>1. Edits(s, t, M, i, j) = Edits(s, t, M, i - 1, j) + 1
    BY <1>2, RowAdded
  <2>. QED  BY <1>2, <2>1 DEF Natural
<1>3. CASE M \in Aligned(i, j - 1)
  <2>1. Edits(s, t, M, i, j) = Edits(s, t, M, i, j - 1) + 1
    BY <1>3, ColumnAdded
  <2>. QED  BY <1>3, <2>1 DEF Natural
<1>. QED  BY <1>1, <1>2, <1>3, LastStep

\* No alignment costs less than nothing.
LEMMA EditsNatural ==
  ASSUME NEW s, NEW t, NEW i \in Nat, NEW j \in Nat
  PROVE  Natural(s, t, i, j)
<1>. DEFINE B == { n \in Nat : \E k, l \in Nat : k + l = n /\ ~ Natural(s, t, k, l) }
<1>1. SUFFICES ASSUME ~ Natural(s, t, i, j)  PROVE FALSE
  OBVIOUS
<1>2. i + j \in B
  BY <1>1
<1>3. PICK n \in B : \A m \in B : n <= m
  <2>1. B \in SUBSET Nat /\ B # {}
    BY <1>2
  <2>. HIDE DEF B
  <2>. QED  BY <2>1, LeastElement
<1>4. PICK k \in Nat, l \in Nat : k + l = n /\ ~ Natural(s, t, k, l)
  BY <1>3
<1>5. ASSUME NEW a \in Nat, NEW b \in Nat, a + b < n  PROVE Natural(s, t, a, b)
  <2>1. a + b \notin B
    <3>1. n \in Nat
      BY <1>3
    <3>2. a + b \in B => n <= a + b
      BY <1>3
    <3>. HIDE DEF B
    <3>. QED  BY <1>5, <3>1, <3>2
  <2>2. a + b \in Nat
    OBVIOUS
  <2>. QED  BY <2>1, <2>2
<1>6. k # 0 /\ l # 0
  <2>1. ASSUME k = 0 \/ l = 0  PROVE Natural(s, t, k, l)
    BY <2>1, EditsBase DEF Natural
  <2>. QED  BY <1>4, <2>1
<1>. HIDE DEF B
<1>7. /\ k \in Nat \ {0} /\ l \in Nat \ {0} /\ k - 1 \in Nat /\ l - 1 \in Nat
      /\ (k - 1) + l < n /\ k + (l - 1) < n /\ (k - 1) + (l - 1) < n
  BY <1>4, <1>6
<1>8. Natural(s, t, k - 1, l) /\ Natural(s, t, k, l - 1) /\ Natural(s, t, k - 1, l - 1)
  BY <1>5, <1>7
<1>. QED  BY <1>4, <1>7, <1>8, NaturalStep

\* v is the least number of edits of all alignments.
Least(s, t, i, j, v) ==
  /\ \E M \in Aligned(i, j) : v = Edits(s, t, M, i, j)
  /\ \A M \in Aligned(i, j) : v <= Edits(s, t, M, i, j)

\* There is a cheapest alignment.
LEMMA LeastReached ==
  ASSUME NEW s, NEW t, NEW i \in Nat, NEW j \in Nat
  PROVE  \E v \in Nat : Least(s, t, i, j, v)
<1>. DEFINE C == { Edits(s, t, M, i, j) : M \in Aligned(i, j) }
<1>1. C \in SUBSET Nat /\ C # {}
  BY EditsNatural, NoneAligned DEF Natural
<1>2. PICK v \in C : \A w \in C : v <= w
  <2>. HIDE DEF C
  <2>. QED  BY <1>1, LeastElement
<1>. QED  BY <1>1, <1>2 DEF Least

\* Against nothing, every character is an edit.
LEMMA LeastBase ==
  ASSUME NEW s, NEW t, NEW i \in Nat, NEW j \in Nat, i = 0 \/ j = 0
  PROVE  Least(s, t, i, j, i + j)
<1>1. \A M \in Aligned(i, j) : Edits(s, t, M, i, j) = i + j
  BY EditsBase
<1>. QED  BY <1>1, NoneAligned DEF Least

LeastOf(v, a, b, c) == (v = a \/ v = b \/ v = c) /\ v <= a /\ v <= b /\ v <= c

\* The table goes on with the least of three.
LEMMA LeastStep ==
  ASSUME NEW s, NEW t, NEW i \in Nat \ {0}, NEW j \in Nat \ {0},
         NEW x \in Nat, Least(s, t, i - 1, j, x), NEW y \in Nat, Least(s, t, i, j - 1, y),
         NEW z \in Nat, Least(s, t, i - 1, j - 1, z),
         NEW v \in Nat, Least(s, t, i, j, v)
  PROVE  LeastOf(v, x + 1, y + 1, z + Unequal(s, t, i, j))
<1>0. i - 1 \in Nat /\ j - 1 \in Nat /\ Unequal(s, t, i, j) \in Nat
  BY DEF Unequal
<1>1. v <= x + 1
  <2>1. PICK M \in Aligned(i - 1, j) : x = Edits(s, t, M, i - 1, j)
    BY DEF Least
  <2>2. M \in Aligned(i, j) /\ Edits(s, t, M, i, j) = x + 1
    BY <1>0, <2>1, RowAdded
  <2>. QED  BY <2>2 DEF Least
<1>2. v <= y + 1
  <2>1. PICK M \in Aligned(i, j - 1) : y = Edits(s, t, M, i, j - 1)
    BY DEF Least
  <2>2. M \in Aligned(i, j) /\ Edits(s, t, M, i, j) = y + 1
    BY <1>0, <2>1, ColumnAdded
  <2>. QED  BY <2>2 DEF Least
<1>3. v <= z + Unequal(s, t, i, j)
  <2>1. PICK M \in Aligned(i - 1, j - 1) : z = Edits(s, t, M, i - 1, j - 1)
    BY DEF Least
  <2>2. PICK L : L = M \cup { <<i, j>> }
    OBVIOUS
  <2>3. L \in Aligned(i, j) /\ Edits(s, t, L, i, j) = z + Unequal(s, t, i, j)
    BY <1>0, <2>1, <2>2, PairAdded
  <2>. QED  BY <2>3 DEF Least
<1>4. v = x + 1 \/ v = y + 1 \/ v = z + Unequal(s, t, i, j)
  <2>1. PICK M \in Aligned(i, j) : v = Edits(s, t, M, i, j)
    BY DEF Least
  <2>2. CASE \E L \in Aligned(i - 1, j - 1) : M = L \cup { <<i, j>> }
    <3>1. PICK L \in Aligned(i - 1, j - 1) : M = L \cup { <<i, j>> }
      BY <2>2
    <3>2. v = Edits(s, t, L, i - 1, j - 1) + Unequal(s, t, i, j)
      BY <1>0, <2>1, <3>1, PairAdded
    <3>3. z <= Edits(s, t, L, i - 1, j - 1)
      BY <3>1 DEF Least
    <3>4. Edits(s, t, L, i - 1, j - 1) \in Nat
      BY <1>0, <3>1, EditsNatural DEF Natural
    <3>. QED  BY <1>0, <1>3, <3>2, <3>3, <3>4
  <2>3. CASE M \in Aligned(i - 1, j)
    <3>1. v = Edits(s, t, M, i - 1, j) + 1
      BY <1>0, <2>1, <2>3, RowAdded
    <3>2. x <= Edits(s, t, M, i - 1, j)
      BY <2>3 DEF Least
    <3>3. Edits(s, t, M, i - 1, j) \in Nat
      BY <1>0, <2>3, EditsNatural DEF Natural
    <3>. QED  BY <1>1, <3>1, <3>2, <3>3
  <2>4. CASE M \in Aligned(i, j - 1)
    <3>1. v = Edits(s, t, M, i, j - 1) + 1
      BY <1>0, <2>1, <2>4, ColumnAdded
    <3>2. y <= Edits(s, t, M, i, j - 1)
      BY <2>4 DEF Least
    <3>3. Edits(s, t, M, i, j - 1) \in Nat
      BY <1>0, <2>4, EditsNatural DEF Natural
    <3>. QED  BY <1>2, <3>1, <3>2, <3>3
  <2>. QED  BY <2>2, <2>3, <2>4, LastStep
<1>. QED  BY <1>1, <1>2, <1>3, <1>4 DEF LeastOf

LEMMA MinOfThree ==
  ASSUME NEW a \in Nat, NEW b \in Nat, NEW c \in Nat
  PROVE  LeastOf(Answers!Min({a, b, c}), a, b, c)
<1>1. \E v \in {a, b, c} : \A w \in {a, b, c} : v <= w
  OBVIOUS
<1>. QED  BY <1>1 DEF Answers!Min, LeastOf

LEMMA LeastUnique ==
  ASSUME NEW s, NEW t, NEW i \in Nat, NEW j \in Nat,
         NEW v \in Nat, Least(s, t, i, j, v), NEW w \in Nat, Least(s, t, i, j, w)
  PROVE  v = w
<1>1. v <= w /\ w <= v
  BY DEF Least
<1>. QED  BY <1>1

\* It is the number that the definition without recursion gives.
LEMMA LeastIsMin ==
  ASSUME NEW s, NEW t, Len(s) \in Nat, Len(t) \in Nat,
         NEW v \in Nat, Least(s, t, Len(s), Len(t), v)
  PROVE  Answers!LeastEdits(s, t) = v
<1>1. Answers!Alignments(s, t) = Aligned(Len(s), Len(t))
  BY DEF Answers!Alignments, Aligned, Chain
<1>2. PICK C : C = { Edits(s, t, M, Len(s), Len(t)) : M \in Aligned(Len(s), Len(t)) }
  OBVIOUS
<1>3. Answers!LeastEdits(s, t) = Answers!Min(C)
  <2>1. \A S : Answers!Cardinality(S) = Cardinality(S)
    BY Zenon DEF Answers!Cardinality, Cardinality
  <2>2. C = { Len(s) + Len(t) - 2 * Answers!Cardinality(M)
               + Answers!Cardinality({ p \in M : s[p[1]] # t[p[2]] }) :
                 M \in Answers!Alignments(s, t) }
    <3>1. C = { Len(s) + Len(t) - 2 * Cardinality(M) + Cardinality(Unlike(s, t, M)) :
                  M \in Aligned(Len(s), Len(t)) }
      BY <1>2 DEF Edits
    <3>2. \A M : Cardinality(Unlike(s, t, M))
                   = Answers!Cardinality({ p \in M : s[p[1]] # t[p[2]] })
      BY <2>1 DEF Unlike
    <3>. QED  BY <1>1, <2>1, <3>1, <3>2
  <2>. QED  BY <2>2, Zenon DEF Answers!LeastEdits
<1>4. v \in C /\ \A w \in C : v <= w /\ w \in Nat
  BY <1>2, EditsNatural DEF Least, Natural
<1>5. Answers!Min(C) = v
  <2>1. \A w \in C : (\A x \in C : w <= x) => w = v
    BY <1>4
  <2>. QED  BY <1>4, <2>1 DEF Answers!Min
<1>. QED  BY <1>3, <1>5

\* The entry of a table at p, from its neighbours.
Cell(s, t, d, p) ==
  LET i == p[1]
      j == p[2]
  IN  IF i = 0 THEN j
      ELSE IF j = 0 THEN i
      ELSE Answers!Min({ d[<<i - 1, j>>] + 1, d[<<i, j - 1>>] + 1,
                         d[<<i - 1, j - 1>>] + IF s[i] = t[j] THEN 0 ELSE 1 })

Cells(s, t) == (0 .. Len(s)) \X (0 .. Len(t))
Table(s, t, d) == d = [ p \in Cells(s, t) |-> Cell(s, t, d, p) ]

\* Distance reads the last cell of a table of that form.
LEMMA DistanceTable ==
  ASSUME NEW s, NEW t, ~ (Len(s) > MaxLength \/ Len(t) > MaxLength),
         NEW d, Table(s, t, d)
  PROVE  \E e : Table(s, t, e) /\ Answers!Distance(s, t) = e[<<Len(s), Len(t)>>]
<1>1. PICK e : e = CHOOSE f : Table(s, t, f)
  OBVIOUS
<1>2. Table(s, t, e)
  BY <1>1
<1>3. Answers!Distance(s, t) = e[<<Len(s), Len(t)>>]
  BY <1>1, Zenon DEF Answers!Distance, Table, Cell, Cells
<1>. QED  BY <1>2, <1>3

\* The entry at p, if the neighbours are the least numbers of edits.
Correct(s, t, d, p) == d[p] \in Nat /\ Least(s, t, p[1], p[2], d[p])

\* A cell is right if the three cells before it are.
LEMMA CellLeast ==
  ASSUME NEW s, NEW t, NEW d, NEW i \in Nat, NEW j \in Nat,
         i # 0 /\ j # 0 => /\ Correct(s, t, d, <<i - 1, j>>)
                           /\ Correct(s, t, d, <<i, j - 1>>)
                           /\ Correct(s, t, d, <<i - 1, j - 1>>)
  PROVE  Cell(s, t, d, <<i, j>>) \in Nat /\ Least(s, t, i, j, Cell(s, t, d, <<i, j>>))
<1>1. CASE i = 0 \/ j = 0
  <2>1. Cell(s, t, d, <<i, j>>) = i + j
    BY <1>1 DEF Cell
  <2>. QED  BY <1>1, <2>1, LeastBase
<1>2. CASE i # 0 /\ j # 0
  <2>1. PICK x \in Nat, y \in Nat, z \in Nat :
          /\ x = d[<<i - 1, j>>] /\ Least(s, t, i - 1, j, x)
          /\ y = d[<<i, j - 1>>] /\ Least(s, t, i, j - 1, y)
          /\ z = d[<<i - 1, j - 1>>] /\ Least(s, t, i - 1, j - 1, z)
    BY <1>2 DEF Correct
  <2>2. PICK v \in Nat : Least(s, t, i, j, v)
    BY LeastReached
  <2>3. LeastOf(v, x + 1, y + 1, z + Unequal(s, t, i, j))
    <3>1. i \in Nat \ {0} /\ j \in Nat \ {0}
      BY <1>2
    <3>. QED  BY <2>1, <2>2, <3>1, LeastStep
  <2>4. PICK a \in Nat, b \in Nat, c \in Nat :
          a = x + 1 /\ b = y + 1 /\ c = z + Unequal(s, t, i, j)
    BY DEF Unequal
  <2>5. Cell(s, t, d, <<i, j>>) = Answers!Min({ a, b, c })
    BY <1>2, <2>1, <2>4 DEF Cell, Unequal
  <2>6. PICK w : w = Answers!Min({ a, b, c })
    OBVIOUS
  <2>7. LeastOf(w, a, b, c)
    BY <2>6, MinOfThree
  <2>9. w = v
    BY <2>3, <2>4, <2>7 DEF LeastOf
  <2>. QED  BY <2>2, <2>5, <2>6, <2>9
<1>. QED  BY <1>1, <1>2

\* A table that solves the equation contains the least numbers of edits.
LEMMA TableLeast ==
  ASSUME NEW s, NEW t, Len(s) \in Nat, Len(t) \in Nat, NEW d, Table(s, t, d),
         NEW i \in 0 .. Len(s), NEW j \in 0 .. Len(t)
  PROVE  Correct(s, t, d, <<i, j>>)
<1>. DEFINE B == { n \in Nat : \E k \in 0 .. Len(s), l \in 0 .. Len(t) :
                                 k + l = n /\ ~ Correct(s, t, d, <<k, l>>) }
<1>1. SUFFICES ASSUME ~ Correct(s, t, d, <<i, j>>)  PROVE FALSE
  OBVIOUS
<1>2. i + j \in B
  BY <1>1
<1>3. PICK n \in B : \A m \in B : n <= m
  <2>1. B \in SUBSET Nat /\ B # {}
    BY <1>2
  <2>. HIDE DEF B
  <2>. QED  BY <2>1, LeastElement
<1>4. PICK k \in 0 .. Len(s), l \in 0 .. Len(t) : k + l = n /\ ~ Correct(s, t, d, <<k, l>>)
  BY <1>3
<1>5. ASSUME NEW a \in 0 .. Len(s), NEW b \in 0 .. Len(t), a + b < n
      PROVE  Correct(s, t, d, <<a, b>>)
  <2>1. a + b \notin B
    <3>1. n \in Nat
      BY <1>3
    <3>2. a + b \in B => n <= a + b
      BY <1>3
    <3>. HIDE DEF B
    <3>. QED  BY <1>5, <3>1, <3>2
  <2>2. a + b \in Nat
    OBVIOUS
  <2>. QED  BY <2>1, <2>2
<1>. HIDE DEF B
<1>6. k \in Nat /\ l \in Nat
  OBVIOUS
<1>7. k # 0 /\ l # 0 => /\ Correct(s, t, d, <<k - 1, l>>)
                        /\ Correct(s, t, d, <<k, l - 1>>)
                        /\ Correct(s, t, d, <<k - 1, l - 1>>)
  <2>. SUFFICES ASSUME k # 0, l # 0
                PROVE  /\ Correct(s, t, d, <<k - 1, l>>)
                       /\ Correct(s, t, d, <<k, l - 1>>)
                       /\ Correct(s, t, d, <<k - 1, l - 1>>)
    OBVIOUS
  <2>1. /\ k - 1 \in 0 .. Len(s) /\ l - 1 \in 0 .. Len(t)
        /\ (k - 1) + l < n /\ k + (l - 1) < n /\ (k - 1) + (l - 1) < n
    BY <1>4
  <2>. QED  BY <1>5, <2>1
<1>8. d[<<k, l>>] = Cell(s, t, d, <<k, l>>)
  BY DEF Table, Cells
<1>9. Cell(s, t, d, <<k, l>>) \in Nat /\ Least(s, t, k, l, Cell(s, t, d, <<k, l>>))
  BY <1>6, <1>7, CellLeast
<1>. QED  BY <1>4, <1>8, <1>9 DEF Correct

\* There is such a table.
LEMMA TableExists ==
  ASSUME NEW s, NEW t, Len(s) \in Nat, Len(t) \in Nat
  PROVE  \E d : Table(s, t, d)
<1>1. PICK d : d = [ p \in Cells(s, t) |-> CHOOSE v \in Nat : Least(s, t, p[1], p[2], v) ]
  OBVIOUS
<1>2. ASSUME NEW i \in 0 .. Len(s), NEW j \in 0 .. Len(t)
      PROVE  Correct(s, t, d, <<i, j>>)
  <2>1. d[<<i, j>>] = CHOOSE v \in Nat : Least(s, t, i, j, v)
    BY <1>1 DEF Cells
  <2>2. \E v \in Nat : Least(s, t, i, j, v)
    <3>1. i \in Nat /\ j \in Nat
      OBVIOUS
    <3>. QED  BY <3>1, LeastReached
  <2>. QED  BY <2>1, <2>2 DEF Correct
<1>3. ASSUME NEW i \in 0 .. Len(s), NEW j \in 0 .. Len(t)
      PROVE  d[<<i, j>>] = Cell(s, t, d, <<i, j>>)
  <2>1. i # 0 /\ j # 0 => /\ i - 1 \in 0 .. Len(s) /\ j - 1 \in 0 .. Len(t)
    OBVIOUS
  <2>2. i # 0 /\ j # 0 => /\ Correct(s, t, d, <<i - 1, j>>)
                          /\ Correct(s, t, d, <<i, j - 1>>)
                          /\ Correct(s, t, d, <<i - 1, j - 1>>)
    BY <1>2, <2>1
  <2>3. PICK v : v = Cell(s, t, d, <<i, j>>)
    OBVIOUS
  <2>4. v \in Nat /\ Least(s, t, i, j, v)
    BY <2>2, <2>3, CellLeast
  <2>5. d[<<i, j>>] \in Nat /\ Least(s, t, i, j, d[<<i, j>>])
    BY <1>2 DEF Correct
  <2>. QED  BY <2>3, <2>4, <2>5, LeastUnique
<1>4. \A p \in Cells(s, t) : d[p] = Cell(s, t, d, p)
  <2>. SUFFICES ASSUME NEW p \in Cells(s, t)  PROVE d[p] = Cell(s, t, d, p)
    OBVIOUS
  <2>1. p[1] \in 0 .. Len(s) /\ p[2] \in 0 .. Len(t) /\ p = << p[1], p[2] >>
    BY DEF Cells
  <2>2. d[<< p[1], p[2] >>] = Cell(s, t, d, << p[1], p[2] >>)
    BY <1>3, <2>1
  <2>. QED  BY <2>1, <2>2
<1>5. d = [ p \in Cells(s, t) |-> d[p] ]
  BY <1>1
<1>. QED  BY <1>4, <1>5 DEF Table

\* What calc_edit_distance fills its table with is the edit distance.
LEMMA DistanceIsLeast ==
  ASSUME NEW s, NEW t, Len(s) \in Nat, Len(t) \in Nat,
         ~ (Len(s) > MaxLength \/ Len(t) > MaxLength)
  PROVE  /\ Answers!Distance(s, t) \in Nat /\ Answers!Distance(s, t) = Answers!LeastEdits(s, t)
         /\ Least(s, t, Len(s), Len(t), Answers!Distance(s, t))
<1>1. PICK d : Table(s, t, d)
  BY TableExists
<1>2. PICK e : Table(s, t, e) /\ Answers!Distance(s, t) = e[<<Len(s), Len(t)>>]
  BY <1>1, DistanceTable
<1>3. PICK v : v = Answers!Distance(s, t)
  OBVIOUS
<1>4. v \in Nat /\ Least(s, t, Len(s), Len(t), v)
  BY <1>2, <1>3, TableLeast DEF Correct
<1>5. Answers!LeastEdits(s, t) = v
  BY <1>4, LeastIsMin
<1>. QED  BY <1>3, <1>4, <1>5

-----------------------------------------------------------------------------
(* Loops.  What is computed element by element of a list is a recursive    *)
(* function in the model, and TLA+ has to be shown that there is one.      *)

Iterates(f, n, V, a, F) ==
  f \in [0 .. n -> V] /\ f[0] = a /\ \A k \in 1 .. n : f[k] = F[<<k, f[k - 1]>>]

\* By the least loop that there is none of.
LEMMA Iteration ==
  ASSUME NEW n \in Nat, NEW V, NEW a \in V, NEW F \in [(1 .. n) \X V -> V]
  PROVE  \E f : Iterates(f, n, V, a, F)
<1>. DEFINE Good(m) == \E f : Iterates(f, m, V, a, F)
            B == { m \in 0 .. n : ~ Good(m) }
<1>1. SUFFICES ASSUME ~ Good(n)  PROVE FALSE
  OBVIOUS
<1>2. n \in B
  BY <1>1
<1>3. PICK m \in B : \A l \in B : m <= l
  <2>. HIDE DEF Good
  <2>1. B \in SUBSET Nat
    OBVIOUS
  <2>2. B # {}
    BY <1>2
  <2>. HIDE DEF B
  <2>. QED  BY <2>1, <2>2, LeastElement
<1>4. m \in 0 .. n /\ ~ Good(m)
  BY <1>3
<1>5. m # 0
  <2>1. PICK f : f = [ k \in 0 .. 0 |-> a ]
    OBVIOUS
  <2>2. f \in [0 .. 0 -> V] /\ f[0] = a /\ \A k \in 1 .. 0 : f[k] = F[<<k, f[k - 1]>>]
    BY <2>1
  <2>3. Good(0)
    BY <2>2 DEF Iterates
  <2>. QED  BY <1>4, <2>3
<1>6. m - 1 \in 0 .. n /\ m - 1 \notin B
  <2>1. m \in Nat /\ m - 1 \in 0 .. n
    BY <1>4, <1>5
  <2>2. m - 1 \in B => m <= m - 1
    BY <1>3
  <2>. HIDE DEF B
  <2>. QED  BY <2>1, <2>2
<1>7. PICK f \in [0 .. m - 1 -> V] :
        f[0] = a /\ \A k \in 1 .. m - 1 : f[k] = F[<<k, f[k - 1]>>]
  BY <1>6 DEF Iterates
<1>8. PICK g : g = [ k \in 0 .. m |-> IF k = m THEN F[<<m, f[m - 1]>>] ELSE f[k] ]
  OBVIOUS
<1>9. g \in [0 .. m -> V]
  <2>1. m \in 1 .. n /\ f[m - 1] \in V
    BY <1>4, <1>5
  <2>2. F[<<m, f[m - 1]>>] \in V
    BY <2>1
  <2>3. \A k \in 0 .. m : k # m => f[k] \in V
    BY <1>4
  <2>. QED  BY <1>8, <2>2, <2>3
<1>10. g[0] = a
  BY <1>4, <1>5, <1>7, <1>8
<1>11. ASSUME NEW k \in 1 .. m  PROVE g[k] = F[<<k, g[k - 1]>>]
  <2>1. g[k - 1] = f[k - 1]
    BY <1>4, <1>8
  <2>2. k # m => f[k] = F[<<k, f[k - 1]>>] /\ g[k] = f[k]
    BY <1>4, <1>7, <1>8
  <2>3. CASE k = m
    <3>1. g[m] = F[<<m, f[m - 1]>>]
      BY <1>8, <2>3
    <3>. QED  BY <2>1, <2>3, <3>1
  <2>. QED  BY <2>1, <2>2, <2>3
<1>12. Good(m)
  BY <1>9, <1>10, <1>11 DEF Iterates
<1>. QED  BY <1>4, <1>12

\* string_preprocess copies some of the characters.
LEMMA StrippedType ==
  ASSUME NEW C, NEW s \in Seq(C)
  PROVE  Answers!Stripped(s) \in Seq(C)
<1>. DEFINE Blank == { " ", "\n" }
            Solves(f) == f = [ n \in 0 .. Len(s) |->
                                 IF n = 0 THEN << >>
                                 ELSE IF s[n] \in Blank THEN f[n - 1] ELSE Append(f[n - 1], s[n]) ]
<1>1. \E f : Solves(f)
  <2>1. PICK F : F = [ p \in (1 .. Len(s)) \X Seq(C) |->
                         IF s[p[1]] \in Blank THEN p[2] ELSE Append(p[2], s[p[1]]) ]
    OBVIOUS
  <2>2. ASSUME NEW k \in 1 .. Len(s), NEW v \in Seq(C)
        PROVE  /\ F[<<k, v>>] = IF s[k] \in Blank THEN v ELSE Append(v, s[k])
               /\ F[<<k, v>>] \in Seq(C)
    <3>. HIDE DEF Blank
    <3>1. <<k, v>> \in (1 .. Len(s)) \X Seq(C)
      OBVIOUS
    <3>2. F[<<k, v>>] = IF s[k] \in Blank THEN v ELSE Append(v, s[k])
      BY <2>1, <3>1
    <3>3. s[k] \in C
      OBVIOUS
    <3>. QED  BY <3>2, <3>3
  <2>3. F \in [(1 .. Len(s)) \X Seq(C) -> Seq(C)]
    <3>1. \A p \in (1 .. Len(s)) \X Seq(C) :
            p[1] \in 1 .. Len(s) /\ p[2] \in Seq(C) /\ p = << p[1], p[2] >>
      OBVIOUS
    <3>2. \A p \in (1 .. Len(s)) \X Seq(C) : F[p] \in Seq(C)
      BY <2>2, <3>1
    <3>3. F = [ p \in (1 .. Len(s)) \X Seq(C) |-> F[p] ]
      BY <2>1
    <3>. HIDE DEF Blank
    <3>. QED  BY <3>2, <3>3
  <2>5. PICK f \in [0 .. Len(s) -> Seq(C)] :
          f[0] = << >> /\ \A k \in 1 .. Len(s) : f[k] = F[<<k, f[k - 1]>>]
    <3>1. PICK m, V, a : m = Len(s) /\ V = Seq(C) /\ a = << >>
      OBVIOUS
    <3>2. m \in Nat /\ a \in V /\ F \in [(1 .. m) \X V -> V]
      BY <2>3, <3>1
    <3>3. \E f : Iterates(f, m, V, a, F)
      BY <3>2, Iteration
    <3>. QED  BY <3>1, <3>3 DEF Iterates
  <2>. HIDE DEF Blank
  <2>6. ASSUME NEW k \in 0 .. Len(s)
        PROVE  f[k] = IF k = 0 THEN << >>
                      ELSE IF s[k] \in Blank THEN f[k - 1] ELSE Append(f[k - 1], s[k])
    <3>1. CASE k = 0
      BY <2>5, <3>1
    <3>2. CASE k # 0
      <4>1. k \in 1 .. Len(s) /\ k - 1 \in 0 .. Len(s)
        BY <3>2
      <4>2. f[k] = F[<<k, f[k - 1]>>] /\ f[k - 1] \in Seq(C)
        BY <2>5, <4>1
      <4>. QED  BY <2>2, <3>2, <4>1, <4>2
    <3>. QED  BY <3>1, <3>2
  <2>. QED  BY <2>6
<1>2. PICK f : f = CHOOSE g : Solves(g)
  OBVIOUS
<1>3. Solves(f)
  BY <1>1, <1>2
<1>4. Answers!Stripped(s) = f[Len(s)]
  BY <1>2, Zenon DEF Answers!Stripped
<1>5. ASSUME NEW k \in 0 .. Len(s)
      PROVE  f[k] = IF k = 0 THEN << >>
                    ELSE IF s[k] \in Blank THEN f[k - 1] ELSE Append(f[k - 1], s[k])
  BY <1>3
<1>. HIDE DEF Blank, Solves
<1>6. \A k \in 0 .. Len(s) : f[k] \in Seq(C)
  <2>. DEFINE B == { m \in 0 .. Len(s) : f[m] \notin Seq(C) }
  <2>1. SUFFICES ASSUME B # {}  PROVE FALSE
    OBVIOUS
  <2>2. PICK m \in B : \A l \in B : m <= l
    <3>1. B \in SUBSET Nat /\ B # {}
      BY <2>1
    <3>. HIDE DEF B
    <3>. QED  BY <3>1, LeastElement
  <2>3. m \in 0 .. Len(s) /\ f[m] \notin Seq(C)
    BY <2>2
  <2>4. m # 0
    <3>1. f[0] = << >>
      BY <1>5
    <3>2. << >> \in Seq(C)
      OBVIOUS
    <3>. QED  BY <2>3, <3>1, <3>2
  <2>5. m - 1 \in 0 .. Len(s) /\ m - 1 \notin B
    <3>1. m \in Nat /\ m - 1 \in 0 .. Len(s)
      BY <2>3, <2>4
    <3>2. m - 1 \in B => m <= m - 1
      BY <2>2
    <3>. HIDE DEF B
    <3>. QED  BY <3>1, <3>2
  <2>6. f[m - 1] \in Seq(C)
    BY <2>5
  <2>7. s[m] \in C
    BY <2>3, <2>4
  <2>8. f[m] = f[m - 1] \/ f[m] = Append(f[m - 1], s[m])
    BY <1>5, <2>3, <2>4
  <2>9. Append(f[m - 1], s[m]) \in Seq(C)
    BY <2>6, <2>7
  <2>. QED  BY <2>3, <2>6, <2>8, <2>9
<1>. QED  BY <1>4, <1>6

\* Two texts are the same if and only if no edit is needed.
Alike(s, t, i) == \A k \in 1 .. i : s[k] = t[k]

LEMMA NoEdits ==
  ASSUME NEW s, NEW t, NEW n \in Nat, Alike(s, t, n)
  PROVE  Least(s, t, n, n, 0)
<1>. DEFINE B == { m \in 0 .. n : ~ Least(s, t, m, m, 0) }
<1>1. SUFFICES ASSUME ~ Least(s, t, n, n, 0)  PROVE FALSE
  OBVIOUS
<1>2. PICK m \in B : \A l \in B : m <= l
  <2>1. B \in SUBSET Nat /\ B # {}
    BY <1>1
  <2>. HIDE DEF B
  <2>. QED  BY <2>1, LeastElement
<1>3. m \in 0 .. n /\ ~ Least(s, t, m, m, 0)
  BY <1>2
<1>4. m # 0
  <2>1. Least(s, t, 0, 0, 0 + 0)
    BY LeastBase
  <2>. QED  BY <1>3, <2>1
<1>5. m \in Nat \ {0} /\ m - 1 \in 0 .. n /\ m - 1 \in Nat
  BY <1>3, <1>4
<1>6. Least(s, t, m - 1, m - 1, 0)
  <2>1. m - 1 \in B => m <= m - 1
    BY <1>2
  <2>2. m - 1 \notin B
    <3>. HIDE DEF B
    <3>. QED  BY <1>5, <2>1
  <2>. QED  BY <1>5, <2>2
<1>7. PICK x \in Nat, y \in Nat, v \in Nat :
        Least(s, t, m - 1, m, x) /\ Least(s, t, m, m - 1, y) /\ Least(s, t, m, m, v)
  BY <1>5, LeastReached
<1>8. LeastOf(v, x + 1, y + 1, 0 + Unequal(s, t, m, m))
  BY <1>5, <1>6, <1>7, LeastStep
<1>9. Unequal(s, t, m, m) = 0
  BY <1>3, <1>5 DEF Unequal, Alike
<1>10. v = 0
  BY <1>8, <1>9 DEF LeastOf
<1>. QED  BY <1>3, <1>7, <1>10

\* No edit is needed to make the first i characters of s the first j of t.
Free(s, t, i, j) == Least(s, t, i, j, 0)

\* An alignment that costs nothing pairs each character with its like.
LEMMA EditsNeeded ==
  ASSUME NEW s, NEW t, NEW i \in Nat, NEW j \in Nat, Free(s, t, i, j)
  PROVE  i = j /\ Alike(s, t, i)
<1>. DEFINE Bad(k, l) == Free(s, t, k, l) /\ ~ (k = l /\ Alike(s, t, k))
            B == { k \in Nat : \E l \in Nat : Bad(k, l) }
<1>1. SUFFICES ASSUME Bad(i, j)  PROVE FALSE
  OBVIOUS
<1>2. PICK k \in B : \A m \in B : k <= m
  <2>1. B \in SUBSET Nat /\ B # {}
    BY <1>1
  <2>. HIDE DEF B
  <2>. QED  BY <2>1, LeastElement
<1>3. PICK l \in Nat : Bad(k, l)
  BY <1>2
<1>4. k \in Nat
  BY <1>2
<1>5. k # 0 /\ l # 0
  <2>1. ASSUME k = 0 \/ l = 0  PROVE k = l /\ Alike(s, t, k)
    <3>1. Least(s, t, k, l, k + l)
      BY <1>4, <2>1, LeastBase
    <3>2. k + l = 0
      BY <1>3, <1>4, <3>1, LeastUnique DEF Free
    <3>. QED  BY <1>4, <3>2 DEF Alike
  <2>. QED  BY <1>3, <2>1
<1>6. /\ k \in Nat \ {0} /\ l \in Nat \ {0} /\ k - 1 \in Nat /\ l - 1 \in Nat
  BY <1>4, <1>5
<1>7. PICK x \in Nat, y \in Nat, z \in Nat :
        /\ Least(s, t, k - 1, l, x) /\ Least(s, t, k, l - 1, y)
        /\ Least(s, t, k - 1, l - 1, z)
  BY <1>6, LeastReached
<1>8. LeastOf(0, x + 1, y + 1, z + Unequal(s, t, k, l))
  BY <1>3, <1>6, <1>7, LeastStep DEF Free
<1>9. z = 0 /\ s[k] = t[l]
  BY <1>8 DEF LeastOf, Unequal
<1>10. ~ Bad(k - 1, l - 1)
  <2>1. k - 1 \in B => k <= k - 1
    BY <1>2
  <2>2. k - 1 \notin B
    <3>. HIDE DEF B
    <3>. QED  BY <1>6, <2>1
  <2>. QED  BY <1>6, <2>2
<1>11. k - 1 = l - 1 /\ Alike(s, t, k - 1)
  BY <1>7, <1>9, <1>10 DEF Free
<1>12. k = l /\ Alike(s, t, k)
  <2>1. k = l
    BY <1>6, <1>11
  <2>2. \A m \in 1 .. k : m = k \/ m \in 1 .. k - 1
    BY <1>6
  <2>. QED  BY <1>9, <1>11, <2>1, <2>2 DEF Alike
<1>. QED  BY <1>3, <1>12

\* The texts are the same if and only if they are as sequences.
LEMMA SameText ==
  ASSUME NEW C, NEW s \in Seq(C), NEW t \in Seq(C)
  PROVE  Least(s, t, Len(s), Len(t), 0) <=> s = t
<1>1. Len(s) \in Nat /\ Len(t) \in Nat
  OBVIOUS
<1>2. ASSUME s = t  PROVE Least(s, t, Len(s), Len(t), 0)
  <2>1. Alike(s, t, Len(s))
    BY <1>2 DEF Alike
  <2>. QED  BY <1>1, <1>2, <2>1, NoEdits
<1>3. ASSUME Least(s, t, Len(s), Len(t), 0)  PROVE s = t
  <2>1. Len(s) = Len(t) /\ Alike(s, t, Len(s))
    BY <1>1, <1>3, EditsNeeded DEF Free
  <2>2. \A k \in 1 .. Len(s) : s[k] = t[k]
    BY <2>1 DEF Alike
  <2>. QED  BY <2>1, <2>2, SeqEqual
<1>. QED  BY <1>2, <1>3

-----------------------------------------------------------------------------
(* The grade of an output.                                                 *)

\* Division rounds down.
LEMMA Quotient ==
  ASSUME NEW a \in Int, NEW b \in Nat \ {0}
  PROVE  /\ a \div b \in Int
         /\ (a \div b) * b <= a /\ a < ((a \div b) + 1) * b
OBVIOUS

LEMMA Cancel ==
  ASSUME NEW x \in Int, NEW y \in Int, NEW m \in Nat \ {0}, x * m < y * m
  PROVE  x < y
<1>1. SUFFICES ASSUME y <= x  PROVE y * m <= x * m
  OBVIOUS
<1>2. PICK d \in Nat : x = y + d
  <2>1. x - y \in Nat /\ x = y + (x - y)
    BY <1>1
  <2>. QED  BY <2>1
<1>3. d * m \in Nat
  OBVIOUS
<1>4. x * m = y * m + d * m
  BY <1>2
<1>5. y * m \in Int
  OBVIOUS
<1>. QED  BY <1>3, <1>4, <1>5

\* What is left of a grade is all of it if and only if nothing is lost.
LEMMA FullGrade ==
  ASSUME NEW full \in Nat \ {0}, NEW most \in Nat \ {0}, NEW lost \in Nat,
         NEW grade \in Int, grade * most <= full * (most - lost),
         full * (most - lost) < (grade + 1) * most
  PROVE  grade = full <=> lost = 0
<1>1. ASSUME lost = 0  PROVE grade = full
  <2>1. most - lost = most
    BY <1>1
  <2>2. full * most < (grade + 1) * most /\ grade * most <= full * most
    BY <2>1
  <2>3. full < grade + 1
    BY <2>2, Cancel
  <2>4. grade < full + 1
    <3>1. (full + 1) * most = full * most + most /\ full * most \in Int /\ grade * most \in Int
      OBVIOUS
    <3>2. grade * most < (full + 1) * most
      BY <2>2, <3>1
    <3>. QED  BY <3>2, Cancel
  <2>. QED  BY <2>3, <2>4
<1>2. ASSUME grade = full  PROVE lost = 0
  <2>1. full * (most - lost) = full * most - full * lost
    OBVIOUS
  <2>2. full * lost \in Nat /\ full * most \in Nat /\ full * most <= full * (most - lost)
    BY <1>2
  <2>3. full * lost = 0
    BY <2>1, <2>2
  <2>4. lost * full < 1 * full
    BY <2>3
  <2>5. lost < 1
    BY <2>4, Cancel
  <2>. QED  BY <2>5
<1>. QED  BY <1>1, <1>2

\* What OutputsAsDefined says of one question.
OutputEarns(grade, full, s, t) ==
  LET most == Answers!Longest(s, t)
      earned == full * (most - Answers!LeastEdits(s, t))
  IN  most <= MaxLength =>
        /\ grade * most <= earned /\ earned < (grade + 1) * most
        /\ full > 0 => (grade = full <=> s = t)

\* OutputGrade, for a question that asks for some output.
LEMMA OutputGraded ==
  ASSUME NEW q, q.standard \in Seq(STRING), q.student \in Seq(STRING), q.full \in Nat,
         Answers!Stripped(q.standard) # << >>
  PROVE  /\ Answers!OutputGrade(q) \in Int
         /\ OutputEarns(Answers!OutputGrade(q), q.full,
                    Answers!Stripped(q.standard), Answers!Stripped(q.student))
<1>1. PICK s \in Seq(STRING), t \in Seq(STRING) :
        s = Answers!Stripped(q.standard) /\ t = Answers!Stripped(q.student)
  BY StrippedType
<1>2. PICK full \in Nat, grade \in { Answers!OutputGrade(q) } : full = q.full
  OBVIOUS
<1>3. Len(s) \in Nat \ {0} /\ Len(t) \in Nat
  BY <1>1
<1>4. PICK most \in Nat \ {0} : most = Answers!Longest(s, t) /\ Len(s) <= most /\ Len(t) <= most
  BY <1>3 DEF Answers!Longest
<1>5. PICK lost : lost = Answers!Distance(s, t)
  OBVIOUS
<1>6. grade = (full * (most - lost)) \div most
  BY <1>1, <1>2, <1>4, <1>5, Zenon DEF Answers!OutputGrade
<1>7. CASE most <= MaxLength
  <2>1. ~ (Len(s) > MaxLength \/ Len(t) > MaxLength)
    BY <1>3, <1>4, <1>7, LengthAssumption
  <2>2. lost \in Nat /\ lost = Answers!LeastEdits(s, t) /\ Least(s, t, Len(s), Len(t), lost)
    BY <1>3, <1>5, <2>1, DistanceIsLeast
  <2>3. /\ full * (most - lost) \in Int /\ grade \in Int
        /\ grade * most <= full * (most - lost) /\ full * (most - lost) < (grade + 1) * most
    <3>1. PICK a \in Int : a = full * (most - lost)
      BY <2>2
    <3>. QED  BY <1>6, <3>1, Quotient
  <2>4. lost = 0 <=> s = t
    <3>1. lost = 0 <=> Least(s, t, Len(s), Len(t), 0)
      BY <1>3, <2>2, LeastUnique
    <3>. QED  BY <3>1, SameText
  <2>5. full > 0 => (grade = full <=> lost = 0)
    <3>. SUFFICES ASSUME full > 0  PROVE grade = full <=> lost = 0
      OBVIOUS
    <3>1. full \in Nat \ {0}
      OBVIOUS
    <3>. QED  BY <2>2, <2>3, <3>1, FullGrade
  <2>6. OutputEarns(grade, full, s, t)
    BY <1>4, <2>2, <2>3, <2>4, <2>5 DEF OutputEarns
  <2>. QED  BY <1>1, <1>2, <2>3, <2>6
<1>8. CASE ~ (most <= MaxLength)
  <2>1. lost \in Nat
    <3>1. CASE Len(s) > MaxLength \/ Len(t) > MaxLength
      BY <1>5, <3>1 DEF Answers!Distance
    <3>2. CASE ~ (Len(s) > MaxLength \/ Len(t) > MaxLength)
      BY <1>3, <1>5, <3>2, DistanceIsLeast
    <3>. QED  BY <3>1, <3>2
  <2>2. grade \in Int
    <3>1. PICK a \in Int : a = full * (most - lost)
      BY <2>1
    <3>. QED  BY <1>6, <3>1, Quotient
  <2>3. OutputEarns(grade, full, s, t)
    BY <1>4, <1>8 DEF OutputEarns
  <2>. QED  BY <1>1, <1>2, <2>2, <2>3
<1>. QED  BY <1>7, <1>8

-----------------------------------------------------------------------------
(* The bits of a choice.                                                  *)

\* A mask has the bit of a choice, if the choice is in the set: the bits that choice 31 sets
\* besides belong to no other choice.
LEMMA MaskBit ==
  ASSUME NEW x \in ChoiceSet, NEW c \in Answers!Choice
  PROVE  c \in Answers!Mask(x) <=> c \in x
<1>1. \A d \in Answers!Choice : d \in Answers!Bits(d)
  BY DEF Answers!Bits, Answers!Choice
<1>2. \A d \in Answers!Choice : c \in Answers!Bits(d) => c = d
  BY DEF Answers!Bits, Answers!Choice
<1>. QED  BY <1>1, <1>2 DEF Answers!Mask, ChoiceSet

\* So masks are included in each other as the sets are.
LEMMA MaskIncluded ==
  ASSUME NEW x \in ChoiceSet, NEW y \in ChoiceSet
  PROVE  Answers!Mask(x) \subseteq Answers!Mask(y) <=> x \subseteq y
<1>1. ASSUME Answers!Mask(x) \subseteq Answers!Mask(y), NEW c \in x  PROVE c \in y
  <2>1. c \in Answers!Choice
    BY DEF ChoiceSet
  <2>. QED  BY <1>1, <2>1, MaskBit
<1>2. ASSUME x \subseteq y  PROVE Answers!Mask(x) \subseteq Answers!Mask(y)
  BY <1>2 DEF Answers!Mask
<1>. QED  BY <1>1, <1>2

\* The comparison of the masks is the comparison of the sets.
LEMMA ChoiceGraded ==
  ASSUME NEW q, q.standard \in ChoiceSet, q.student \in ChoiceSet
  PROVE  q.student # {} =>
           Answers!ChoiceGrade(q)
             = Answers!ChoiceDefined(q.standard, q.student, q.full, q.half)
<1>1. PICK x \in ChoiceSet, y \in ChoiceSet : x = q.student /\ y = q.standard
  OBVIOUS
<1>2. PICK ans, std : ans = Answers!Mask(x) /\ std = Answers!Mask(y)
  OBVIOUS
<1>3. (ans \subseteq std <=> x \subseteq y) /\ (std \subseteq ans <=> y \subseteq x)
  BY <1>2, MaskIncluded
<1>4. (ans = std <=> x = y) /\ (ans \cap std = ans <=> x \subseteq y)
  BY <1>3
<1>5. Answers!ChoiceGrade(q) = IF ans = std THEN q.full
                               ELSE IF ans \cap std = ans THEN q.half ELSE 0
  BY <1>1, <1>2 DEF Answers!ChoiceGrade
<1>6. x # {} => Answers!ChoiceDefined(y, x, q.full, q.half)
                  = IF x = y THEN q.full ELSE IF x \subseteq y THEN q.half ELSE 0
  BY DEF Answers!ChoiceDefined
<1>. QED  BY <1>1, <1>4, <1>5, <1>6

LEMMA ChoiceGradeType ==
  ASSUME NEW q, q.full \in Int, q.half \in Int
  PROVE  Answers!ChoiceGrade(q) \in Int
<1>1. \/ Answers!ChoiceGrade(q) = q.full
      \/ Answers!ChoiceGrade(q) = q.half
      \/ Answers!ChoiceGrade(q) = 0
  BY DEF Answers!ChoiceGrade
<1>. QED  BY <1>1

-----------------------------------------------------------------------------
(* Sums.  SumFunctionOnSet is a fold over the elements of a set, in the    *)
(* order CHOOSE takes them.                                                *)

\* Every nonempty collection of subsets of a finite set has a smallest one.
LEMMA SmallestSet ==
  ASSUME NEW S, IsFiniteSet(S), NEW B \in SUBSET (SUBSET S), B # {}
  PROVE  \E t \in B : \A u \in SUBSET t : u # t => u \notin B
<1>1. IsWellFoundedOn(StrictSubsetOrdering(S), SUBSET S)
  BY FS_StrictSubsetOrderingWellFounded, FS_FiniteSubsetsOfFinite
<1>2. PICK t \in B : \A u \in B : ~ (<<u, t>> \in StrictSubsetOrdering(S))
  BY <1>1, WFMin
<1>3. ASSUME NEW u \in SUBSET t, u # t, u \in B
      PROVE  FALSE
  BY <1>2, <1>3 DEF StrictSubsetOrdering
<1>. QED  BY <1>3

Pick(s) == CHOOSE x \in s : TRUE

\* The equation that the fold solves.
Adds(f, g, S) == g = [ s \in SUBSET S |-> IF s = {} THEN 0 ELSE f[Pick(s)] + g[s \ {Pick(s)}] ]

\* A sum is what a solution of the equation says of the whole set.
LEMMA SumUnfolded ==
  ASSUME NEW f, NEW S
  PROVE  SumFunctionOnSet(f, S) = (CHOOSE g : Adds(f, g, S))[S]
BY DEF SumFunctionOnSet, FoldFunctionOnSet, MapThenFoldSet, Adds, Pick

LEMMA Picked ==
  ASSUME NEW s, s # {}
  PROVE  Pick(s) \in s /\ s \ {Pick(s)} \subseteq s /\ s \ {Pick(s)} # s
BY DEF Pick

\* The same at each set on its own.
Solves(f, g, S) ==
  \A s \in SUBSET S : g[s] = IF s = {} THEN 0 ELSE f[Pick(s)] + g[s \ {Pick(s)}]

\* There is one solution at most: two would differ at a smallest set.
LEMMA SolutionUnique ==
  ASSUME NEW f, NEW S, IsFiniteSet(S), NEW g, NEW h, Solves(f, g, S), Solves(f, h, S)
  PROVE  \A s \in SUBSET S : g[s] = h[s]
<1>1. PICK B \in SUBSET (SUBSET S) : B = { s \in SUBSET S : g[s] # h[s] }
  OBVIOUS
<1>2. CASE B # {}
  <2>1. PICK t \in B : \A u \in SUBSET t : u # t => u \notin B
    BY <1>2, SmallestSet
  <2>2. t \in SUBSET S /\ g[t] # h[t]
    BY <1>1
  <2>3. t # {}
    BY <2>2 DEF Solves
  <2>4. PICK r : r = t \ {Pick(t)}
    OBVIOUS
  <2>5. r \in SUBSET t /\ r # t
    BY <2>3, <2>4, Picked
  <2>6. g[r] = h[r]
    BY <1>1, <2>1, <2>2, <2>5
  <2>7. g[t] = f[Pick(t)] + g[r] /\ h[t] = f[Pick(t)] + h[r]
    BY <2>2, <2>3, <2>4 DEF Solves
  <2>. QED  BY <2>2, <2>6, <2>7
<1>. QED  BY <1>1, <1>2

\* And there is one: otherwise there would be a smallest set without.
LEMMA SolutionExists ==
  ASSUME NEW f, NEW S, IsFiniteSet(S)
  PROVE  \E g : Adds(f, g, S)
<1> DEFINE Best(t) == (CHOOSE h : Solves(f, h, t))[t]
<1>1. PICK G : G = [ s \in SUBSET S |-> Best(s) ]
  OBVIOUS
<1> DEFINE Value(s) == IF s = {} THEN 0 ELSE f[Pick(s)] + G[s \ {Pick(s)}]
<1>2. PICK B \in SUBSET (SUBSET S) : B = { s \in SUBSET S : G[s] # Value(s) }
  OBVIOUS
<1>3. CASE B # {}
  <2>1. PICK t \in B : \A u \in SUBSET t : u # t => u \notin B
    BY <1>3, SmallestSet
  <2>2. t \in SUBSET S /\ G[t] # Value(t)
    BY <1>2
  <2>3. \A u \in SUBSET t : u # t => G[u] = Value(u)
    BY <1>2, <2>1, <2>2
  <2>4. PICK h : h = [ s \in SUBSET t |-> IF s = t THEN Value(t) ELSE G[s] ]
    OBVIOUS
  <2>5. Solves(f, h, t)
    <3>1. ASSUME NEW s \in SUBSET t
          PROVE  h[s] = IF s = {} THEN 0 ELSE f[Pick(s)] + h[s \ {Pick(s)}]
      <4>1. h[s] = Value(s)
        BY <2>3, <2>4
      <4>2. CASE s # {}
        <5>1. PICK r : r = s \ {Pick(s)}
          OBVIOUS
        <5>2. r \in SUBSET t /\ r # t
          BY <4>2, <5>1, Picked
        <5>3. h[r] = G[r]
          BY <2>4, <5>2
        <5>. QED  BY <4>1, <4>2, <5>1, <5>3
      <4>. QED  BY <4>1, <4>2
    <3>. QED  BY <3>1 DEF Solves
  <2>6. PICK k : k = CHOOSE h2 : Solves(f, h2, t)
    OBVIOUS
  <2>7. Solves(f, k, t)
    BY <2>5, <2>6
  <2>8. IsFiniteSet(t)
    BY <2>2, FS_Subset
  <2>9. k[t] = h[t]
    BY <2>5, <2>7, <2>8, SolutionUnique
  <2>10. G[t] = k[t]
    BY <1>1, <2>2, <2>6
  <2>11. h[t] = Value(t)
    BY <2>4
  <2>. QED  BY <2>2, <2>9, <2>10, <2>11
<1>4. CASE B = {}
  <2>1. \A s \in SUBSET S : G[s] = Value(s)
    BY <1>2, <1>4
  <2>2. G = [ s \in SUBSET S |-> Value(s) ]
    BY <1>1, <2>1
  <2>. QED  BY <2>2 DEF Adds
<1>. QED  BY <1>3, <1>4

\* The sum over a finite set, element by element.
LEMMA SumStep ==
  ASSUME NEW f, NEW S, IsFiniteSet(S)
  PROVE  SumFunctionOnSet(f, S) =
           IF S = {} THEN 0 ELSE f[Pick(S)] + SumFunctionOnSet(f, S \ {Pick(S)})
<1>1. PICK g : g = CHOOSE h : Adds(f, h, S)
  OBVIOUS
<1>2. Adds(f, g, S)
  BY <1>1, SolutionExists
<1>3. Solves(f, g, S)
  BY <1>2 DEF Adds, Solves
<1>4. SumFunctionOnSet(f, S) = g[S]
  BY <1>1, SumUnfolded
<1>5. CASE S # {}
  <2>1. PICK R : R = S \ {Pick(S)}
    OBVIOUS
  <2>2. R \in SUBSET S /\ IsFiniteSet(R)
    BY <2>1, FS_Subset
  <2>3. PICK h : h = CHOOSE k : Adds(f, k, R)
    OBVIOUS
  <2>4. Adds(f, h, R)
    BY <2>2, <2>3, SolutionExists
  <2>5. Solves(f, h, R) /\ Solves(f, g, R)
    BY <1>3, <2>2, <2>4 DEF Adds, Solves
  <2>6. SumFunctionOnSet(f, R) = h[R]
    BY <2>3, SumUnfolded
  <2>7. g[R] = h[R]
    BY <2>2, <2>5, SolutionUnique
  <2>8. g[S] = f[Pick(S)] + g[R]
    BY <1>3, <1>5, <2>1 DEF Solves
  <2>. QED  BY <1>4, <1>5, <2>1, <2>6, <2>7, <2>8
<1>6. CASE S = {}
  BY <1>3, <1>4, <1>6 DEF Solves
<1>. QED  BY <1>5, <1>6

\* A sum of integers is an integer.
LEMMA SumInt ==
  ASSUME NEW f, NEW S, IsFiniteSet(S), \A x \in S : f[x] \in Int
  PROVE  SumFunctionOnSet(f, S) \in Int
<1>1. PICK B \in SUBSET (SUBSET S) : B = { s \in SUBSET S : SumFunctionOnSet(f, s) \notin Int }
  OBVIOUS
<1>2. SUFFICES ASSUME B # {}  PROVE FALSE
  BY <1>1
<1>3. PICK t \in B : \A u \in SUBSET t : u # t => u \notin B
  BY <1>2, SmallestSet
<1>4. t \in SUBSET S /\ SumFunctionOnSet(f, t) \notin Int /\ IsFiniteSet(t)
  BY <1>1, FS_Subset
<1>5. t # {}
  <2>1. t = {} => SumFunctionOnSet(f, t) = 0
    BY <1>4, SumStep
  <2>. QED  BY <1>4, <2>1
<1>6. PICK p, r : p = Pick(t) /\ r = t \ {p}
  OBVIOUS
<1>7. p \in t /\ r \in SUBSET t /\ r # t
  BY <1>5, <1>6, Picked
<1>8. SumFunctionOnSet(f, r) \in Int
  BY <1>1, <1>3, <1>4, <1>7
<1>9. SumFunctionOnSet(f, t) = f[p] + SumFunctionOnSet(f, r)
  BY <1>4, <1>5, <1>6, SumStep
<1>10. f[p] \in Int
  BY <1>4, <1>7
<1>. QED  BY <1>4, <1>8, <1>9, <1>10

\* A sum of integers, with any of its elements taken out.
LEMMA SumAny ==
  ASSUME NEW f, NEW S, IsFiniteSet(S), \A x \in S : f[x] \in Int, NEW e \in S
  PROVE  SumFunctionOnSet(f, S) = f[e] + SumFunctionOnSet(f, S \ {e})
<1>. DEFINE Whole(t, x) == SumFunctionOnSet(f, t) = f[x] + SumFunctionOnSet(f, t \ {x})
<1>1. PICK B \in SUBSET (SUBSET S) : B = { t \in SUBSET S : \E x \in t : ~ Whole(t, x) }
  OBVIOUS
<1>2. SUFFICES ASSUME B # {}  PROVE FALSE
  BY <1>1
<1>3. PICK t \in B : \A u \in SUBSET t : u # t => u \notin B
  BY <1>2, SmallestSet
<1>4. /\ t \in SUBSET S /\ IsFiniteSet(t)
      /\ \A u \in SUBSET t : u # t => \A y \in u : Whole(u, y)
  BY <1>1, <1>3, FS_Subset
<1>5. PICK x \in t : ~ Whole(t, x)
  BY <1>1
<1>6. PICK p : p = Pick(t)
  OBVIOUS
<1>7. p \in t
  BY <1>5, <1>6, Picked
<1>8. Whole(t, p)
  BY <1>4, <1>5, <1>6, SumStep
<1>9. p # x
  BY <1>5, <1>8
<1>10. Whole(t \ {p}, x) /\ Whole(t \ {x}, p)
  <2>1. /\ t \ {p} \in SUBSET t /\ t \ {p} # t /\ x \in t \ {p}
        /\ t \ {x} \in SUBSET t /\ t \ {x} # t /\ p \in t \ {x}
    BY <1>5, <1>7, <1>9
  <2>. HIDE DEF Whole
  <2>. QED  BY <1>4, <2>1
<1>11. PICK a, b, c, d :
         /\ a = SumFunctionOnSet(f, t) /\ b = SumFunctionOnSet(f, t \ {p})
         /\ c = SumFunctionOnSet(f, t \ {x}) /\ d = SumFunctionOnSet(f, (t \ {p}) \ {x})
  OBVIOUS
<1>12. d = SumFunctionOnSet(f, (t \ {x}) \ {p})
  <2>1. (t \ {p}) \ {x} = (t \ {x}) \ {p}
    OBVIOUS
  <2>. QED  BY <1>11, <2>1
<1>13. a = f[p] + b /\ b = f[x] + d /\ c = f[p] + d /\ a # f[x] + c
  BY <1>5, <1>8, <1>10, <1>11, <1>12
<1>14. f[p] \in Int /\ f[x] \in Int /\ d \in Int
  <2>1. IsFiniteSet((t \ {p}) \ {x}) /\ \A y \in (t \ {p}) \ {x} : f[y] \in Int
    BY <1>4, FS_Subset
  <2>2. d \in Int
    BY <1>11, <2>1, SumInt
  <2>. QED  BY <1>4, <1>5, <1>7, <2>2
<1>15. PICK u \in Int, v \in Int, w \in Int : u = f[p] /\ v = f[x] /\ w = d
  BY <1>14
<1>16. a = u + (v + w) /\ a # v + (u + w)
  BY <1>13, <1>15
<1>. QED  BY <1>15, <1>16

\* The exact sum of a list is got by adding its elements one by one.
LEMMA PrefixSum ==
  ASSUME NEW f, NEW k \in Nat \ {0}, \A i \in 1 .. k : f[i] \in Int
  PROVE  SumFunctionOnSet(f, 1 .. k) = SumFunctionOnSet(f, 1 .. (k - 1)) + f[k]
<1>1. PICK S, R : S = 1 .. k /\ R = 1 .. (k - 1)
  OBVIOUS
<1>2. R = S \ {k} /\ k \in S
  BY <1>1
<1>3. IsFiniteSet(S) /\ IsFiniteSet(R)
  BY <1>1, FS_Interval
<1>4. SumFunctionOnSet(f, S) = f[k] + SumFunctionOnSet(f, S \ {k})
  BY <1>1, <1>2, <1>3, SumAny
<1>5. PICK a \in Int, b \in Int : a = f[k] /\ b = SumFunctionOnSet(f, R)
  <2>1. SumFunctionOnSet(f, R) \in Int
    BY <1>1, <1>3, SumInt
  <2>. QED  BY <2>1
<1>6. SumFunctionOnSet(f, S) = a + b
  BY <1>2, <1>4, <1>5
<1>. QED  BY <1>1, <1>5, <1>6

LEMMA NoSum ==
  ASSUME NEW f
  PROVE  SumFunctionOnSet(f, {}) = 0
BY SumStep, FS_EmptySet

\* An addition of mcourse, which cuts off the fraction.
Cut(x) == (x \div Unit) * Unit

\* Less than a point is lost.
LEMMA CutOff ==
  ASSUME NEW x \in Int
  PROVE  Cut(x) \in Int /\ Cut(x) <= x /\ x <= Cut(x) + (Unit - 1)
<1>1. PICK u \in Nat \ {0} : u = Unit
  BY UnitAssumption
<1>2. PICK q \in Int : q = x \div u /\ q * u <= x /\ x < (q + 1) * u
  BY Quotient
<1>3. (q + 1) * u = q * u + u /\ q * u \in Int
  OBVIOUS
<1>. QED  BY <1>1, <1>2, <1>3 DEF Cut

\* What the additions of mcourse lose.
Totals(f, g, n) == g = [ k \in 0 .. n |-> IF k = 0 THEN 0 ELSE Cut(g[k - 1] + f[k]) ]

\* The totals are a loop.
LEMMA TotalsExist ==
  ASSUME NEW n \in Nat, NEW f, \A i \in 1 .. n : f[i] \in Int
  PROVE  \E g : Totals(f, g, n)
<1>1. PICK F : F = [ p \in (1 .. n) \X Int |-> Cut(p[2] + f[p[1]]) ]
  OBVIOUS
<1>2. ASSUME NEW k \in 1 .. n, NEW v \in Int
      PROVE  F[<<k, v>>] = Cut(v + f[k]) /\ F[<<k, v>>] \in Int
  <2>1. F[<<k, v>>] = Cut(v + f[k])
    BY <1>1
  <2>2. v + f[k] \in Int
    OBVIOUS
  <2>. QED  BY <2>1, <2>2, CutOff
<1>3. F \in [(1 .. n) \X Int -> Int]
  <2>1. \A p \in (1 .. n) \X Int : p[1] \in 1 .. n /\ p[2] \in Int /\ p = << p[1], p[2] >>
    OBVIOUS
  <2>2. \A p \in (1 .. n) \X Int : F[p] \in Int
    BY <1>2, <2>1
  <2>3. F = [ p \in (1 .. n) \X Int |-> F[p] ]
    BY <1>1
  <2>. QED  BY <2>2, <2>3
<1>4. PICK g : Iterates(g, n, Int, 0, F)
  <2>1. 0 \in Int
    OBVIOUS
  <2>. QED  BY <1>3, <2>1, Iteration
<1>5. ASSUME NEW k \in 0 .. n
      PROVE  g[k] = IF k = 0 THEN 0 ELSE Cut(g[k - 1] + f[k])
  <2>1. CASE k = 0
    BY <1>4, <2>1 DEF Iterates
  <2>2. CASE k # 0
    <3>1. k \in 1 .. n /\ k - 1 \in 0 .. n
      BY <2>2
    <3>2. g[k] = F[<<k, g[k - 1]>>] /\ g[k - 1] \in Int
      BY <1>4, <3>1 DEF Iterates
    <3>. QED  BY <1>2, <2>2, <3>1, <3>2
  <2>. QED  BY <2>1, <2>2
<1>6. g = [ k \in 0 .. n |-> g[k] ]
  BY <1>4 DEF Iterates
<1>. QED  BY <1>5, <1>6 DEF Totals

Bounded(f, g, k) ==
  LET exact == SumFunctionOnSet(f, 1 .. k)
  IN  /\ g[k] \in Int /\ exact \in Int
      /\ g[k] <= exact /\ exact <= g[k] + (Unit - 1) * k

LEMMA BoundedStep ==
  ASSUME NEW f, NEW g, NEW k \in Nat \ {0}, \A i \in 1 .. k : f[i] \in Int,
         Bounded(f, g, k - 1), g[k] = Cut(g[k - 1] + f[k])
  PROVE  Bounded(f, g, k)
<1>1. PICK a \in Int, b \in Int, c \in Int, u \in Nat :
        /\ a = g[k - 1] /\ b = SumFunctionOnSet(f, 1 .. (k - 1)) /\ c = f[k] /\ u = Unit - 1
  BY UnitAssumption DEF Bounded
<1>2. a <= b /\ b <= a + u * (k - 1)
  BY <1>1 DEF Bounded
<1>3. PICK d \in Int : d = Cut(a + c) /\ d <= a + c /\ a + c <= d + u
  <2>1. a + c \in Int
    OBVIOUS
  <2>. QED  BY <1>1, <2>1, CutOff
<1>4. SumFunctionOnSet(f, 1 .. k) = b + c
  BY <1>1, PrefixSum
<1>5. u * k = u * (k - 1) + u /\ u * (k - 1) \in Int
  OBVIOUS
<1>6. d <= b + c /\ b + c <= d + u * k
  BY <1>2, <1>3, <1>5
<1>7. g[k] = d
  BY <1>1, <1>3
<1>8. PICK e, h : e \in Int /\ e = b + c /\ h = (Unit - 1) * k
  OBVIOUS
<1>9. d <= e /\ e <= d + h
  BY <1>1, <1>6, <1>8
<1>10. SumFunctionOnSet(f, 1 .. k) = e
  BY <1>4, <1>8
<1>. QED  BY <1>3, <1>7, <1>8, <1>9, <1>10 DEF Bounded

\* All in all, less than a point is lost for each element.
LEMMA TotalsBounded ==
  ASSUME NEW n \in Nat, NEW f, \A i \in 1 .. n : f[i] \in Int, NEW g, Totals(f, g, n)
  PROVE  Bounded(f, g, n)
<1>. DEFINE B == { m \in 0 .. n : ~ Bounded(f, g, m) }
<1>1. SUFFICES ASSUME ~ Bounded(f, g, n)  PROVE FALSE
  OBVIOUS
<1>2. PICK m \in B : \A l \in B : m <= l
  <2>1. B \in SUBSET Nat /\ B # {}
    BY <1>1
  <2>. HIDE DEF B
  <2>. QED  BY <2>1, LeastElement
<1>3. m \in 0 .. n /\ ~ Bounded(f, g, m)
  BY <1>2
<1>4. m # 0
  <2>1. g[0] = 0
    BY DEF Totals
  <2>2. SumFunctionOnSet(f, 1 .. 0) = 0
    <3>1. 1 .. 0 = {}
      OBVIOUS
    <3>. QED  BY <3>1, NoSum
  <2>3. Unit - 1 \in Int
    BY UnitAssumption
  <2>4. Bounded(f, g, 0)
    BY <2>1, <2>2, <2>3 DEF Bounded
  <2>. QED  BY <1>3, <2>4
<1>5. m \in Nat \ {0} /\ m - 1 \in 0 .. n
  BY <1>3, <1>4
<1>6. Bounded(f, g, m - 1)
  <2>1. m - 1 \in B => m <= m - 1
    BY <1>2
  <2>2. m - 1 \notin B
    <3>. HIDE DEF B
    <3>. QED  BY <1>5, <2>1
  <2>. QED  BY <1>5, <2>2
<1>7. g[m] = Cut(g[m - 1] + f[m])
  BY <1>3, <1>4 DEF Totals
<1>8. \A i \in 1 .. m : f[i] \in Int
  BY <1>3
<1>. QED  BY <1>3, <1>5, <1>6, <1>7, <1>8, BoundedStep

-----------------------------------------------------------------------------
(* Questionnaires.                                                         *)

\* Lists are read up to the end of the shortest.
LEMMA PairedUp ==
  ASSUME NEW S \in SUBSET Nat, S # {}
  PROVE  \E n \in S : /\ \A m \in S : n <= m
                      /\ McourseServer!Paired(S) = 1 .. n
                      /\ MojServer!Paired(S) = 1 .. n
<1>1. PICK n \in S : \A m \in S : n <= m
  BY LeastElement
<1>2. \A x \in S : (\A m \in S : x <= m) => x = n
  BY <1>1
<1>3. McourseServer!Min(S) = n /\ MojServer!Min(S) = n
  BY <1>1, <1>2 DEF McourseServer!Min, MojServer!Min
<1>. QED  BY <1>1, <1>3 DEF McourseServer!Paired, MojServer!Paired

\* The questions of a choice in mcourse and in MOJ, and those of an output.
McourseAsks(k) ==
  [ standard |-> sub.questions[k].standard_answer, student |-> sub.answers[k].choice_id,
    full |-> sub.questions[k].max_grade, half |-> sub.questions[k].half_grade ]

MojAsks(k) ==
  [ standard |-> sub.standard[k].answer, student |-> sub.answer[k],
    full |-> sub.standard[k].max_grade, half |-> sub.standard[k].half_grade ]

OutputAsks(k) ==
  [ standard |-> sub.standard_answers[k], student |-> sub.student_answers[k],
    full |-> sub.answer_scores[k] ]

\* What the questions of a submission are, if it is a choice of mcourse,
LEMMA McourseChoices ==
  ASSUME sub \in Submissions, sub.kind = "choice", sub.server = "mcourse"
  PROVE  \E n \in Nat :
           /\ questions = [ k \in 1 .. n |-> McourseAsks(k) ]
           /\ 1 .. n \subseteq DOMAIN sub.questions /\ 1 .. n \subseteq DOMAIN sub.answers
           /\ Valid(sub) =>
                \A k \in 1 .. n : sub.questions[k].id = k - 1 /\ sub.answers[k].question_id = k - 1
<1>1. PICK a \in Nat, b \in Nat :
        /\ a = Len(sub.questions) /\ b = Len(sub.answers)
        /\ DOMAIN sub.questions = 1 .. a /\ DOMAIN sub.answers = 1 .. b
  <2>1. \E Q, A : sub.questions \in Seq(Q) /\ sub.answers \in Seq(A)
    BY SubmissionAssumption
  <2>. QED  BY <2>1
<1>2. PICK n \in {a, b} : (\A m \in {a, b} : n <= m) /\ McourseServer!Paired({a, b}) = 1 .. n
  <2>1. {a, b} \in SUBSET Nat /\ {a, b} # {}
    OBVIOUS
  <2>. QED  BY <2>1, PairedUp
<1>3. questions = McourseServer!ChoiceQuestions(sub.questions, sub.answers)
  BY DEF questions
<1>4. questions = [ k \in 1 .. n |-> McourseAsks(k) ]
  BY <1>1, <1>2, <1>3, Zenon DEF McourseServer!ChoiceQuestions, McourseAsks
<1>5. Valid(sub) =>
        \A k \in 1 .. n : sub.questions[k].id = k - 1 /\ sub.answers[k].question_id = k - 1
  BY <1>1, <1>2, Zenon DEF Valid, McourseServer!Numbered
<1>6. 1 .. n \subseteq 1 .. a /\ 1 .. n \subseteq 1 .. b /\ n \in Nat
  BY <1>2
<1>. QED  BY <1>1, <1>4, <1>5, <1>6

\* a choice of MOJ,
LEMMA MojChoices ==
  ASSUME sub \in Submissions, sub.kind = "choice", sub.server = "moj"
  PROVE  \E n \in Nat :
           /\ questions = [ k \in 1 .. n |-> MojAsks(k) ]
           /\ DOMAIN sub.answer \cap DOMAIN sub.standard = 1 .. n
<1>1. PICK a \in Nat, b \in Nat :
        /\ a = Len(sub.standard) /\ b = Len(sub.answer)
        /\ DOMAIN sub.standard = 1 .. a /\ DOMAIN sub.answer = 1 .. b
  <2>1. \E Q, A : sub.standard \in Seq(Q) /\ sub.answer \in Seq(A)
    BY SubmissionAssumption
  <2>. QED  BY <2>1
<1>2. PICK n \in {a, b} : (\A m \in {a, b} : n <= m) /\ MojServer!Paired({a, b}) = 1 .. n
  <2>1. {a, b} \in SUBSET Nat /\ {a, b} # {}
    OBVIOUS
  <2>. QED  BY <2>1, PairedUp
<1>3. questions = MojServer!ChoiceQuestions(sub.standard, sub.answer)
  BY DEF questions
<1>4. questions = [ k \in 1 .. n |-> MojAsks(k) ]
  BY <1>1, <1>2, <1>3, Zenon DEF MojServer!ChoiceQuestions, MojAsks
<1>5. (1 .. b) \cap (1 .. a) = 1 .. n /\ n \in Nat
  BY <1>2
<1>. QED  BY <1>1, <1>4, <1>5

\* or an output.
LEMMA Outputs ==
  ASSUME sub \in Submissions, sub.kind = "output"
  PROVE  \E n \in Nat :
           /\ questions = [ k \in 1 .. n |-> OutputAsks(k) ]
           /\ 1 .. n \subseteq DOMAIN sub.standard_answers
           /\ 1 .. n \subseteq DOMAIN sub.answer_scores
           /\ 1 .. n \subseteq DOMAIN sub.student_answers
<1>1. PICK a \in Nat, b \in Nat, c \in Nat :
        /\ a = Len(sub.standard_answers) /\ b = Len(sub.answer_scores)
        /\ c = Len(sub.student_answers)
        /\ DOMAIN sub.standard_answers = 1 .. a /\ DOMAIN sub.answer_scores = 1 .. b
        /\ DOMAIN sub.student_answers = 1 .. c
  <2>1. \E A, B, C : /\ sub.standard_answers \in Seq(A) /\ sub.answer_scores \in Seq(B)
                     /\ sub.student_answers \in Seq(C)
    BY SubmissionAssumption
  <2>. QED  BY <2>1
<1>2. PICK n \in {a, b, c} : (\A m \in {a, b, c} : n <= m) /\ McourseServer!Paired({a, b, c}) = 1 .. n
  <2>1. {a, b, c} \in SUBSET Nat /\ {a, b, c} # {}
    OBVIOUS
  <2>. QED  BY <2>1, PairedUp
<1>3. questions = McourseServer!OutputQuestions(sub.standard_answers, sub.answer_scores,
                                                sub.student_answers)
  BY DEF questions
<1>4. questions = [ k \in 1 .. n |-> OutputAsks(k) ]
  BY <1>1, <1>2, <1>3, Zenon DEF McourseServer!OutputQuestions, OutputAsks
<1>5. 1 .. n \subseteq 1 .. a /\ 1 .. n \subseteq 1 .. b /\ 1 .. n \subseteq 1 .. c /\ n \in Nat
  BY <1>2
<1>. QED  BY <1>1, <1>4, <1>5

\* An element of a list.
LEMMA Member ==
  ASSUME NEW R, NEW q \in Seq(R), NEW k \in DOMAIN q
  PROVE  q[k] \in R
OBVIOUS

\* OutputGraded, for the questions of a submission.
LEMMA OutputAsked ==
  ASSUME sub \in Submissions, sub.kind = "output", NEW k \in DOMAIN sub.standard_answers,
         k \in DOMAIN sub.answer_scores, k \in DOMAIN sub.student_answers
  PROVE  /\ Answers!OutputGrade(OutputAsks(k)) \in Int
         /\ OutputEarns(Answers!OutputGrade(OutputAsks(k)), sub.answer_scores[k],
                        Answers!Stripped(sub.standard_answers[k]),
                        Answers!Stripped(sub.student_answers[k]))
<1>1. /\ sub.standard_answers \in Seq(Seq(STRING)) /\ sub.student_answers \in Seq(Seq(STRING))
      /\ sub.answer_scores \in Seq(Nat)
      /\ Answers!Stripped(sub.standard_answers[k]) # << >>
  BY SubmissionAssumption
<1>2. PICK q : q = OutputAsks(k)
  OBVIOUS
<1>3. /\ q.standard = sub.standard_answers[k] /\ q.student = sub.student_answers[k]
      /\ q.full = sub.answer_scores[k]
  BY <1>2 DEF OutputAsks
<1>4. q.standard \in Seq(STRING) /\ q.student \in Seq(STRING) /\ q.full \in Nat
  <2>1. /\ sub.standard_answers[k] \in Seq(STRING) /\ sub.student_answers[k] \in Seq(STRING)
        /\ sub.answer_scores[k] \in Nat
    BY <1>1, Member
  <2>. QED  BY <1>3, <2>1
<1>5. Answers!Stripped(q.standard) # << >>
  BY <1>1, <1>3
<1>. QED  BY <1>2, <1>3, <1>4, <1>5, OutputGraded

\* What the judgers make of the questions.
Graded == [ k \in DOMAIN questions |-> QuestionGrade(questions[k]) ]

\* The grades are a list of as many numbers as there are questions.
LEMMA GradedType ==
  ASSUME sub \in Submissions, ~ programming
  PROVE  \E n \in Nat : /\ DOMAIN questions = 1 .. n
                        /\ Graded \in Seq(Int) /\ Len(Graded) = n /\ DOMAIN Graded = 1 .. n
<1>1. sub.kind \in { "choice", "output" } /\ sub.server \in { "mcourse", "moj" }
  BY SubmissionAssumption DEF programming
<1>2. \E n \in Nat : DOMAIN questions = 1 .. n
                       /\ \A k \in 1 .. n : QuestionGrade(questions[k]) \in Int
  <2>1. CASE sub.kind = "choice" /\ sub.server = "mcourse"
    <3>1. PICK n \in Nat :
            /\ questions = [ k \in 1 .. n |-> McourseAsks(k) ]
            /\ 1 .. n \subseteq DOMAIN sub.questions
      BY <2>1, McourseChoices
    <3>2. ASSUME NEW k \in 1 .. n  PROVE QuestionGrade(questions[k]) \in Int
      <4>1. sub.questions[k].max_grade \in Int /\ sub.questions[k].half_grade \in Int
        <5>1. sub.questions \in Seq([ id : Int, standard_answer : ChoiceSet,
                                      max_grade : Int, half_grade : Int ])
          BY <2>1, SubmissionAssumption
        <5>2. k \in DOMAIN sub.questions
          BY <3>1
        <5>3. PICK q : q = sub.questions[k]
          OBVIOUS
        <5>4. q \in [ id : Int, standard_answer : ChoiceSet,
                                     max_grade : Int, half_grade : Int ]
          BY <5>1, <5>2, <5>3, Member
        <5>5. q.max_grade \in Int /\ q.half_grade \in Int
          BY <5>4
        <5>. QED  BY <5>3, <5>5
      <4>2. PICK q : q = questions[k]
        OBVIOUS
      <4>3. q.full \in Int /\ q.half \in Int
        BY <3>1, <4>1, <4>2 DEF McourseAsks
      <4>. QED  BY <2>1, <4>2, <4>3, ChoiceGradeType DEF QuestionGrade
    <3>. QED  BY <3>1, <3>2
  <2>2. CASE sub.kind = "choice" /\ sub.server = "moj"
    <3>1. PICK n \in Nat :
            /\ questions = [ k \in 1 .. n |-> MojAsks(k) ]
            /\ DOMAIN sub.answer \cap DOMAIN sub.standard = 1 .. n
      BY <2>2, MojChoices
    <3>2. ASSUME NEW k \in 1 .. n  PROVE QuestionGrade(questions[k]) \in Int
      <4>1. sub.standard[k].max_grade \in Int /\ sub.standard[k].half_grade \in Int
        <5>1. sub.standard \in Seq([ answer : ChoiceSet, max_grade : Int, half_grade : Int ])
          BY <2>2, SubmissionAssumption
        <5>2. k \in DOMAIN sub.standard
          BY <3>1
        <5>3. PICK q : q = sub.standard[k]
          OBVIOUS
        <5>4. q \in [ answer : ChoiceSet, max_grade : Int, half_grade : Int ]
          BY <5>1, <5>2, <5>3, Member
        <5>5. q.max_grade \in Int /\ q.half_grade \in Int
          BY <5>4
        <5>. QED  BY <5>3, <5>5
      <4>2. PICK q : q = questions[k]
        OBVIOUS
      <4>3. q.full \in Int /\ q.half \in Int
        BY <3>1, <4>1, <4>2 DEF MojAsks
      <4>. QED  BY <2>2, <4>2, <4>3, ChoiceGradeType DEF QuestionGrade
    <3>. QED  BY <3>1, <3>2
  <2>3. CASE sub.kind = "output"
    <3>1. PICK n \in Nat :
            /\ questions = [ k \in 1 .. n |-> OutputAsks(k) ]
            /\ 1 .. n \subseteq DOMAIN sub.standard_answers
            /\ 1 .. n \subseteq DOMAIN sub.answer_scores
            /\ 1 .. n \subseteq DOMAIN sub.student_answers
      BY <2>3, Outputs
    <3>2. ASSUME NEW k \in 1 .. n  PROVE QuestionGrade(questions[k]) \in Int
      <4>1. questions[k] = OutputAsks(k)
        BY <3>1
      <4>2. Answers!OutputGrade(OutputAsks(k)) \in Int
        BY <2>3, <3>1, <3>2, OutputAsked
      <4>. QED  BY <2>3, <4>1, <4>2 DEF QuestionGrade
    <3>. QED  BY <3>1, <3>2
  <2>. QED  BY <1>1, <2>1, <2>2, <2>3
<1>3. PICK n \in Nat : DOMAIN questions = 1 .. n
                         /\ \A k \in 1 .. n : QuestionGrade(questions[k]) \in Int
  BY <1>2
<1>4. Graded = [ k \in 1 .. n |-> QuestionGrade(questions[k]) ]
  BY <1>3 DEF Graded
<1>5. Graded \in Seq(Int) /\ Len(Graded) = n /\ DOMAIN Graded = 1 .. n
  <2>1. PICK g : g = Graded
    OBVIOUS
  <2>2. g \in [1 .. n -> Int]
    BY <1>3, <1>4, <2>1
  <2>. QED  BY <2>1, <2>2
<1>. QED  BY <1>3, <1>5

\* The totals of the two servers.
LEMMA TotalOf ==
  ASSUME NEW grades \in Seq(Int)
  PROVE  LET exact == SumFunction(grades)
         IN  /\ exact \in Int
             /\ McourseServer!AnswerReport(grades).grade \in Int
             /\ McourseServer!AnswerReport(grades).grade <= exact
             /\ exact <= McourseServer!AnswerReport(grades).grade + (Unit - 1) * Len(grades)
             /\ MojServer!AnswerReport(grades).grade = exact
<1>1. PICK n \in Nat : n = Len(grades) /\ DOMAIN grades = 1 .. n
  OBVIOUS
<1>2. \A i \in 1 .. n : grades[i] \in Int
  BY <1>1
<1>3. SumFunction(grades) = SumFunctionOnSet(grades, 1 .. n)
  BY <1>1 DEF SumFunction
<1>4. PICK g : g = CHOOSE h : Totals(grades, h, n)
  OBVIOUS
<1>5. Totals(grades, g, n)
  <2>1. \E h : Totals(grades, h, n)
    BY <1>2, TotalsExist
  <2>. QED  BY <1>4, <2>1
<1>6. McourseServer!AnswerReport(grades).grade = g[n]
  BY <1>1, <1>4, Zenon DEF McourseServer!AnswerReport, Totals, Cut
<1>7. Bounded(grades, g, n)
  BY <1>2, <1>5, TotalsBounded
<1>8. MojServer!AnswerReport(grades).grade = SumFunction(grades)
  BY SameSums DEF MojServer!AnswerReport
<1>. QED  BY <1>1, <1>3, <1>6, <1>7, <1>8, Zenon DEF Bounded

-----------------------------------------------------------------------------
(* The grades of a report are numbers.                                     *)

\* As SumInt, for a function.
LEMMA SumOf ==
  ASSUME NEW f, IsFiniteSet(DOMAIN f), \A x \in DOMAIN f : f[x] \in Int
  PROVE  SumFunction(f) \in Int
BY SumInt DEF SumFunction

LEMMA RoundType ==
  ASSUME NEW x \in Int
  PROVE  Round(x) \in Int
<1>1. PICK u \in Nat \ {0} : u = Unit
  BY UnitAssumption
<1>2. 2 * u \in Nat \ {0}
  OBVIOUS
<1>3. (2 * x + u) \div (2 * u) \in Int /\ (u - 2 * x) \div (2 * u) \in Int
  BY <1>2
<1>. QED  BY <1>1, <1>3 DEF Round

\* What the tasks of a check earn is a number,
LEMMA EarnedType ==
  ASSUME NEW T, Shape(T), NEW rs \in Results(T), NEW S, S \subseteq DOMAIN T
  PROVE  EarnedBy(T, rs, S) \in Int
<1>1. ASSUME NEW i \in S  PROVE Earned(T, rs, i) \in Int
  <2>1. PICK a \in Int, b \in Int : a = T[i].score /\ b = rs[i].score
    BY ShapeFacts DEF TaskRecord, Results, ResultType
  <2>2. PICK u \in Nat \ {0} : u = Unit
    BY UnitAssumption
  <2>3. PICK c \in Int : c = b * a
    OBVIOUS
  <2>4. c \div u \in Int
    BY <2>2
  <2>. QED  BY <2>1, <2>2, <2>3, <2>4 DEF Earned
<1>2. PICK f : f = [ i \in S |-> Earned(T, rs, i) ]
  OBVIOUS
<1>3. IsFiniteSet(S)
  BY ShapeFacts, FS_Subset
<1>4. DOMAIN f = S /\ \A i \in S : f[i] \in Int
  BY <1>1, <1>2
<1>5. SumFunction(f) \in Int
  BY <1>3, <1>4, SumOf
<1>. QED  BY <1>2, <1>5 DEF EarnedBy

Scored(s) == s.score \in Int

LEMMA ScoredSections ==
  /\ Scored(None) /\ Scored(Broken) /\ Scored(Thrown)
  /\ \A x \in Int : \A l : Scored(Section(x, l))
  /\ \A rs, S, s : Scored(s) => Scored(Shown(rs, S, s))
  /\ \A T, rs, S, s : Scored(s) => Scored(MojServer!Counted(T, rs, S, s))
<1>1. Scored(None) /\ Scored(Broken) /\ Scored(Thrown)
  BY DEF Scored, None, Broken, Thrown
<1>2. \A x \in Int : \A l : Scored(Section(x, l))
  BY DEF Scored, Section
<1>3. \A rs, S, s : Scored(s) => Scored(Shown(rs, S, s))
  BY <1>1 DEF Shown
<1>4. \A T, rs, S, s : Scored(s) => Scored(MojServer!Counted(T, rs, S, s))
  BY DEF Scored, MojServer!Counted
<1>. QED  BY <1>1, <1>2, <1>3, <1>4

\* The parts that the sections are put together from.
LEMMA PartsScored ==
  ASSUME NEW T, Shape(T), NEW rs \in Results(T), NEW S, S \subseteq DOMAIN T, NEW l
  PROVE  /\ Scored(CompileShown(T, rs)) /\ Scored(StaticShown(T, rs, S))
         /\ Scored(MemoryShown(T, rs, S, l)) /\ Scored(CaseSection(T, rs, S, l))
<1>1. Scored(CompileShown(T, rs))
  <2>1. T[0].score \in Int
    BY ShapeFacts DEF TaskRecord
  <2>2. Scored(Section(T[0].score, {})) /\ Scored(Section(0, {0})) /\ Scored(Broken)
    BY <2>1, ScoredSections
  <2>. QED  BY <2>2 DEF CompileShown
<1>2. Scored(StaticShown(T, rs, S))
  <2>1. Scored(Section(EarnedBy(T, rs, S), Ran(rs, S)))
    BY EarnedType, ScoredSections
  <2>. QED  BY <2>1, ScoredSections DEF StaticShown
<1>3. Scored(MemoryShown(T, rs, S, l))
  <2>1. EarnedBy(T, rs, AcceptedOf(rs, S)) \in Int
    <3>1. AcceptedOf(rs, S) \subseteq DOMAIN T
      BY DEF AcceptedOf
    <3>. QED  BY <3>1, EarnedType
  <2>2. Scored(Section(EarnedBy(T, rs, AcceptedOf(rs, S)), l))
    BY <2>1, ScoredSections
  <2>. QED  BY <2>2, ScoredSections DEF MemoryShown
<1>4. Scored(CaseSection(T, rs, S, l))
  <2>1. PICK s : s = Shown(rs, S, Section(EarnedBy(T, rs, S), l))
    OBVIOUS
  <2>2. Scored(s)
    <3>1. Scored(Section(EarnedBy(T, rs, S), l))
      BY EarnedType, ScoredSections
    <3>. QED  BY <2>1, <3>1, ScoredSections
  <2>3. CaseSection(T, rs, S, l) \in { s, None, Broken, Thrown }
    BY <2>1 DEF CaseSection
  <2>. QED  BY <2>2, <2>3, ScoredSections
<1>. QED  BY <1>1, <1>2, <1>3, <1>4

\* Google tests of mcourse are charged for the cases that failed.
LEMMA GTestScored ==
  ASSUME sub \in Submissions, programming, NEW T, Shape(T), NEW rs \in Results(T)
  PROVE  Scored(McourseServer!GTestSection(sub.config, T, rs))
<1>1. PICK S, i : S = OfType(T, "gtest") /\ i = CHOOSE j \in S : TRUE
  OBVIOUS
<1>2. PICK charge : charge = McourseServer!Charged(sub.config, rs[i].failed)
  OBVIOUS
<1>3. McourseServer!GTestSection(sub.config, T, rs) \in
        { None, Section(0, {}) }
          \cup IF S = {} THEN {} ELSE { Section(T[i].score - charge, rs[i].failed) }
  BY <1>1, <1>2, SameNames, SameSections DEF McourseServer!GTestSection
<1>4. ASSUME S # {}  PROVE Scored(Section(T[i].score - charge, rs[i].failed))
  <2>1. i \in DOMAIN T
    BY <1>1, <1>4 DEF OfType
  <2>2. T[i].score \in Int
    BY <2>1, ShapeFacts DEF TaskRecord
  <2>3. charge \in Int
    <3>1. PICK detail : detail = sub.config.detail
      OBVIOUS
    <3>2. IsFiniteSet(DOMAIN detail) /\ detail \in [DOMAIN detail -> Int]
      BY <3>1, SubmissionAssumption DEF programming
    <3>3. PICK D : D = rs[i].failed \cap DOMAIN detail
      OBVIOUS
    <3>4. PICK f : f = [ case \in D |-> detail[case] * Unit ]
      OBVIOUS
    <3>5. IsFiniteSet(D) /\ DOMAIN f = D
      BY <3>2, <3>3, <3>4, FS_Subset
    <3>6. ASSUME NEW case \in D  PROVE f[case] \in Int
      <4>1. detail[case] \in Int /\ Unit \in Int
        BY <3>2, <3>3, UnitAssumption
      <4>. QED  BY <3>4, <4>1
    <3>7. charge = SumFunction(f)
      BY <1>2, <3>1, <3>3, <3>4, SameSums DEF McourseServer!Charged
    <3>. QED  BY <3>5, <3>6, <3>7, SumOf
  <2>. QED  BY <2>2, <2>3, ScoredSections
<1>. QED  BY <1>3, <1>4, ScoredSections

\* so that every section has a score,
LEMMA SectionsScored ==
  ASSUME sub \in Submissions, programming, NEW T, T = tasks, Shape(T), NEW rs \in Results(T),
         NEW type \in CheckType
  PROVE  Scored(SectionsOf(rs)[type])
<1>1. PICK S \in SUBSET (DOMAIN T) : S = OfType(T, type)
  BY DEF OfType
<1>2. PICK known \in Results(T) : known = Known(rs)
  BY KnownFacts
<1>3. CASE sub.server = "mcourse"
  <2>1. PICK all : all = McourseServer!Sections(sub.config, T, rs)
    OBVIOUS
  <2>2. known = McourseServer!Reread(T, rs)
    BY <1>2, <1>3 DEF Known
  <2>3. \/ all[type] = CompileShown(T, rs)
        \/ all[type] = MemoryShown(T, rs, S, NotAccepted(rs, S))
        \/ all[type] = CaseSection(T, rs, S, NotAccepted(rs, S))
        \/ all[type] = StaticShown(T, known, S)
        \/ all[type] = McourseServer!GTestSection(sub.config, T, rs)
    <3>1. CASE type = "compile"
      BY <2>1, <3>1, McourseSections
    <3>2. CASE type = "memory"
      BY <1>1, <2>1, <3>2, McourseSections
    <3>3. CASE type \in { "random", "standard" }
      BY <1>1, <2>1, <3>3, McourseSections
    <3>4. CASE type = "static"
      BY <1>1, <2>1, <2>2, <3>4, McourseSections
    <3>5. CASE type = "gtest"
      BY <2>1, <3>5, McourseSections
    <3>. QED  BY <3>1, <3>2, <3>3, <3>4, <3>5 DEF CheckType
  <2>4. Scored(all[type])
    BY <2>3, PartsScored, GTestScored
  <2>5. SectionsOf(rs) = all
    BY <1>3, <2>1 DEF SectionsOf
  <2>. QED  BY <2>4, <2>5
<1>4. CASE sub.server # "mcourse"
  <2>1. PICK all : all = MojServer!Sections(T, rs) /\ all = SectionsOf(rs)
    BY <1>4 DEF SectionsOf
  <2>2. known = MojServer!Reread(T, rs)
    BY <1>2, <1>4 DEF Known
  <2>3. \/ all[type] = CompileShown(T, rs)
        \/ all[type] = MojServer!Counted(T, rs, S, MemoryShown(T, rs, S, Ran(rs, S) \ AcceptedOf(rs, S)))
        \/ all[type] = MojServer!Counted(T, rs, S, CaseSection(T, rs, S, Ran(rs, S)))
        \/ all[type] = StaticShown(T, known, S)
    <3>1. type = "compile" => all[type] = CompileShown(T, rs)
      BY <2>1, MojSections
    <3>2. type = "memory" =>
            all[type] = MojServer!Counted(T, rs, S, MemoryShown(T, rs, S, Ran(rs, S) \ AcceptedOf(rs, S)))
      BY <1>1, <2>1, MojSections
    <3>3. type \in { "random", "standard" } =>
            all[type] = MojServer!Counted(T, rs, S, CaseSection(T, rs, S, Ran(rs, S)))
      BY <1>1, <2>1, MojSections
    <3>4. type \in { "static", "gtest" } => all[type] = StaticShown(T, known, S)
      BY <1>1, <2>1, <2>2, MojSections
    <3>. QED  BY <3>1, <3>2, <3>3, <3>4 DEF CheckType
  <2>4. Scored(all[type])
    BY <2>3, PartsScored, ScoredSections
  <2>. QED  BY <2>1, <2>4
<1>. QED  BY <1>3, <1>4

\* and every report a grade.
LEMMA SummaryGrade ==
  ASSUME sub \in Submissions, programming, NEW T, T = tasks, Shape(T), NEW rs \in Results(T), NEW count
  PROVE  Summary(rs, count).grade \in Int /\ Summary(rs, count).complete \in BOOLEAN
<1>1. PICK all : all = SectionsOf(rs)
  OBVIOUS
<1>2. PICK f : f = [ type \in CheckType |-> all[type].score ]
  OBVIOUS
<1>3. SumFunction(f) \in Int
  <2>1. IsFiniteSet(CheckType)
    <3>1. IsFiniteSet({ "compile", "memory" }) /\ IsFiniteSet({ "random", "standard" })
          /\ IsFiniteSet({ "static", "gtest" })
      <4>1. ASSUME NEW x, NEW y  PROVE IsFiniteSet({x, y})
        <5>1. IsFiniteSet({x}) /\ IsFiniteSet({y})
          BY FS_Singleton
        <5>2. IsFiniteSet({x} \cup {y})
          BY <5>1, FS_Union
        <5>3. {x, y} = {x} \cup {y}
          OBVIOUS
        <5>. QED  BY <5>2, <5>3
      <4>. QED  BY <4>1
    <3>2. CheckType =
            ({ "compile", "memory" } \cup { "random", "standard" }) \cup { "static", "gtest" }
      BY DEF CheckType
    <3>. QED  BY <3>1, <3>2, FS_Union
  <2>2. DOMAIN f = CheckType /\ \A type \in CheckType : f[type] \in Int
    BY <1>1, <1>2, SectionsScored DEF Scored
  <2>. QED  BY <2>1, <2>2, SumOf
<1>4. Unit * Round(SumFunction(f)) \in Int
  <2>1. PICK x \in Int : x = Round(SumFunction(f))
    BY <1>3, RoundType
  <2>. QED  BY <2>1, UnitAssumption
<1>5. Summary(rs, count).grade = Unit * Round(SumFunction(f))
  <2>1. CASE sub.server = "mcourse"
    <3>1. all = McourseServer!Sections(sub.config, T, rs)
      BY <1>1, <2>1 DEF SectionsOf
    <3>2. Summary(rs, count).grade = McourseServer!Grade(all)
      BY <2>1, <3>1 DEF Summary, McourseServer!Report
    <3>. QED  BY <1>2, <3>2, SameNames, SameSums, SameRounds DEF McourseServer!Grade
  <2>2. CASE sub.server # "mcourse"
    <3>1. all = MojServer!Sections(T, rs)
      BY <1>1, <2>2 DEF SectionsOf
    <3>2. Summary(rs, count).grade = MojServer!Grade(all)
      BY <2>2, <3>1 DEF Summary, MojServer!Report
    <3>. QED  BY <1>2, <3>2, SameNames, SameSums, SameRounds DEF MojServer!Grade
  <2>. QED  BY <2>1, <2>2
<1>6. Summary(rs, count).complete \in BOOLEAN
  BY DEF Summary, McourseServer!Report, MojServer!Report
<1>. QED  BY <1>4, <1>5, <1>6

-----------------------------------------------------------------------------
(* Comparing sums.                                                         *)

\* The sum of greater terms is greater.
LEMMA SumMore ==
  ASSUME NEW f, NEW g, NEW S, IsFiniteSet(S),
         \A x \in S : f[x] \in Int /\ g[x] \in Int /\ f[x] <= g[x]
  PROVE  SumFunctionOnSet(f, S) <= SumFunctionOnSet(g, S)
<1>. DEFINE Less(t) == SumFunctionOnSet(f, t) <= SumFunctionOnSet(g, t)
<1>1. PICK B \in SUBSET (SUBSET S) : B = { s \in SUBSET S : ~ Less(s) }
  OBVIOUS
<1>2. SUFFICES ASSUME B # {}  PROVE FALSE
  BY <1>1
<1>3. PICK t \in B : \A u \in SUBSET t : u # t => u \notin B
  BY <1>2, SmallestSet
<1>4. t \in SUBSET S /\ ~ Less(t) /\ IsFiniteSet(t)
  BY <1>1, FS_Subset
<1>5. t # {}
  <2>1. t = {} => SumFunctionOnSet(f, t) = 0 /\ SumFunctionOnSet(g, t) = 0
    BY NoSum
  <2>. QED  BY <1>4, <2>1
<1>6. PICK p, r : p = Pick(t) /\ r = t \ {p}
  OBVIOUS
<1>7. p \in t /\ r \in SUBSET t /\ r # t /\ IsFiniteSet(r)
  BY <1>4, <1>5, <1>6, Picked, FS_Subset
<1>8. Less(r)
  BY <1>1, <1>3, <1>4, <1>7
<1>9. /\ SumFunctionOnSet(f, t) = f[p] + SumFunctionOnSet(f, r)
      /\ SumFunctionOnSet(g, t) = g[p] + SumFunctionOnSet(g, r)
  BY <1>4, <1>5, <1>6, SumStep
<1>10. SumFunctionOnSet(f, r) \in Int /\ SumFunctionOnSet(g, r) \in Int
  BY <1>4, <1>7, SumInt
<1>11. f[p] \in Int /\ g[p] \in Int /\ f[p] <= g[p]
  BY <1>4, <1>7
<1>. QED  BY <1>4, <1>8, <1>9, <1>10, <1>11

\* A sum depends on the terms only.
LEMMA SumSame ==
  ASSUME NEW f, NEW g, NEW S, IsFiniteSet(S), \A x \in S : f[x] \in Int /\ f[x] = g[x]
  PROVE  SumFunctionOnSet(f, S) = SumFunctionOnSet(g, S)
<1>1. \A x \in S : /\ f[x] \in Int /\ g[x] \in Int /\ f[x] <= g[x] /\ g[x] <= f[x]
  OBVIOUS
<1>2. SumFunctionOnSet(f, S) \in Int /\ SumFunctionOnSet(g, S) \in Int
  BY <1>1, SumInt
<1>3. SumFunctionOnSet(f, S) <= SumFunctionOnSet(g, S) /\ SumFunctionOnSet(g, S) <= SumFunctionOnSet(f, S)
  BY <1>1, SumMore
<1>. QED  BY <1>2, <1>3

\* If one term is less by c, so is the sum.
LEMMA SumCosts ==
  ASSUME NEW f, NEW g, NEW S, IsFiniteSet(S),
         \A x \in S : f[x] \in Int /\ g[x] \in Int /\ f[x] <= g[x],
         NEW c \in Int, NEW e \in S, f[e] <= g[e] - c
  PROVE  SumFunctionOnSet(f, S) <= SumFunctionOnSet(g, S) - c
<1>1. PICK R : R = S \ {e}
  OBVIOUS
<1>2. IsFiniteSet(R) /\ R \subseteq S
  BY <1>1, FS_Subset
<1>3. SumFunctionOnSet(f, R) <= SumFunctionOnSet(g, R)
  BY <1>2, SumMore
<1>4. SumFunctionOnSet(f, R) \in Int /\ SumFunctionOnSet(g, R) \in Int
  BY <1>2, SumInt
<1>5. /\ SumFunctionOnSet(f, S) = f[e] + SumFunctionOnSet(f, R)
      /\ SumFunctionOnSet(g, S) = g[e] + SumFunctionOnSet(g, R)
  BY <1>1, SumAny
<1>6. f[e] \in Int /\ g[e] \in Int
  OBVIOUS
<1>. QED  BY <1>3, <1>4, <1>5, <1>6

\* The sum over two sets that are apart.
LEMMA SumUnion ==
  ASSUME NEW f, NEW P, IsFiniteSet(P), NEW Q, IsFiniteSet(Q), P \cap Q = {},
         \A x \in P \cup Q : f[x] \in Int
  PROVE  SumFunctionOnSet(f, P \cup Q) = SumFunctionOnSet(f, P) + SumFunctionOnSet(f, Q)
<1>. DEFINE Joint(t) == SumFunctionOnSet(f, P \cup t) = SumFunctionOnSet(f, P) + SumFunctionOnSet(f, t)
<1>1. PICK B \in SUBSET (SUBSET Q) : B = { t \in SUBSET Q : ~ Joint(t) }
  OBVIOUS
<1>2. SUFFICES ASSUME B # {}  PROVE FALSE
  BY <1>1
<1>3. PICK t \in B : \A u \in SUBSET t : u # t => u \notin B
  BY <1>2, SmallestSet
<1>4. t \in SUBSET Q /\ ~ Joint(t) /\ IsFiniteSet(t)
  BY <1>1, FS_Subset
<1>5. SumFunctionOnSet(f, P) \in Int
  BY SumInt
<1>6. t # {}
  <2>. SUFFICES ASSUME t = {}  PROVE FALSE
    OBVIOUS
  <2>1. SumFunctionOnSet(f, t) = 0
    BY NoSum
  <2>2. SumFunctionOnSet(f, P \cup t) = SumFunctionOnSet(f, P)
    <3>1. P \cup t = P
      OBVIOUS
    <3>. QED  BY <3>1
  <2>3. SumFunctionOnSet(f, P) = SumFunctionOnSet(f, P) + 0
    BY <1>5
  <2>. QED  BY <1>4, <2>1, <2>2, <2>3
<1>7. PICK p, r : p \in t /\ r = t \ {p}
  BY <1>6
<1>8. r \in SUBSET t /\ r # t /\ IsFiniteSet(r)
  BY <1>4, <1>7, FS_Subset
<1>9. Joint(r)
  BY <1>1, <1>3, <1>4, <1>8
<1>10. SumFunctionOnSet(f, t) = f[p] + SumFunctionOnSet(f, r)
  BY <1>4, <1>7, SumAny
<1>11. SumFunctionOnSet(f, P \cup t) = f[p] + SumFunctionOnSet(f, P \cup r)
  <2>1. PICK W : W = P \cup t
    OBVIOUS
  <2>2. IsFiniteSet(W) /\ p \in W /\ \A x \in W : f[x] \in Int
    BY <1>4, <1>7, <2>1, FS_Union
  <2>3. W \ {p} = P \cup r
    BY <1>4, <1>7, <2>1
  <2>4. SumFunctionOnSet(f, W) = f[p] + SumFunctionOnSet(f, W \ {p})
    BY <2>2, SumAny
  <2>. QED  BY <2>1, <2>3, <2>4
<1>12. SumFunctionOnSet(f, r) \in Int /\ f[p] \in Int
  BY <1>4, <1>7, <1>8, SumInt
<1>13. SumFunctionOnSet(f, P \cup r) = SumFunctionOnSet(f, P) + SumFunctionOnSet(f, r)
  BY <1>9
<1>14. PICK a \in Int, b \in Int, v \in Int :
         a = SumFunctionOnSet(f, P) /\ b = SumFunctionOnSet(f, r) /\ v = f[p]
  BY <1>5, <1>12
<1>15. /\ SumFunctionOnSet(f, P \cup t) = v + (a + b) /\ SumFunctionOnSet(f, t) = v + b
  BY <1>10, <1>11, <1>13, <1>14
<1>. QED  BY <1>4, <1>14, <1>15

Parts(h, t) == UNION { h[k] : k \in t }

\* The sums over parts that are apart add up to the sum over all of them.
LEMMA SumParts ==
  ASSUME NEW K, IsFiniteSet(K), NEW S, IsFiniteSet(S), NEW h,
         \A k \in K : h[k] \subseteq S,
         \A k, l \in K : k # l => h[k] \cap h[l] = {},
         NEW f, \A x \in S : f[x] \in Int,
         NEW F, \A k \in K : F[k] = SumFunctionOnSet(f, h[k])
  PROVE  SumFunctionOnSet(F, K) = SumFunctionOnSet(f, Parts(h, K))
<1>. DEFINE Whole(t) == SumFunctionOnSet(F, t) = SumFunctionOnSet(f, Parts(h, t))
<1>1. PICK B \in SUBSET (SUBSET K) : B = { t \in SUBSET K : ~ Whole(t) }
  OBVIOUS
<1>2. SUFFICES ASSUME B # {}  PROVE FALSE
  BY <1>1
<1>3. PICK t \in B : \A u \in SUBSET t : u # t => u \notin B
  BY <1>2, SmallestSet
<1>4. t \in SUBSET K /\ ~ Whole(t) /\ IsFiniteSet(t)
  BY <1>1, FS_Subset
<1>5. t # {}
  <2>1. t = {} => SumFunctionOnSet(F, t) = 0 /\ Parts(h, t) = {}
    BY NoSum DEF Parts
  <2>2. SumFunctionOnSet(f, {}) = 0
    BY NoSum
  <2>. QED  BY <1>4, <2>1, <2>2
<1>6. PICK p, r : p \in t /\ r = t \ {p}
  BY <1>5
<1>7. r \in SUBSET t /\ r # t /\ IsFiniteSet(r)
  BY <1>4, <1>6, FS_Subset
<1>8. Whole(r)
  BY <1>1, <1>3, <1>4, <1>7
<1>9. \A k \in K : F[k] \in Int
  <2>1. \A k \in K : IsFiniteSet(h[k]) /\ \A x \in h[k] : f[x] \in Int
    BY FS_Subset
  <2>. QED  BY <2>1, SumInt
<1>10. SumFunctionOnSet(F, t) = F[p] + SumFunctionOnSet(F, r)
  <2>1. \A k \in t : F[k] \in Int
    BY <1>4, <1>9
  <2>. QED  BY <1>4, <1>6, <2>1, SumAny
<1>11. PICK P, Q : P = h[p] /\ Q = Parts(h, r)
  OBVIOUS
<1>12. Parts(h, t) = P \cup Q
  BY <1>6, <1>11 DEF Parts
<1>13. P \subseteq S /\ Q \subseteq S /\ P \cap Q = {}
  BY <1>4, <1>6, <1>11 DEF Parts
<1>14. SumFunctionOnSet(f, P \cup Q) = SumFunctionOnSet(f, P) + SumFunctionOnSet(f, Q)
  <2>1. IsFiniteSet(P) /\ IsFiniteSet(Q) /\ \A x \in P \cup Q : f[x] \in Int
    BY <1>13, FS_Subset
  <2>. QED  BY <1>13, <2>1, SumUnion
<1>15. F[p] = SumFunctionOnSet(f, P)
  BY <1>4, <1>6, <1>11
<1>. QED  BY <1>4, <1>8, <1>10, <1>11, <1>12, <1>14, <1>15

\* A point less is less after rounding as well.
LEMMA RoundCosts ==
  ASSUME NEW x \in Int, NEW y \in Int, x <= y - Unit
  PROVE  Round(x) < Round(y)
<1>1. PICK u \in Nat \ {0} : u = Unit
  BY UnitAssumption
<1>2. PICK w \in Nat \ {0} : w = 2 * u
  OBVIOUS
<1>3. \A n \in Int : /\ n \div w \in Int
                     /\ (n \div w) * w <= n /\ n < ((n \div w) + 1) * w
  BY <1>2, Quotient
<1>4. CASE x >= 0
  <2>1. PICK a \in Int, b \in Int : a = (2 * x + u) \div w /\ b = (2 * y + u) \div w
    BY <1>3
  <2>2. a * w <= 2 * x + u /\ 2 * y + u < (b + 1) * w
    BY <1>3, <2>1
  <2>3. 2 * x + u + w <= 2 * y + u
    BY <1>1, <1>2
  <2>4. (a + 1) * w = a * w + w /\ a * w \in Int /\ (b + 1) * w \in Int
    OBVIOUS
  <2>5. (a + 1) * w < (b + 1) * w
    BY <2>2, <2>3, <2>4
  <2>6. a + 1 < b + 1
    BY <2>5, Cancel
  <2>7. y >= 0 /\ Round(x) = a /\ Round(y) = b
    BY <1>1, <1>2, <1>4, <2>1 DEF Round
  <2>. QED  BY <2>6, <2>7
<1>5. CASE x < 0 /\ y < 0
  <2>1. PICK a \in Int, b \in Int : a = (u - 2 * x) \div w /\ b = (u - 2 * y) \div w
    BY <1>3
  <2>2. b * w <= u - 2 * y /\ u - 2 * x < (a + 1) * w
    BY <1>3, <2>1
  <2>3. u - 2 * y + w <= u - 2 * x
    BY <1>1, <1>2
  <2>4. (b + 1) * w = b * w + w /\ b * w \in Int /\ (a + 1) * w \in Int
    OBVIOUS
  <2>5. (b + 1) * w < (a + 1) * w
    BY <2>2, <2>3, <2>4
  <2>6. b + 1 < a + 1
    BY <2>5, Cancel
  <2>7. Round(x) = - a /\ Round(y) = - b
    BY <1>1, <1>2, <1>5, <2>1 DEF Round
  <2>. QED  BY <2>6, <2>7
<1>6. CASE x < 0 /\ y >= 0
  <2>1. PICK a \in Int, b \in Int : a = (u - 2 * x) \div w /\ b = (2 * y + u) \div w
    BY <1>3
  <2>2. Round(x) = - a /\ Round(y) = b
    BY <1>1, <1>2, <1>6, <2>1 DEF Round
  <2>3. /\ a * w <= u - 2 * x /\ u - 2 * x < (a + 1) * w
        /\ b * w <= 2 * y + u /\ 2 * y + u < (b + 1) * w
    BY <1>3, <2>1
  <2>4. 0 * w < (a + 1) * w /\ 0 * w < (b + 1) * w
    <3>1. 0 * w = 0 /\ (a + 1) * w \in Int /\ (b + 1) * w \in Int
      OBVIOUS
    <3>. QED  BY <1>6, <2>3, <3>1
  <2>5. 0 < a + 1 /\ 0 < b + 1
    BY <2>4, Cancel
  <2>6. ~ (a = 0 /\ b = 0)
    <3>1. (a = 0 => (a + 1) * w = w) /\ (b = 0 => (b + 1) * w = w)
      OBVIOUS
    <3>. QED  BY <1>1, <1>2, <2>3, <3>1
  <2>. QED  BY <2>2, <2>5, <2>6
<1>. QED  BY <1>4, <1>5, <1>6

-----------------------------------------------------------------------------
(* What a failure costs its check.                                         *)

FullOf(T, S) == SumFunctionOnSet([ i \in DOMAIN T |-> T[i].score ], S)
AllAccepted(rs, S) == \A i \in S : rs[i].status = "ACCEPTED"

\* Whatever fails costs a point or more.
CostlyTask(T, rs, i) ==
  /\ T[i].score >= Unit
  /\ rs[i].status = "PARTIAL_CORRECT" =>
       rs[i].score * T[i].score <= (T[i].score - Unit) * Unit
CostlyOn(T, rs, S) == \A i \in S : CostlyTask(T, rs, i)

\* A score is the full one if all is accepted, and at least a point less if not.
Costs(T, rs, S, x) ==
  /\ x \in Int
  /\ AllAccepted(rs, S) => x = FullOf(T, S)
  /\ ~ AllAccepted(rs, S) => x <= FullOf(T, S) - Unit

\* A sum of terms that are not negative is not negative.
LEMMA SumPositive ==
  ASSUME NEW f, NEW S, IsFiniteSet(S), \A x \in S : f[x] \in Int /\ f[x] >= 0
  PROVE  SumFunctionOnSet(f, S) >= 0
<1>1. PICK B \in SUBSET (SUBSET S) : B = { s \in SUBSET S : ~ (SumFunctionOnSet(f, s) >= 0) }
  OBVIOUS
<1>2. SUFFICES ASSUME B # {}  PROVE FALSE
  BY <1>1
<1>3. PICK t \in B : \A u \in SUBSET t : u # t => u \notin B
  BY <1>2, SmallestSet
<1>4. t \in SUBSET S /\ ~ (SumFunctionOnSet(f, t) >= 0) /\ IsFiniteSet(t)
  BY <1>1, FS_Subset
<1>5. t # {}
  <2>1. t = {} => SumFunctionOnSet(f, t) = 0
    BY NoSum
  <2>. QED  BY <1>4, <2>1
<1>6. PICK p, r : p = Pick(t) /\ r = t \ {p}
  OBVIOUS
<1>7. p \in t /\ r \in SUBSET t /\ r # t /\ IsFiniteSet(r)
  BY <1>4, <1>5, <1>6, Picked, FS_Subset
<1>8. SumFunctionOnSet(f, r) >= 0
  BY <1>1, <1>3, <1>4, <1>7
<1>9. SumFunctionOnSet(f, t) = f[p] + SumFunctionOnSet(f, r)
  BY <1>4, <1>5, <1>6, SumStep
<1>10. SumFunctionOnSet(f, r) \in Int
  BY <1>4, <1>7, SumInt
<1>11. f[p] \in Int /\ f[p] >= 0
  BY <1>4, <1>7
<1>. QED  BY <1>4, <1>8, <1>9, <1>10, <1>11

LEMMA FullType ==
  ASSUME NEW T, Shape(T), NEW S, S \subseteq DOMAIN T
  PROVE  /\ IsFiniteSet(S) /\ FullOf(T, S) \in Int
         /\ \A i \in S : T[i].score \in Int
<1>1. IsFiniteSet(S)
  BY ShapeFacts, FS_Subset
<1>2. \A i \in DOMAIN T : T[i].score \in Int
  BY ShapeFacts DEF TaskRecord
<1>3. PICK g : g = [ i \in DOMAIN T |-> T[i].score ]
  OBVIOUS
<1>4. \A i \in S : g[i] \in Int
  BY <1>2, <1>3
<1>5. SumFunctionOnSet(g, S) \in Int
  BY <1>1, <1>4, SumInt
<1>. QED  BY <1>1, <1>2, <1>3, <1>5 DEF FullOf

\* A check with a case is worth a point.
LEMMA FullSome ==
  ASSUME NEW T, Shape(T), NEW S, S \subseteq DOMAIN T, NEW rs, CostlyOn(T, rs, S), S # {}
  PROVE  FullOf(T, S) >= Unit
<1>1. PICK g : g = [ i \in DOMAIN T |-> T[i].score ]
  OBVIOUS
<1>2. PICK u \in Nat \ {0} : u = Unit
  BY UnitAssumption
<1>3. /\ IsFiniteSet(S)
      /\ \A i \in S : g[i] \in Int /\ g[i] >= u
  BY <1>1, <1>2, FullType DEF CostlyOn, CostlyTask
<1>4. PICK e, R : e \in S /\ R = S \ {e}
  OBVIOUS
<1>5. IsFiniteSet(R) /\ R \subseteq S
  BY <1>3, <1>4, FS_Subset
<1>6. SumFunctionOnSet(g, S) = g[e] + SumFunctionOnSet(g, R)
  BY <1>3, <1>4, SumAny
<1>7. \A i \in R : g[i] \in Int /\ g[i] >= 0
  BY <1>2, <1>3, <1>5
<1>8. SumFunctionOnSet(g, R) >= 0 /\ SumFunctionOnSet(g, R) \in Int
  BY <1>5, <1>7, SumPositive, SumInt
<1>9. g[e] \in Int /\ g[e] >= u
  BY <1>3, <1>4
<1>10. FullOf(T, S) = SumFunctionOnSet(g, S)
  BY <1>1 DEF FullOf
<1>. QED  BY <1>2, <1>6, <1>8, <1>9, <1>10

\* Nothing is the right score for nothing, and for anything with a failure.
LEMMA NothingCosts ==
  ASSUME NEW T, Shape(T), NEW S, S \subseteq DOMAIN T, NEW rs, CostlyOn(T, rs, S),
         S = {} \/ ~ AllAccepted(rs, S)
  PROVE  Costs(T, rs, S, 0)
<1>1. CASE S = {}
  <2>1. FullOf(T, S) = 0 /\ AllAccepted(rs, S)
    BY <1>1, NoSum DEF FullOf, AllAccepted
  <2>. QED  BY <2>1 DEF Costs
<1>2. CASE ~ AllAccepted(rs, S)
  <2>1. S # {}
    BY <1>2 DEF AllAccepted
  <2>2. FullOf(T, S) >= Unit /\ FullOf(T, S) \in Int /\ Unit \in Int
    BY <2>1, FullSome, FullType, UnitAssumption
  <2>. QED  BY <1>2, <2>2 DEF Costs
<1>. QED  BY <1>1, <1>2

\* What one task earns.
LEMMA TaskCosts ==
  ASSUME NEW T, Shape(T), NEW rs \in Results(T), NEW i \in DOMAIN T, CostlyTask(T, rs, i)
  PROVE  /\ Earned(T, rs, i) \in Int
         /\ rs[i].status = "ACCEPTED" => Earned(T, rs, i) = T[i].score
         /\ rs[i].status # "ACCEPTED" => Earned(T, rs, i) <= T[i].score - Unit
<1>1. PICK a \in Int, b \in Int : a = T[i].score /\ b = rs[i].score
  BY ShapeFacts DEF TaskRecord, Results, ResultType
<1>2. PICK u \in Nat \ {0} : u = Unit
  BY UnitAssumption
<1>3. a >= u /\ (rs[i].status = "PARTIAL_CORRECT" => b * a <= (a - u) * u)
  BY <1>1, <1>2 DEF CostlyTask
<1>4. PICK c \in Int : c = b * a
  OBVIOUS
<1>5. PICK q \in Int : q = c \div u /\ q * u <= c
  BY <1>2, Quotient
<1>6. CASE rs[i].status = "ACCEPTED"
  <2>1. Earned(T, rs, i) = a
    BY <1>1, <1>6 DEF Earned
  <2>. QED  BY <1>1, <1>6, <2>1
<1>7. CASE rs[i].status = "PARTIAL_CORRECT"
  <2>1. Earned(T, rs, i) = q
    BY <1>1, <1>2, <1>4, <1>5, <1>7 DEF Earned
  <2>2. PICK d \in Int : d = a - u
    OBVIOUS
  <2>3. q * u <= d * u
    <3>1. q * u \in Int /\ d * u \in Int /\ c <= d * u
      BY <1>3, <1>4, <1>7, <2>2
    <3>. QED  BY <1>5, <3>1
  <2>4. q <= d
    <3>1. SUFFICES ASSUME d < q  PROVE FALSE
      OBVIOUS
    <3>2. PICK k \in Nat : q = (d + 1) + k
      <4>1. q - (d + 1) \in Nat /\ q = (d + 1) + (q - (d + 1))
        BY <3>1
      <4>. QED  BY <4>1
    <3>3. q * u = d * u + u + k * u /\ k * u \in Nat /\ d * u \in Int
      BY <3>2
    <3>. QED  BY <2>3, <3>3
  <2>. QED  BY <1>1, <1>2, <1>7, <2>1, <2>2, <2>4
<1>8. CASE rs[i].status \notin { "ACCEPTED", "PARTIAL_CORRECT" }
  <2>1. Earned(T, rs, i) = 0
    BY <1>8 DEF Earned
  <2>. QED  BY <1>1, <1>2, <1>3, <1>8, <2>1
<1>. QED  BY <1>6, <1>7, <1>8

\* What the tasks of a check earn together.
LEMMA EarnedCosts ==
  ASSUME NEW T, Shape(T), NEW rs \in Results(T), NEW S, S \subseteq DOMAIN T, CostlyOn(T, rs, S)
  PROVE  Costs(T, rs, S, EarnedBy(T, rs, S))
<1>1. PICK f, g : f = [ i \in S |-> Earned(T, rs, i) ] /\ g = [ i \in DOMAIN T |-> T[i].score ]
  OBVIOUS
<1>2. EarnedBy(T, rs, S) = SumFunctionOnSet(f, S) /\ FullOf(T, S) = SumFunctionOnSet(g, S)
  BY <1>1 DEF EarnedBy, FullOf, SumFunction
<1>3. IsFiniteSet(S) /\ Unit \in Nat
  BY FullType, UnitAssumption
<1>4. ASSUME NEW i \in S
      PROVE  /\ f[i] \in Int /\ g[i] \in Int
             /\ rs[i].status = "ACCEPTED" => f[i] = g[i]
             /\ rs[i].status # "ACCEPTED" => f[i] <= g[i] - Unit
  <2>1. /\ Earned(T, rs, i) \in Int
        /\ rs[i].status = "ACCEPTED" => Earned(T, rs, i) = T[i].score
        /\ rs[i].status # "ACCEPTED" => Earned(T, rs, i) <= T[i].score - Unit
    BY TaskCosts DEF CostlyOn
  <2>2. T[i].score \in Int
    BY FullType
  <2>. QED  BY <1>1, <2>1, <2>2
<1>5. \A i \in S : f[i] <= g[i]
  BY <1>3, <1>4
<1>6. EarnedBy(T, rs, S) \in Int
  BY EarnedType
<1>7. CASE AllAccepted(rs, S)
  <2>1. \A i \in S : f[i] \in Int /\ f[i] = g[i]
    BY <1>4, <1>7 DEF AllAccepted
  <2>2. SumFunctionOnSet(f, S) = SumFunctionOnSet(g, S)
    BY <1>3, <2>1, SumSame
  <2>. QED  BY <1>2, <1>6, <1>7, <2>2 DEF Costs
<1>8. CASE ~ AllAccepted(rs, S)
  <2>1. PICK e \in S : f[e] <= g[e] - Unit
    BY <1>4, <1>8 DEF AllAccepted
  <2>2. SumFunctionOnSet(f, S) <= SumFunctionOnSet(g, S) - Unit
    BY <1>3, <1>4, <1>5, <2>1, SumCosts
  <2>. QED  BY <1>2, <1>6, <1>8, <2>2 DEF Costs
<1>. QED  BY <1>7, <1>8

\* A section that may not be there because no task ran.
LEMMA ShownCosts ==
  ASSUME NEW T, Shape(T), NEW rs, NEW S, S \subseteq DOMAIN T, CostlyOn(T, rs, S),
         NEW x, Costs(T, rs, S, x), NEW l
  PROVE  Costs(T, rs, S, Shown(rs, S, Section(x, l)).score)
<1>1. CASE Ran(rs, S) = {}
  <2>1. Shown(rs, S, Section(x, l)).score = 0
    BY <1>1 DEF Shown, None
  <2>2. \A i \in S : rs[i].status = "DEPENDENCY_NOT_SATISFIED"
    BY <1>1 DEF Ran
  <2>3. S = {} \/ ~ AllAccepted(rs, S)
    BY <2>2 DEF AllAccepted
  <2>. QED  BY <2>1, <2>3, NothingCosts
<1>2. CASE Ran(rs, S) # {}
  <2>1. Shown(rs, S, Section(x, l)).score = x
    BY <1>2 DEF Shown, Section
  <2>. QED  BY <2>1
<1>. QED  BY <1>1, <1>2

LEMMA StaticCosts ==
  ASSUME NEW T, Shape(T), NEW rs \in Results(T), NEW S, S \subseteq DOMAIN T,
         CostlyOn(T, rs, S), DoneOn(rs, S)
  PROVE  Costs(T, rs, S, StaticShown(T, rs, S).score)
<1>1. CASE \E i \in S : rs[i].status \in ServerError
  <2>1. StaticShown(T, rs, S).score = 0
    BY <1>1 DEF StaticShown, Broken
  <2>2. ~ AllAccepted(rs, S)
    BY <1>1 DEF AllAccepted, ServerError
  <2>. QED  BY <2>1, <2>2, NothingCosts
<1>2. CASE ~ \E i \in S : rs[i].status \in ServerError
  <2>1. StaticShown(T, rs, S) = Shown(rs, S, Section(EarnedBy(T, rs, S), Ran(rs, S)))
    BY <1>2 DEF StaticShown
  <2>. QED  BY <2>1, EarnedCosts, ShownCosts
<1>. QED  BY <1>1, <1>2

\* Memory checks earn by the accepted runs only.
LEMMA AcceptedCosts ==
  ASSUME NEW T, Shape(T), NEW rs \in Results(T), NEW S, S \subseteq DOMAIN T, CostlyOn(T, rs, S)
  PROVE  Costs(T, rs, S, EarnedBy(T, rs, AcceptedOf(rs, S)))
<1>1. PICK A, R : A = AcceptedOf(rs, S) /\ R = S \ A
  OBVIOUS
<1>2. A \subseteq DOMAIN T /\ R \subseteq DOMAIN T /\ A \cap R = {} /\ A \cup R = S /\ AllAccepted(rs, A)
  BY <1>1 DEF AcceptedOf, AllAccepted
<1>3. CostlyOn(T, rs, A) /\ CostlyOn(T, rs, R)
  BY <1>2 DEF CostlyOn
<1>4. EarnedBy(T, rs, A) = FullOf(T, A) /\ EarnedBy(T, rs, A) \in Int
  BY <1>2, <1>3, EarnedCosts DEF Costs
<1>5. CASE AllAccepted(rs, S)
  <2>1. A = S
    BY <1>1, <1>5 DEF AcceptedOf, AllAccepted
  <2>. QED  BY <1>1, <1>4, <1>5, <2>1 DEF Costs
<1>6. CASE ~ AllAccepted(rs, S)
  <2>1. R # {}
    BY <1>1, <1>6 DEF AcceptedOf, AllAccepted
  <2>2. FullOf(T, R) >= Unit /\ FullOf(T, R) \in Int /\ FullOf(T, A) \in Int /\ Unit \in Int
    BY <1>2, <1>3, <2>1, FullSome, FullType, UnitAssumption
  <2>3. FullOf(T, S) = FullOf(T, A) + FullOf(T, R)
    <3>1. PICK g : g = [ i \in DOMAIN T |-> T[i].score ]
      OBVIOUS
    <3>2. \A i \in A \cup R : g[i] \in Int
      BY <1>2, <3>1, FullType
    <3>3. IsFiniteSet(A) /\ IsFiniteSet(R)
      BY <1>2, FullType
    <3>4. SumFunctionOnSet(g, A \cup R) = SumFunctionOnSet(g, A) + SumFunctionOnSet(g, R)
      BY <1>2, <3>2, <3>3, SumUnion
    <3>. QED  BY <1>2, <3>1, <3>4 DEF FullOf
  <2>. QED  BY <1>1, <1>4, <1>6, <2>2, <2>3 DEF Costs
<1>. QED  BY <1>5, <1>6

LEMMA MemoryCosts ==
  ASSUME NEW T, Shape(T), NEW rs \in Results(T), NEW S, S \subseteq DOMAIN T,
         CostlyOn(T, rs, S), DoneOn(rs, S), NEW l
  PROVE  Costs(T, rs, S, MemoryShown(T, rs, S, l).score)
<1>1. MemoryShown(T, rs, S, l) = Shown(rs, S, Section(EarnedBy(T, rs, AcceptedOf(rs, S)), l))
  BY DEF MemoryShown
<1>. QED  BY <1>1, AcceptedCosts, ShownCosts

LEMMA CaseCosts ==
  ASSUME NEW T, Shape(T), NEW rs \in Results(T), NEW S, S \subseteq DOMAIN T,
         CostlyOn(T, rs, S), DoneOn(rs, S), NEW l
  PROVE  Costs(T, rs, S, CaseSection(T, rs, S, l).score)
<1>1. PICK stops : stops = { i \in Ran(rs, S) : rs[i].status \in Unlisted \cup { "PENDING" } }
  OBVIOUS
<1>2. CASE stops = {}
  <2>1. CaseSection(T, rs, S, l) = Shown(rs, S, Section(EarnedBy(T, rs, S), l))
    BY <1>1, <1>2 DEF CaseSection
  <2>. QED  BY <2>1, EarnedCosts, ShownCosts
<1>3. CASE stops # {}
  <2>1. CaseSection(T, rs, S, l) \in { None, Broken, Thrown }
    BY <1>1, <1>3 DEF CaseSection
  <2>2. CaseSection(T, rs, S, l).score = 0
    BY <2>1 DEF None, Broken, Thrown
  <2>3. ~ AllAccepted(rs, S)
    BY <1>1, <1>3 DEF AllAccepted, Ran, Unlisted, StatusString
  <2>. QED  BY <2>2, <2>3, NothingCosts
<1>. QED  BY <1>2, <1>3

\* The one task of a type.
LEMMA FullOne ==
  ASSUME NEW T, Shape(T), NEW i \in DOMAIN T
  PROVE  FullOf(T, {i}) = T[i].score /\ T[i].score \in Int
<1>1. PICK g : g = [ j \in DOMAIN T |-> T[j].score ]
  OBVIOUS
<1>2. PICK S : S = {i}
  OBVIOUS
<1>3. IsFiniteSet(S) /\ T[i].score \in Int /\ S \subseteq DOMAIN T
  BY <1>2, FullType
<1>4. \A x \in S : g[x] \in Int
  BY <1>1, <1>2, <1>3
<1>5. SumFunctionOnSet(g, S) = g[i] + SumFunctionOnSet(g, S \ {i})
  BY <1>2, <1>3, <1>4, SumAny
<1>6. SumFunctionOnSet(g, S \ {i}) = 0
  <2>1. S \ {i} = {}
    BY <1>2
  <2>. QED  BY <2>1, NoSum
<1>. QED  BY <1>1, <1>2, <1>3, <1>5, <1>6 DEF FullOf

LEMMA CompileCosts ==
  ASSUME NEW T, Shape(T), NEW rs \in Results(T), CostlyOn(T, rs, OfType(T, "compile"))
  PROVE  Costs(T, rs, OfType(T, "compile"), CompileShown(T, rs).score)
<1>1. OfType(T, "compile") = {0} /\ 0 \in DOMAIN T
  BY ShapeFacts DEF Shape, OfType
<1>2. CASE rs[0].status = "ACCEPTED"
  <2>1. CompileShown(T, rs).score = T[0].score
    BY <1>2 DEF CompileShown, Section
  <2>2. AllAccepted(rs, {0}) /\ FullOf(T, {0}) = T[0].score /\ T[0].score \in Int
    BY <1>1, <1>2, FullOne DEF AllAccepted
  <2>. QED  BY <1>1, <2>1, <2>2 DEF Costs
<1>3. CASE rs[0].status # "ACCEPTED"
  <2>1. CompileShown(T, rs).score = 0
    BY <1>3 DEF CompileShown, Section, Broken
  <2>2. ~ AllAccepted(rs, {0})
    BY <1>3 DEF AllAccepted
  <2>. QED  BY <1>1, <2>1, <2>2, NothingCosts
<1>. QED  BY <1>2, <1>3

\* What the report of a google test says costs a point as well (mcourse).
CostlyReport(rs, i) ==
  LET charged == McourseServer!Charged(sub.config, rs[i].failed)
  IN  /\ rs[i].status = "ACCEPTED" => rs[i].parses /\ charged = 0
      /\ rs[i].status \in { "PARTIAL_CORRECT", "WRONG_ANSWER" } => charged >= Unit \/ ~ rs[i].parses

LEMMA ChargedType ==
  ASSUME sub \in Submissions, programming, NEW failed
  PROVE  McourseServer!Charged(sub.config, failed) \in Int
<1>1. PICK detail : detail = sub.config.detail
  OBVIOUS
<1>2. IsFiniteSet(DOMAIN detail) /\ detail \in [DOMAIN detail -> Int]
  BY <1>1, SubmissionAssumption DEF programming
<1>3. PICK D : D = failed \cap DOMAIN detail
  OBVIOUS
<1>4. PICK f : f = [ case \in D |-> detail[case] * Unit ]
  OBVIOUS
<1>5. IsFiniteSet(D) /\ DOMAIN f = D
  BY <1>2, <1>3, <1>4, FS_Subset
<1>6. ASSUME NEW case \in D  PROVE f[case] \in Int
  <2>1. detail[case] \in Int /\ Unit \in Int
    BY <1>2, <1>3, UnitAssumption
  <2>. QED  BY <1>4, <2>1
<1>7. McourseServer!Charged(sub.config, failed) = SumFunction(f)
  BY <1>1, <1>3, <1>4, SameSums DEF McourseServer!Charged
<1>. QED  BY <1>5, <1>6, <1>7, SumOf

\* The google tests of mcourse, if they are graded at all.
LEMMA GTestCosts ==
  ASSUME sub \in Submissions, programming, NEW T, Shape(T), NEW rs \in Results(T),
         NEW S, S = OfType(T, "gtest"), CostlyOn(T, rs, S), DoneOn(rs, S),
         \A i \in S : CostlyReport(rs, i),
         NEW section, section = McourseServer!GTestSection(sub.config, T, rs)
  PROVE  /\ S = {} \/ sub.config.info => Costs(T, rs, S, section.score)
         /\ S # {} /\ ~ sub.config.info =>
              section.score \in Int /\ section.score <= FullOf(T, S) - Unit
<1>1. S \subseteq DOMAIN T /\ Unit \in Int
  BY UnitAssumption DEF OfType
<1>2. None.score = 0
  BY DEF None
<1>3. CASE S = {}
  <2>1. section = None
    BY <1>3, SameNames DEF McourseServer!GTestSection
  <2>. QED  BY <1>1, <1>2, <1>3, <2>1, NothingCosts
<1>4. CASE S # {} /\ ~ sub.config.info
  <2>1. section = None
    BY <1>4, SameNames DEF McourseServer!GTestSection
  <2>2. FullOf(T, S) >= Unit /\ FullOf(T, S) \in Int
    BY <1>1, <1>4, FullSome, FullType
  <2>. QED  BY <1>1, <1>2, <1>4, <2>1, <2>2
<1>5. CASE S # {} /\ sub.config.info
  <2>1. PICK i \in S : i = CHOOSE j \in S : TRUE
    BY <1>5
  <2>2. S = {i} /\ i \in DOMAIN T
    BY <1>1, <2>1 DEF Shape, OfType
  <2>3. PICK charged \in Int : charged = McourseServer!Charged(sub.config, rs[i].failed)
    BY ChargedType
  <2>4. PICK graded : graded = Section(T[i].score - charged, rs[i].failed)
    OBVIOUS
  <2>5. section =
          IF rs[i].status \in { "PENDING", "DEPENDENCY_NOT_SATISFIED" } THEN None
          ELSE IF \/ ~ rs[i].parses
                  \/ rs[i].status \notin { "ACCEPTED", "PARTIAL_CORRECT", "WRONG_ANSWER" }
          THEN Section(0, {})
          ELSE graded
    BY <1>5, <2>1, <2>3, <2>4, SameNames, SameSections DEF McourseServer!GTestSection
  <2>6. /\ rs[i].status = "ACCEPTED" => rs[i].parses /\ charged = 0
        /\ rs[i].status \in { "PARTIAL_CORRECT", "WRONG_ANSWER" } => charged >= Unit \/ ~ rs[i].parses
    BY <2>1, <2>3 DEF CostlyReport
  <2>7. FullOf(T, S) = T[i].score /\ T[i].score \in Int
    BY <2>2, FullOne
  <2>8. AllAccepted(rs, S) <=> rs[i].status = "ACCEPTED"
    BY <2>2 DEF AllAccepted
  <2>9. \A x, l : Section(x, l).score = x
    BY DEF Section
  <2>10. CASE rs[i].status = "ACCEPTED"
    <3>1. section.score = T[i].score
      BY <2>4, <2>5, <2>6, <2>7, <2>9, <2>10
    <3>. QED  BY <1>5, <2>7, <2>8, <2>10, <3>1 DEF Costs
  <2>11. CASE rs[i].status \in { "PARTIAL_CORRECT", "WRONG_ANSWER" } /\ rs[i].parses
    <3>1. section.score = T[i].score - charged /\ charged >= Unit
      BY <2>4, <2>5, <2>6, <2>9, <2>11
    <3>2. section.score \in Int /\ section.score <= T[i].score - Unit
      BY <1>1, <2>7, <3>1
    <3>3. rs[i].status # "ACCEPTED"
      BY <2>11
    <3>. QED  BY <1>5, <2>7, <2>8, <3>2, <3>3 DEF Costs
  <2>12. CASE \/ rs[i].status \notin { "ACCEPTED", "PARTIAL_CORRECT", "WRONG_ANSWER" }
              \/ rs[i].status # "ACCEPTED" /\ ~ rs[i].parses
    <3>1. section.score = 0
      BY <1>2, <2>5, <2>9, <2>12
    <3>2. rs[i].status # "ACCEPTED"
      BY <2>12
    <3>. QED  BY <1>1, <1>5, <2>8, <3>1, <3>2, NothingCosts
  <2>. QED  BY <2>10, <2>11, <2>12
<1>. QED  BY <1>3, <1>4, <1>5

\* Costly, of any tasks and results.
CostlyResults(T, rs) ==
  /\ CostlyOn(T, rs, DOMAIN T)
  /\ sub.server = "mcourse" => \A i \in OfType(T, "gtest") : CostlyReport(rs, i)

\* A check that deserves its full score: all its cases are accepted, and it is graded.
Right(T, rs, type) ==
  /\ AllAccepted(rs, OfType(T, type))
  /\ type = "gtest" /\ OfType(T, type) # {} /\ sub.server = "mcourse" => sub.config.info

LEMMA SectionCosts ==
  ASSUME sub \in Submissions, programming, NEW T, T = tasks, Shape(T), NEW rs \in Results(T),
         Known(rs) = rs, DoneOn(rs, DOMAIN T), CostlyResults(T, rs),
         NEW type \in CheckType, NEW S, S = OfType(T, type),
         NEW x, x = SectionsOf(rs)[type].score
  PROVE  /\ x \in Int
         /\ Right(T, rs, type) => x = FullOf(T, S)
         /\ ~ Right(T, rs, type) => x <= FullOf(T, S) - Unit
<1>1. S \subseteq DOMAIN T /\ DoneOn(rs, S) /\ CostlyOn(T, rs, S)
  BY DEF OfType, DoneOn, CostlyResults, CostlyOn
<1>2. PICK all : all = SectionsOf(rs)
  OBVIOUS
<1>3. \A l : Costs(T, rs, S, CaseSection(T, rs, S, l).score)
  BY <1>1, CaseCosts
<1>4. \A l : Costs(T, rs, S, MemoryShown(T, rs, S, l).score)
  BY <1>1, MemoryCosts
<1>5. Costs(T, rs, S, StaticShown(T, rs, S).score)
  BY <1>1, StaticCosts
<1>6. type = "compile" => Costs(T, rs, S, CompileShown(T, rs).score)
  BY <1>1, CompileCosts
<1>7. \A section : MojServer!Counted(T, rs, S, section).score = section.score
  BY DEF MojServer!Counted
<1>8. SUFFICES /\ (type = "gtest" /\ sub.server = "mcourse") \/ Costs(T, rs, S, all[type].score)
               /\ (type = "gtest" /\ sub.server = "mcourse") =>
                    /\ S = {} \/ sub.config.info => Costs(T, rs, S, all[type].score)
                    /\ S # {} /\ ~ sub.config.info =>
                         all[type].score \in Int /\ all[type].score <= FullOf(T, S) - Unit
  <2>1. CASE type = "gtest" /\ sub.server = "mcourse" /\ S # {} /\ ~ sub.config.info
    BY <1>2, <1>8, <2>1 DEF Right
  <2>2. CASE ~ (type = "gtest" /\ sub.server = "mcourse" /\ S # {} /\ ~ sub.config.info)
    <3>1. Costs(T, rs, S, x)
      BY <1>2, <1>8, <2>2
    <3>2. Right(T, rs, type) <=> AllAccepted(rs, S)
      BY <2>2 DEF Right
    <3>. QED  BY <3>1, <3>2 DEF Costs
  <2>. QED  BY <2>1, <2>2
<1>9. CASE sub.server = "mcourse"
  <2>1. all = McourseServer!Sections(sub.config, T, rs) /\ rs = McourseServer!Reread(T, rs)
    BY <1>2, <1>9 DEF SectionsOf, Known
  <2>2. CASE type = "compile"
    <3>1. all[type] = CompileShown(T, rs)
      BY <2>1, <2>2, McourseSections
    <3>. QED  BY <1>6, <2>2, <3>1
  <2>3. CASE type = "memory"
    <3>1. all[type] = MemoryShown(T, rs, S, NotAccepted(rs, S))
      BY <2>1, <2>3, McourseSections
    <3>. QED  BY <1>4, <2>3, <3>1
  <2>4. CASE type \in { "random", "standard" }
    <3>1. all[type] = CaseSection(T, rs, S, NotAccepted(rs, S))
      BY <2>1, <2>4, McourseSections
    <3>. QED  BY <1>3, <2>4, <3>1
  <2>5. CASE type = "static"
    <3>1. all[type] = StaticShown(T, McourseServer!Reread(T, rs), S)
      BY <2>1, <2>5, McourseSections
    <3>. QED  BY <1>5, <2>1, <2>5, <3>1
  <2>6. CASE type = "gtest"
    <3>1. all[type] = McourseServer!GTestSection(sub.config, T, rs)
      BY <2>1, <2>6, McourseSections
    <3>2. \A i \in S : CostlyReport(rs, i)
      BY <1>9, <2>6 DEF CostlyResults
    <3>3. /\ S = {} \/ sub.config.info => Costs(T, rs, S, all[type].score)
          /\ S # {} /\ ~ sub.config.info =>
               all[type].score \in Int /\ all[type].score <= FullOf(T, S) - Unit
      BY <1>1, <2>6, <3>1, <3>2, GTestCosts
    <3>. QED  BY <1>9, <2>6, <3>3
  <2>. QED  BY <2>2, <2>3, <2>4, <2>5, <2>6 DEF CheckType
<1>10. CASE sub.server # "mcourse"
  <2>1. all = MojServer!Sections(T, rs) /\ rs = MojServer!Reread(T, rs)
    BY <1>2, <1>10 DEF SectionsOf, Known
  <2>2. CASE type = "compile"
    <3>1. all[type] = CompileShown(T, rs)
      BY <2>1, <2>2, MojSections
    <3>. QED  BY <1>6, <1>10, <2>2, <3>1
  <2>3. CASE type = "memory"
    <3>1. PICK s : s = MemoryShown(T, rs, S, Ran(rs, S) \ AcceptedOf(rs, S))
      OBVIOUS
    <3>2. all[type] = MojServer!Counted(T, rs, S, s)
      BY <2>1, <2>3, <3>1, MojSections
    <3>. QED  BY <1>4, <1>7, <1>10, <3>1, <3>2
  <2>4. CASE type \in { "random", "standard" }
    <3>1. PICK s : s = CaseSection(T, rs, S, Ran(rs, S))
      OBVIOUS
    <3>2. all[type] = MojServer!Counted(T, rs, S, s)
      BY <2>1, <2>4, <3>1, MojSections
    <3>. QED  BY <1>3, <1>7, <1>10, <3>1, <3>2
  <2>5. CASE type \in { "static", "gtest" }
    <3>1. all[type] = StaticShown(T, MojServer!Reread(T, rs), S)
      BY <2>1, <2>5, MojSections
    <3>. QED  BY <1>5, <1>10, <2>1, <3>1
  <2>. QED  BY <2>2, <2>3, <2>4, <2>5 DEF CheckType
<1>. QED  BY <1>9, <1>10

LEMMA CheckTypeFinite == IsFiniteSet(CheckType)
<1>1. ASSUME NEW x, NEW y  PROVE IsFiniteSet({x, y})
  <2>1. IsFiniteSet({x}) /\ IsFiniteSet({y})
    BY FS_Singleton
  <2>2. IsFiniteSet({x} \cup {y})
    BY <2>1, FS_Union
  <2>3. {x, y} = {x} \cup {y}
    OBVIOUS
  <2>. QED  BY <2>2, <2>3
<1>2. CheckType =
        ({ "compile", "memory" } \cup { "random", "standard" }) \cup { "static", "gtest" }
  BY DEF CheckType
<1>. QED  BY <1>1, <1>2, FS_Union

Scores(rs) == [ type \in CheckType |-> SectionsOf(rs)[type].score ]
AllRight(T, rs) == \A type \in CheckType : Right(T, rs, type)

\* The tasks are those of the checks.
LEMMA FullParts ==
  ASSUME NEW T, Shape(T), NEW F, F = [ type \in CheckType |-> FullOf(T, OfType(T, type)) ]
  PROVE  SumFunctionOnSet(F, CheckType) = FullOf(T, DOMAIN T)
<1>1. PICK g : g = [ i \in DOMAIN T |-> T[i].score ]
  OBVIOUS
<1>2. PICK h : h = [ type \in CheckType |-> OfType(T, type) ]
  OBVIOUS
<1>3. IsFiniteSet(DOMAIN T) /\ \A i \in DOMAIN T : g[i] \in Int
  BY <1>1, FullType
<1>4. /\ \A type \in CheckType : h[type] \subseteq DOMAIN T
      /\ \A k, l \in CheckType : k # l => h[k] \cap h[l] = {}
  BY <1>2 DEF OfType
<1>5. \A type \in CheckType : F[type] = SumFunctionOnSet(g, h[type])
  BY <1>1, <1>2 DEF FullOf
<1>6. SumFunctionOnSet(F, CheckType) = SumFunctionOnSet(g, Parts(h, CheckType))
  BY <1>3, <1>4, <1>5, CheckTypeFinite, SumParts
<1>7. Parts(h, CheckType) = DOMAIN T
  <2>1. \A i \in DOMAIN T : T[i].check_type \in CheckType
    BY ShapeFacts DEF TaskRecord
  <2>2. \A i \in DOMAIN T : i \in h[T[i].check_type]
    BY <1>2, <2>1 DEF OfType
  <2>. QED  BY <1>4, <2>1, <2>2 DEF Parts
<1>. QED  BY <1>1, <1>6, <1>7 DEF FullOf

\* The sum of the sections.
LEMMA TotalCosts ==
  ASSUME sub \in Submissions, programming, NEW T, T = tasks, Shape(T), NEW rs \in Results(T),
         Known(rs) = rs, DoneOn(rs, DOMAIN T), CostlyResults(T, rs),
         NEW x, x = SumFunction(Scores(rs)), NEW y, y = FullOf(T, DOMAIN T)
  PROVE  /\ x \in Int /\ y \in Int
         /\ AllRight(T, rs) => x = y
         /\ ~ AllRight(T, rs) => x <= y - Unit
<1>1. PICK f : f = Scores(rs)
  OBVIOUS
<1>2. PICK F : F = [ type \in CheckType |-> FullOf(T, OfType(T, type)) ]
  OBVIOUS
<1>3. x = SumFunctionOnSet(f, CheckType)
  BY <1>1 DEF Scores, SumFunction
<1>4. y = SumFunctionOnSet(F, CheckType)
  BY <1>2, FullParts
<1>5. Unit \in Nat
  BY UnitAssumption
<1>6. ASSUME NEW type \in CheckType
      PROVE  /\ f[type] \in Int /\ F[type] \in Int
             /\ Right(T, rs, type) => f[type] = F[type]
             /\ ~ Right(T, rs, type) => f[type] <= F[type] - Unit
  <2>1. PICK S : S = OfType(T, type)
    OBVIOUS
  <2>2. F[type] = FullOf(T, S) /\ S \subseteq DOMAIN T
    BY <1>2, <2>1 DEF OfType
  <2>3. FullOf(T, S) \in Int
    BY <2>2, FullType
  <2>4. f[type] = SectionsOf(rs)[type].score
    BY <1>1 DEF Scores
  <2>5. PICK s : s = SectionsOf(rs)[type].score
    OBVIOUS
  <2>6. /\ s \in Int
        /\ Right(T, rs, type) => s = FullOf(T, S)
        /\ ~ Right(T, rs, type) => s <= FullOf(T, S) - Unit
    BY <2>1, <2>5, SectionCosts
  <2>. QED  BY <2>2, <2>3, <2>4, <2>5, <2>6
<1>7. \A type \in CheckType : f[type] <= F[type]
  BY <1>5, <1>6
<1>8. x \in Int /\ y \in Int
  BY <1>3, <1>4, <1>6, CheckTypeFinite, SumInt
<1>9. CASE AllRight(T, rs)
  <2>1. \A type \in CheckType : f[type] \in Int /\ f[type] = F[type]
    BY <1>6, <1>9 DEF AllRight
  <2>2. x = y
    BY <1>3, <1>4, <2>1, CheckTypeFinite, SumSame
  <2>. QED  BY <1>8, <1>9, <2>2
<1>10. CASE ~ AllRight(T, rs)
  <2>1. PICK e \in CheckType : f[e] <= F[e] - Unit
    BY <1>6, <1>10 DEF AllRight
  <2>2. x <= y - Unit
    BY <1>3, <1>4, <1>5, <1>6, <1>7, <2>1, CheckTypeFinite, SumCosts
  <2>. QED  BY <1>8, <1>10, <2>2
<1>. QED  BY <1>9, <1>10

\* Rounded points differ if the sums differ by a point.
LEMMA PointsCost ==
  ASSUME NEW x \in Int, NEW y \in Int, x <= y - Unit
  PROVE  Unit * Round(x) # Unit * Round(y)
<1>1. PICK u \in Nat \ {0} : u = Unit
  BY UnitAssumption
<1>2. PICK a \in Int, b \in Int : a = Round(x) /\ b = Round(y)
  BY RoundType
<1>3. a < b
  BY <1>2, RoundCosts
<1>4. PICK k \in Nat : b = a + (k + 1)
  <2>1. b - a - 1 \in Nat /\ b = a + ((b - a - 1) + 1)
    BY <1>3
  <2>. QED  BY <2>1
<1>5. u * b = u * a + u * k + u /\ u * k \in Nat /\ u * a \in Int
  BY <1>4
<1>. QED  BY <1>1, <1>2, <1>5

\* A section without a kind adds nothing; one that is graded shows its score rounded.
Plain(s) == (s.kind = "none" => s.score = 0) /\ (s.kind = "graded" => s.grade = Round(s.score))

LEMMA PlainSections ==
  /\ Plain(None) /\ Plain(Broken) /\ Plain(Thrown)
  /\ \A x, l : Plain(Section(x, l))
  /\ \A rs, S, s : Plain(s) => Plain(Shown(rs, S, s))
  /\ \A T, rs, S, s : Plain(s) => Plain(MojServer!Counted(T, rs, S, s))
<1>1. Plain(None) /\ Plain(Broken) /\ Plain(Thrown)
  BY DEF Plain, None, Broken, Thrown
<1>2. \A x, l : Plain(Section(x, l))
  BY DEF Plain, Section
<1>3. \A rs, S, s : Plain(s) => Plain(Shown(rs, S, s))
  BY <1>1 DEF Shown
<1>4. ASSUME NEW T, NEW rs, NEW S, NEW s, Plain(s)
      PROVE  Plain(MojServer!Counted(T, rs, S, s))
  <2>1. CASE s.kind = "graded"
    <3>1. /\ MojServer!Counted(T, rs, S, s).kind = "graded"
          /\ MojServer!Counted(T, rs, S, s).score = s.score
          /\ MojServer!Counted(T, rs, S, s).grade = s.grade
      BY <2>1 DEF MojServer!Counted
    <3>. QED  BY <1>4, <2>1, <3>1 DEF Plain
  <2>2. CASE s.kind # "graded"
    BY <1>4, <2>2 DEF MojServer!Counted
  <2>. QED  BY <2>1, <2>2
<1>. QED  BY <1>1, <1>2, <1>3, <1>4

LEMMA PartsPlain ==
  ASSUME NEW T, NEW rs, NEW S, NEW l
  PROVE  /\ Plain(CompileShown(T, rs)) /\ Plain(StaticShown(T, rs, S))
         /\ Plain(MemoryShown(T, rs, S, l)) /\ Plain(CaseSection(T, rs, S, l))
<1>1. Plain(CompileShown(T, rs))
  BY PlainSections DEF CompileShown
<1>2. Plain(StaticShown(T, rs, S))
  BY PlainSections DEF StaticShown
<1>3. Plain(MemoryShown(T, rs, S, l))
  BY PlainSections DEF MemoryShown
<1>4. Plain(CaseSection(T, rs, S, l))
  <2>1. PICK s : s = Shown(rs, S, Section(EarnedBy(T, rs, S), l))
    OBVIOUS
  <2>2. CaseSection(T, rs, S, l) \in { s, None, Broken, Thrown }
    BY <2>1 DEF CaseSection
  <2>3. Plain(s)
    BY <2>1, PlainSections
  <2>. QED  BY <2>2, <2>3, PlainSections
<1>. QED  BY <1>1, <1>2, <1>3, <1>4

LEMMA SectionsPlain ==
  ASSUME NEW T, T = tasks, NEW rs, NEW type \in CheckType
  PROVE  Plain(SectionsOf(rs)[type])
<1>1. PICK S : S = OfType(T, type)
  OBVIOUS
<1>2. CASE sub.server = "mcourse"
  <2>1. PICK all : all = McourseServer!Sections(sub.config, T, rs)
    OBVIOUS
  <2>2. PICK known : known = McourseServer!Reread(T, rs)
    OBVIOUS
  <2>3. \/ all[type] = CompileShown(T, rs)
        \/ all[type] = MemoryShown(T, rs, S, NotAccepted(rs, S))
        \/ all[type] = CaseSection(T, rs, S, NotAccepted(rs, S))
        \/ all[type] = StaticShown(T, known, S)
        \/ all[type] = McourseServer!GTestSection(sub.config, T, rs)
    <3>1. CASE type = "compile"
      BY <2>1, <3>1, McourseSections
    <3>2. CASE type = "memory"
      BY <1>1, <2>1, <3>2, McourseSections
    <3>3. CASE type \in { "random", "standard" }
      BY <1>1, <2>1, <3>3, McourseSections
    <3>4. CASE type = "static"
      BY <1>1, <2>1, <2>2, <3>4, McourseSections
    <3>5. CASE type = "gtest"
      BY <2>1, <3>5, McourseSections
    <3>. QED  BY <3>1, <3>2, <3>3, <3>4, <3>5 DEF CheckType
  <2>4. Plain(McourseServer!GTestSection(sub.config, T, rs))
    BY PlainSections, SameNames, SameSections DEF McourseServer!GTestSection
  <2>5. Plain(all[type])
    BY <2>3, <2>4, PartsPlain
  <2>6. SectionsOf(rs) = all
    BY <1>2, <2>1 DEF SectionsOf
  <2>. QED  BY <2>5, <2>6
<1>3. CASE sub.server # "mcourse"
  <2>1. PICK all : all = MojServer!Sections(T, rs) /\ all = SectionsOf(rs)
    BY <1>3 DEF SectionsOf
  <2>2. PICK known : known = MojServer!Reread(T, rs)
    OBVIOUS
  <2>3. \/ all[type] = CompileShown(T, rs)
        \/ all[type] = MojServer!Counted(T, rs, S, MemoryShown(T, rs, S, Ran(rs, S) \ AcceptedOf(rs, S)))
        \/ all[type] = MojServer!Counted(T, rs, S, CaseSection(T, rs, S, Ran(rs, S)))
        \/ all[type] = StaticShown(T, known, S)
    <3>1. type = "compile" => all[type] = CompileShown(T, rs)
      BY <2>1, MojSections
    <3>2. type = "memory" =>
            all[type] = MojServer!Counted(T, rs, S, MemoryShown(T, rs, S, Ran(rs, S) \ AcceptedOf(rs, S)))
      BY <1>1, <2>1, MojSections
    <3>3. type \in { "random", "standard" } =>
            all[type] = MojServer!Counted(T, rs, S, CaseSection(T, rs, S, Ran(rs, S)))
      BY <1>1, <2>1, MojSections
    <3>4. type \in { "static", "gtest" } => all[type] = StaticShown(T, known, S)
      BY <1>1, <2>1, <2>2, MojSections
    <3>. QED  BY <3>1, <3>2, <3>3, <3>4 DEF CheckType
  <2>. QED  BY <2>1, <2>3, PartsPlain, PlainSections
<1>. QED  BY <1>2, <1>3

\* In MOJ the section of a check says the same of its cases.
LEMMA CountedCosts ==
  ASSUME sub \in Submissions, programming, NEW T, T = tasks, Shape(T), NEW rs \in Results(T),
         Known(rs) = rs, DoneOn(rs, DOMAIN T), CostlyResults(T, rs), sub.server = "moj",
         NEW type \in { "random", "standard", "memory" },
         NEW section, section = SectionsOf(rs)[type], section.kind = "graded"
  PROVE  section.grade = section.full_grade <=> section.pass_cases = section.total_cases
<1>1. PICK S : S = OfType(T, type)
  OBVIOUS
<1>2. S \subseteq DOMAIN T /\ type \in CheckType
  BY <1>1 DEF OfType, CheckType
<1>3. PICK x, y : x = section.score /\ y = FullOf(T, S)
  OBVIOUS
<1>4. /\ x \in Int /\ y \in Int
      /\ AllAccepted(rs, S) => x = y
      /\ ~ AllAccepted(rs, S) => x <= y - Unit
  <2>1. Right(T, rs, type) <=> AllAccepted(rs, S)
    BY <1>1 DEF Right
  <2>2. /\ x \in Int
        /\ Right(T, rs, type) => x = FullOf(T, S)
        /\ ~ Right(T, rs, type) => x <= FullOf(T, S) - Unit
    BY <1>1, <1>2, <1>3, SectionCosts
  <2>3. y \in Int
    BY <1>2, <1>3, FullType
  <2>. QED  BY <1>3, <2>1, <2>2, <2>3
<1>5. section.grade = Round(x)
  BY <1>2, <1>3, SectionsPlain DEF Plain
<1>6. PICK s : section = MojServer!Counted(T, rs, S, s)
  <2>1. PICK all : all = MojServer!Sections(T, rs) /\ all = SectionsOf(rs)
    BY DEF SectionsOf
  <2>2. CASE type = "memory"
    <3>1. all[type] = MojServer!Counted(T, rs, S, MemoryShown(T, rs, S, Ran(rs, S) \ AcceptedOf(rs, S)))
      BY <1>1, <2>1, <2>2, MojSections
    <3>. QED  BY <2>1, <3>1
  <2>3. CASE type \in { "random", "standard" }
    <3>1. all[type] = MojServer!Counted(T, rs, S, CaseSection(T, rs, S, Ran(rs, S)))
      BY <1>1, <2>1, <2>3, MojSections
    <3>. QED  BY <2>1, <3>1
  <2>. QED  BY <2>2, <2>3
<1>7. s.kind = "graded"
  BY <1>6, CountedKind
<1>8. /\ section.full_grade = MojServer!Round(MojServer!SumFunction([ i \in S |-> T[i].score ]))
      /\ section.pass_cases = MojServer!Cardinality({ i \in S : rs[i].status = "ACCEPTED" })
      /\ section.total_cases = MojServer!Cardinality(S)
  BY <1>6, <1>7 DEF MojServer!Counted
<1>9. section.full_grade = Round(y)
  <2>1. PICK f, g : f = [ i \in S |-> T[i].score ] /\ g = [ i \in DOMAIN T |-> T[i].score ]
    OBVIOUS
  <2>2. IsFiniteSet(S) /\ \A i \in S : f[i] \in Int /\ f[i] = g[i]
    BY <1>2, <2>1, FullType
  <2>3. SumFunctionOnSet(f, S) = SumFunctionOnSet(g, S)
    BY <2>2, SumSame
  <2>4. SumFunction(f) = y
    BY <1>3, <2>1, <2>3 DEF SumFunction, FullOf
  <2>. QED  BY <1>8, <2>1, <2>4, SameSums, SameRounds
<1>10. section.pass_cases = section.total_cases <=> AllAccepted(rs, S)
  <2>1. PICK A : A = { i \in S : rs[i].status = "ACCEPTED" }
    OBVIOUS
  <2>2. IsFiniteSet(S) /\ A \subseteq S /\ (A = S <=> AllAccepted(rs, S))
    BY <1>2, <2>1, FullType DEF AllAccepted
  <2>3. Cardinality(A) = Cardinality(S) => A = S
    BY <2>2, FS_Subset
  <2>. QED  BY <1>8, <2>1, <2>2, <2>3, SameCardinality
<1>11. CASE AllAccepted(rs, S)
  BY <1>4, <1>5, <1>9, <1>10, <1>11
<1>12. CASE ~ AllAccepted(rs, S)
  <2>1. Round(x) < Round(y) /\ Round(x) \in Int /\ Round(y) \in Int
    BY <1>4, <1>12, RoundCosts, RoundType
  <2>. QED  BY <1>5, <1>9, <1>10, <1>12, <2>1
<1>. QED  BY <1>11, <1>12

-----------------------------------------------------------------------------
(* The invariant.                                                          *)

\* What depends on the submission only.
LEMMA SubKept ==
  ASSUME UNCHANGED sub
  PROVE  /\ tasks' = tasks /\ (programming' <=> programming) /\ (HasProgram' <=> HasProgram)
         /\ \A rs : SectionsOf(rs)' = SectionsOf(rs)
         /\ \A rs : Dumps(rs)' <=> Dumps(rs)
<1>1. tasks' = tasks /\ (programming' <=> programming) /\ (HasProgram' <=> HasProgram)
  BY DEF tasks, programming, HasProgram
<1>2. \A rs : SectionsOf(rs)' = SectionsOf(rs) /\ QuotedRaw(rs)' = QuotedRaw(rs)
  BY <1>1 DEF SectionsOf, QuotedRaw
<1>3. \A rs : Dumps(rs)' <=> Dumps(rs)
  BY <1>2 DEF Dumps
<1>. QED  BY <1>1, <1>2, <1>3

LEMMA ReportInit ==
  ASSUME Init, NEW T, Shape(T), T = tasks
  PROVE  ReportInv(T)
<1>1. report = NoReport /\ finished = 0
  BY DEF Init
<1>2. report.sections = << >> /\ report.complete = FALSE /\ DOMAIN report.sections = {}
  BY <1>1 DEF NoReport
<1>. QED  BY <1>1, <1>2, ShapeFacts DEF ReportInv

\* A step that only adds verdicts leaves the report as it would be made now.
LEMMA ReportStays ==
  ASSUME NEW T, Shape(T), T = tasks, CallInv(T), CallInv(T)', ReportInv(T),
         finished # Cardinality(DOMAIN T),
         Agree(DOMAIN T, results, results'), UNCHANGED <<sub, finished, report>>
  PROVE  ReportInv(T)'
<1>1. PICK rs \in Results(T), rs2 \in Results(T) : rs = results /\ rs2 = results'
  BY DEF CallInv
<1>2. Agree(DOMAIN T, rs, rs2) /\ \A r : SectionsOf(r)' = SectionsOf(r)
  BY <1>1, SubKept
<1>3. CASE DOMAIN report.sections = {}
  BY <1>3 DEF ReportInv
<1>4. CASE DOMAIN report.sections # {}
  <2>1. rs[0].status # "PENDING" /\ rs2[0].status # "PENDING"
    BY <1>1, <1>2, <1>4, ShapeFacts DEF ReportInv, Waits, Agree
  <2>2. ASSUME NEW type \in DOMAIN report.sections
        PROVE  report.sections[type] = SectionsOf(rs2)[type] /\ SectionsOf(rs2)[type].kind # "none"
    BY <1>1, <1>2, <2>1, <2>2, SectionsKept DEF ReportInv
  <2>. QED  BY <1>1, <1>2, <2>1, <2>2 DEF ReportInv, Waits
<1>. QED  BY <1>3, <1>4

\* A report shows the sections that are there.
LEMMA SummaryOf ==
  ASSUME NEW T, T = tasks, NEW rs, NEW count
  PROVE  /\ Summary(rs, count).complete <=> count = Cardinality(DOMAIN T)
         /\ DOMAIN Summary(rs, count).sections =
              { type \in CheckType : SectionsOf(rs)[type].kind # "none" }
         /\ \A type \in DOMAIN Summary(rs, count).sections :
              Summary(rs, count).sections[type] = SectionsOf(rs)[type]
<1>1. CASE sub.server = "mcourse"
  <2>1. PICK all : all = McourseServer!Sections(sub.config, T, rs)
    OBVIOUS
  <2>2. SectionsOf(rs) = all
    BY <1>1, <2>1 DEF SectionsOf
  <2>3. /\ Summary(rs, count).sections = McourseServer!Present(all)
        /\ Summary(rs, count).complete <=> count = Cardinality(DOMAIN T)
    BY <1>1, <2>1, SameCardinality DEF Summary, McourseServer!Report
  <2>4. McourseServer!Present(all) =
          [ type \in { t \in CheckType : all[t].kind # "none" } |-> all[type] ]
    BY SameNames DEF McourseServer!Present
  <2>. QED  BY <2>2, <2>3, <2>4
<1>2. CASE sub.server # "mcourse"
  <2>1. PICK all : all = MojServer!Sections(T, rs)
    OBVIOUS
  <2>2. SectionsOf(rs) = all
    BY <1>2, <2>1 DEF SectionsOf
  <2>3. /\ Summary(rs, count).sections = MojServer!Present(all)
        /\ Summary(rs, count).complete <=> count = Cardinality(DOMAIN T)
    BY <1>2, <2>1, SameCardinality DEF Summary, MojServer!Report
  <2>4. MojServer!Present(all) =
          [ type \in { t \in CheckType : all[t].kind # "none" } |-> all[type] ]
    BY SameNames DEF MojServer!Present
  <2>. QED  BY <2>2, <2>3, <2>4
<1>. QED  BY <1>1, <1>2

\* A call that returns leaves a report of all that is known, and one in which the
\* sections of the report before are as they were.
LEMMA ReportReturn ==
  ASSUME NEW T, Shape(T), T = tasks, CallInv(T), ReportInv(T), Return,
         Dumps(results) \/ sub.server = "mcourse"
  PROVE  /\ ReportInv(T)'
         /\ \A type \in DOMAIN report.sections :
              type \in DOMAIN report'.sections /\ report'.sections[type] = report.sections[type]
<1>1. /\ CallInv(T)' /\ results' = Known(results) /\ sub' = sub /\ finished' = finished + 1
      /\ Dumps(results) => report' = Summary(results, finished + 1)
      /\ ~ Dumps(results) => report' = report
  BY ReturnCalls, Returns
<1>2. PICK rs \in Results(T), rs2 \in Results(T) : rs = results /\ rs2 = results' /\ rs2 = Known(rs)
  BY <1>1 DEF CallInv
<1>3. (\A r : SectionsOf(r)' = SectionsOf(r)) /\ (\A r : Dumps(r)' <=> Dumps(r))
  BY <1>1, SubKept
<1>4. rs[0].status # "PENDING" /\ rs2[0].status # "PENDING"
  <2>1. calls # << >> /\ calls \in Seq(Frame(T)) /\ Stack(T) /\ Placed(T)
    BY DEF Return, CallInv, Stack
  <2>2. calls[1].task \in DOMAIN T /\ ~ Waits(calls[1].task)
    <3>1. 1 \in 1 .. Len(calls) /\ calls[1] \in Frame(T)
      BY <2>1
    <3>. QED  BY <2>1, <3>1 DEF Stack, Frame
  <2>3. ~ Waits(0)
    BY <2>1, <2>2, RootDecided
  <2>. QED  BY <1>2, <2>3, ShapeFacts, KnownFacts DEF Waits
<1>5. ASSUME NEW type \in CheckType
      PROVE  SectionsOf(rs2)[type] = SectionsOf(rs)[type]
  BY <1>2, <1>4, SectionsKnown
<1>6. Dumps(rs2) <=> Dumps(rs)
  BY <1>2, <1>4, DumpsKnown
<1>7. CASE Dumps(rs)
  <2>1. /\ report'.complete <=> finished' = Cardinality(DOMAIN T)
        /\ DOMAIN report'.sections = { type \in CheckType : SectionsOf(rs)[type].kind # "none" }
        /\ \A type \in DOMAIN report'.sections : report'.sections[type] = SectionsOf(rs)[type]
    BY <1>1, <1>2, <1>7, SummaryOf
  <2>2. ReportInv(T)'
    <3>1. \A type \in DOMAIN report'.sections :
            /\ type \in CheckType /\ report'.sections[type] = SectionsOf(rs2)[type]
            /\ SectionsOf(rs2)[type].kind # "none"
      BY <1>5, <2>1
    <3>2. DOMAIN report'.sections = { type \in CheckType : SectionsOf(rs2)[type].kind # "none" }
      BY <1>5, <2>1
    <3>. QED  BY <1>2, <1>3, <1>4, <1>6, <1>7, <2>1, <3>1, <3>2 DEF ReportInv, Waits
  <2>3. ASSUME NEW type \in DOMAIN report.sections
        PROVE  type \in DOMAIN report'.sections /\ report'.sections[type] = report.sections[type]
    BY <1>2, <2>1 DEF ReportInv
  <2>. QED  BY <2>2, <2>3
<1>8. CASE ~ Dumps(rs)
  <2>1. report' = report
    BY <1>1, <1>2, <1>8
  <2>2. ~ report.complete
    <3>1. calls # << >>
      BY DEF Return
    <3>. QED  BY <3>1, AllCounted DEF ReportInv
  <2>3. \A type \in DOMAIN report.sections :
          /\ type \in CheckType /\ report.sections[type] = SectionsOf(rs2)[type]
          /\ SectionsOf(rs2)[type].kind # "none"
    BY <1>2, <1>5 DEF ReportInv
  <2>4. ReportInv(T)'
    BY <1>2, <1>3, <1>4, <1>6, <1>8, <2>1, <2>2, <2>3 DEF ReportInv, Waits
  <2>. QED  BY <2>1, <2>4
<1>. QED  BY <1>2, <1>7, <1>8

\* In MOJ a report that cannot be dumped ends everything.
LEMMA ReturnLeaves ==
  ASSUME NEW T, Shape(T), T = tasks, CallInv(T), ReportInv(T), Return,
         ~ Dumps(results), sub.server # "mcourse"
  PROVE  Left(T)' /\ report' = report
<1>1. /\ results' = Known(results) /\ finished' = finished + 1 /\ UNCHANGED <<sub, queue, report>>
      /\ thrown' /\ calls' = << >>
  BY Returns DEF Leave
<1>2. PICK rs \in Results(T), rs2 \in Results(T) : rs = results /\ rs2 = results' /\ rs2 = Known(rs)
  BY <1>1, KnownFacts DEF CallInv
<1>3. calls # << >> /\ calls \in Seq(Frame(T)) /\ Stack(T) /\ Placed(T)
  BY DEF Return, CallInv, Stack
<1>4. ~ Waits(0)
  <2>1. 1 \in 1 .. Len(calls) /\ calls[1] \in Frame(T)
    BY <1>3
  <2>2. calls[1].task \in DOMAIN T /\ ~ Waits(calls[1].task)
    BY <1>3, <2>1 DEF Stack, Frame
  <2>. QED  BY <1>3, <2>2, RootDecided
<1>5. ~ Dumps(results)'
  <2>1. ~ Dumps(rs2)
    BY <1>2, <1>4, DumpsKnown DEF Waits
  <2>2. \A r : Dumps(r)' <=> Dumps(r)
    BY <1>1, SubKept
  <2>. QED  BY <1>2, <2>1, <2>2
<1>6. finished' \in 0 .. Cardinality(DOMAIN T)
  <2>1. Decided(T) \subseteq DOMAIN T /\ IsFiniteSet(DOMAIN T)
    BY ShapeFacts DEF Decided
  <2>2. /\ Cardinality(Decided(T)) \in Nat /\ Cardinality(DOMAIN T) \in Nat
        /\ Cardinality(Decided(T)) <= Cardinality(DOMAIN T)
    BY <2>1, FS_Subset, FS_CardinalityType
  <2>3. /\ finished \in Nat /\ finished + Len(calls) = Cardinality(Decided(T))
        /\ Len(calls) \in Nat /\ Len(calls) # 0
    BY <1>3 DEF CallInv, Tally
  <2>. QED  BY <1>1, <2>2, <2>3
<1>7. \A type \in DOMAIN report.sections :
        type \in CheckType /\ report.sections[type].kind \in SectionKind
  <2>1. ASSUME NEW type \in DOMAIN report.sections
        PROVE  type \in CheckType /\ report.sections[type].kind \in SectionKind
    <3>1. type \in CheckType /\ report.sections[type] = SectionsOf(rs)[type]
      BY <1>2 DEF ReportInv
    <3>2. SectionsOf(rs)[type].kind \in { "graded", "error", "none" }
      BY <3>1, SectionKinds
    <3>. QED  BY <3>1, <3>2 DEF SectionKind
  <2>. QED  BY <2>1
<1>8. ~ report.complete
  BY <1>3, AllCounted DEF ReportInv
<1>9. queue \subseteq DOMAIN T
  BY <1>3 DEF Placed
<1>. QED  BY <1>1, <1>2, <1>5, <1>6, <1>7, <1>8, <1>9 DEF Left

\* What a report shows of the log of a static check only grows, and the check is an error.
LogOnlyGrows ==
  shownLog' # shownLog =>
    /\ shownLog' > shownLog
    /\ report'.sections["static"].kind = "error"
    /\ \E i \in OfType(tasks, "static") : ~ results[i].parses

LEMMA LogStays ==
  ASSUME NEW T, LogInv(T), Agree(DOMAIN T, results, results'),
         UNCHANGED <<finished, errorLog, shownLog>>
  PROVE  LogInv(T)' /\ LogOnlyGrows
<1>1. PICK rs, rs2 : rs = results /\ rs2 = results'
  OBVIOUS
<1>2. Unread(T, rs) => Unread(T, rs2)
  BY <1>1 DEF Unread, Agree, OfType
<1>. QED  BY <1>1, <1>2 DEF LogInv, LogOnlyGrows

LEMMA LogReturn ==
  ASSUME NEW T, Shape(T), T = tasks, CallInv(T), LogInv(T), Return
  PROVE  LogInv(T)' /\ LogOnlyGrows
<1>1. PICK rs, rs2 :
        rs \in Results(T) /\ rs = results /\ rs2 = results' /\ rs2 = Known(rs)
  BY Returns DEF CallInv
<1>2. finished \in Nat
  BY DEF CallInv, Tally
<1>3. /\ finished' = finished + 1 /\ errorLog' = LogAfter(rs)
      /\ shownLog' # shownLog => /\ shownLog' = LogAfter(rs)
                                 /\ report' = Summary(rs, finished + 1)
  BY <1>1, Returns
<1>4. CASE Unread(T, rs)
  <2>1. LogAfter(rs) = errorLog + 1
    BY <1>4, LogGrows
  <2>2. Unread(T, rs2) /\ SectionsOf(rs)["static"] = Broken
    BY <1>1, <1>4, UnreadBroken
  <2>3. LogInv(T)'
    BY <1>1, <1>2, <1>3, <2>1, <2>2 DEF LogInv
  <2>4. ASSUME shownLog' # shownLog
        PROVE  shownLog' > shownLog /\ report'.sections["static"].kind = "error"
    <3>1. shownLog' > shownLog
      BY <1>3, <2>1, <2>4 DEF LogInv
    <3>2. "static" \in CheckType /\ Broken.kind = "error"
      BY DEF CheckType, Broken
    <3>3. PICK count : report' = Summary(rs, count)
      BY <1>3, <2>4
    <3>4. Summary(rs, count).sections["static"] = Broken
      BY <2>2, <3>2, SummaryOf
    <3>. QED  BY <3>1, <3>2, <3>3, <3>4
  <2>5. \E i \in OfType(tasks, "static") : ~ results[i].parses
    BY <1>1, <1>4 DEF Unread
  <2>. QED  BY <2>3, <2>4, <2>5 DEF LogOnlyGrows
<1>5. CASE ~ Unread(T, rs)
  <2>1. LogAfter(rs) = errorLog /\ errorLog = 0 /\ shownLog = 0
    BY <1>1, <1>5, LogGrows DEF LogInv
  <2>. QED  BY <1>2, <1>3, <2>1 DEF LogInv, LogOnlyGrows
<1>. QED  BY <1>4, <1>5

\* A submission without tasks does nothing but report once.
Idle ==
  /\ tasks = << >> /\ calls = << >> /\ queue = {} /\ DOMAIN report.sections = {}
  /\ errorLog = 0 /\ shownLog = 0

GradingInv ==
  /\ sub \in Submissions
  /\ programming =>
       /\ LogInv(tasks)
       /\ (CallInv(tasks) /\ ReportInv(tasks)) \/ Left(tasks)
  /\ ~ programming => Idle

LEMMA GradingInit == Init => GradingInv
<1> SUFFICES ASSUME Init  PROVE GradingInv
  OBVIOUS
<1>1. sub \in Submissions
  BY DEF Init
<1>2. CASE programming
  <2>1. PICK T : T = tasks
    OBVIOUS
  <2>2. Shape(T)
    BY <1>1, <1>2, <2>1, TasksShape
  <2>3. LogInv(T)
    BY DEF Init, LogInv
  <2>. QED  BY <1>1, <1>2, <2>1, <2>2, <2>3, CallsInit, ReportInit DEF GradingInv
<1>3. CASE ~ programming
  <2>1. tasks = << >> /\ calls = << >> /\ report = NoReport /\ errorLog = 0 /\ shownLog = 0
    BY <1>3 DEF tasks, Init
  <2>2. queue = {}
    BY <2>1 DEF Init, Task
  <2>3. DOMAIN report.sections = {}
    BY <2>1 DEF NoReport
  <2>. QED  BY <1>1, <1>3, <2>1, <2>2, <2>3 DEF GradingInv, Idle
<1>. QED  BY <1>2, <1>3

\* What every step of a programming submission does: it keeps the invariants, and the
\* sections that have been reported.
LEMMA ProgrammingStep ==
  ASSUME NEW T, Shape(T), T = tasks, programming, LogInv(T), CallInv(T), ReportInv(T), [Next]_vars
  PROVE  /\ UNCHANGED sub /\ LogInv(T)' /\ LogOnlyGrows
         /\ (CallInv(T)' /\ ReportInv(T)') \/ Left(T)'
         /\ \A type \in DOMAIN report.sections :
              type \in DOMAIN report'.sections /\ report'.sections[type] = report.sections[type]
<1>1. ASSUME NEW i \in Task, Judge(i)
      PROVE  /\ UNCHANGED <<sub, report>> /\ CallInv(T)' /\ ReportInv(T)'
             /\ LogInv(T)' /\ LogOnlyGrows
  <2>1. i \in DOMAIN T /\ i \in queue /\ UNCHANGED <<sub, finished, report, errorLog, shownLog>>
    BY <1>1 DEF Task, Judge
  <2>2. CallInv(T)'
    BY <1>1, <2>1, JudgeCalls
  <2>3. finished # Cardinality(DOMAIN T)
    BY <2>1, AllCounted
  <2>4. Agree(DOMAIN T, results, results')
    <3>1. \A j \in DOMAIN T : j # i => results'[j] = results[j]
      BY <1>1 DEF Judge, CallInv, Results
    <3>2. results[i].status = "PENDING"
      BY <2>1 DEF CallInv, Placed, Waits
    <3>. QED  BY <3>1, <3>2 DEF Agree
  <2>. QED  BY <2>1, <2>2, <2>3, <2>4, ReportStays, LogStays
<1>2. ASSUME Depend
      PROVE  /\ UNCHANGED <<sub, report>> /\ CallInv(T)' /\ ReportInv(T)'
             /\ LogInv(T)' /\ LogOnlyGrows
  <2>1. UNCHANGED <<sub, finished, report, errorLog, shownLog>> /\ calls # << >>
    BY <1>2 DEF Depend
  <2>2. CallInv(T)'
    BY <1>2, DependCalls
  <2>3. finished # Cardinality(DOMAIN T)
    BY <2>1, AllCounted
  <2>4. Agree(DOMAIN T, results, results')
    BY <1>2, DependAgrees DEF Agree
  <2>. QED  BY <2>1, <2>2, <2>3, <2>4, ReportStays, LogStays
<1>3. ASSUME Return
      PROVE  /\ UNCHANGED sub /\ LogInv(T)' /\ LogOnlyGrows
             /\ (CallInv(T)' /\ ReportInv(T)') \/ Left(T)'
             /\ \A type \in DOMAIN report.sections :
                  type \in DOMAIN report'.sections /\ report'.sections[type] = report.sections[type]
  <2>1. UNCHANGED sub /\ LogInv(T)' /\ LogOnlyGrows
    BY <1>3, Returns, LogReturn
  <2>2. CASE Dumps(results) \/ sub.server = "mcourse"
    BY <1>3, <2>1, <2>2, ReturnCalls, ReportReturn
  <2>3. CASE ~ Dumps(results) /\ sub.server # "mcourse"
    BY <1>3, <2>1, <2>3, ReturnLeaves
  <2>. QED  BY <2>2, <2>3
<1>4. ~ Answer
  BY DEF Answer
<1>5. CASE UNCHANGED vars
  <2>1. UNCHANGED <<sub, results, queue, calls, finished, report, errorLog, shownLog, thrown>>
    BY <1>5 DEF vars
  <2>2. (HasProgram' <=> HasProgram) /\ (\A r : SectionsOf(r)' = SectionsOf(r))
        /\ (\A r : Dumps(r)' <=> Dumps(r))
    BY <2>1, SubKept
  <2>3. CallInv(T)'
    BY <2>1, <2>2 DEF CallInv, Stack, Placed, Tally, Decided, Todo, Waits
  <2>4. ReportInv(T)'
    BY <2>1, <2>2 DEF ReportInv, Waits
  <2>5. LogInv(T)' /\ LogOnlyGrows
    BY <2>1 DEF LogInv, LogOnlyGrows
  <2>. QED  BY <2>1, <2>3, <2>4, <2>5
<1>. QED  BY <1>1, <1>2, <1>3, <1>4, <1>5 DEF Next

\* After an exception nothing happens.
LEMMA LeftStep ==
  ASSUME programming, Left(tasks), [Next]_vars
  PROVE  UNCHANGED vars
BY DEF Left, Next, Judge, Depend, Return, Answer

\* A questionnaire has no tasks to judge.
LEMMA IdleStep ==
  ASSUME ~ programming, Idle, [Next]_vars
  PROVE  UNCHANGED sub /\ Idle' /\ shownLog' = shownLog
<1>1. Task = {}
  BY DEF Idle, Task
<1>2. ~ Depend /\ ~ Return
  BY DEF Depend, Return, Idle
<1>3. CASE Answer
  <2>1. UNCHANGED <<sub, queue, calls, errorLog, shownLog>> /\ report' = AnswerReport(results')
    BY <1>3 DEF Answer
  <2>2. report'.sections = << >>
    BY <2>1 DEF AnswerReport, McourseServer!AnswerReport, MojServer!AnswerReport
  <2>3. tasks' = tasks
    BY <2>1, SubKept
  <2>4. DOMAIN report'.sections = {}
    BY <2>2
  <2>. QED  BY <2>1, <2>3, <2>4 DEF Idle
<1>4. CASE UNCHANGED vars
  <2>1. UNCHANGED <<sub, queue, calls, report, errorLog, shownLog>>
    BY <1>4 DEF vars
  <2>2. tasks' = tasks
    BY <2>1, SubKept
  <2>. QED  BY <2>1, <2>2 DEF Idle
<1>. QED  BY <1>1, <1>2, <1>3, <1>4 DEF Next

\* Every step keeps the invariant, and what has been reported.
LEMMA GradingStep ==
  ASSUME GradingInv, [Next]_vars
  PROVE  /\ GradingInv' /\ LogOnlyGrows
         /\ \A type \in DOMAIN report.sections :
              type \in DOMAIN report'.sections /\ report'.sections[type] = report.sections[type]
<1>1. CASE programming /\ ~ Left(tasks)
  <2>1. PICK T : T = tasks
    OBVIOUS
  <2>2. Shape(T) /\ LogInv(T) /\ CallInv(T) /\ ReportInv(T)
    BY <1>1, <2>1, TasksShape DEF GradingInv
  <2>3. /\ UNCHANGED sub /\ LogInv(T)' /\ LogOnlyGrows
        /\ (CallInv(T)' /\ ReportInv(T)') \/ Left(T)'
        /\ \A type \in DOMAIN report.sections :
             type \in DOMAIN report'.sections /\ report'.sections[type] = report.sections[type]
    BY <1>1, <2>1, <2>2, ProgrammingStep
  <2>4. tasks' = T /\ programming' /\ (sub \in Submissions)'
    BY <1>1, <2>1, <2>3, SubKept DEF GradingInv
  <2>. QED  BY <2>3, <2>4 DEF GradingInv
<1>2. CASE programming /\ Left(tasks)
  <2>1. UNCHANGED <<sub, results, queue, calls, finished, report, errorLog, shownLog, thrown>>
    BY <1>2, LeftStep DEF vars
  <2>2. PICK T : T = tasks /\ tasks' = T
    BY <2>1, SubKept
  <2>3. programming' /\ (\A r : Dumps(r)' <=> Dumps(r))
    BY <1>2, <2>1, SubKept
  <2>4. LogInv(T)' /\ Left(T)' /\ LogOnlyGrows
    BY <1>2, <2>1, <2>2, <2>3 DEF GradingInv, LogInv, Left, LogOnlyGrows
  <2>. QED  BY <2>1, <2>2, <2>3, <2>4 DEF GradingInv
<1>3. CASE ~ programming
  <2>1. UNCHANGED sub /\ Idle' /\ shownLog' = shownLog
    BY <1>3, IdleStep DEF GradingInv
  <2>2. ~ programming'
    BY <1>3, <2>1, SubKept
  <2>3. DOMAIN report.sections = {}
    BY <1>3 DEF GradingInv, Idle
  <2>. QED  BY <2>1, <2>2, <2>3 DEF GradingInv, LogOnlyGrows
<1>. QED  BY <1>1, <1>2, <1>3

\* The inductive invariant holds in every state: while process() is under way its calls,
\* the results and the queue belong together (CallInv), and what the latest report says
\* is what summarize made of results that the present ones only extend (ReportInv); the error
\* log grows with the reports (LogInv); in MOJ a report that cannot be dumped is the end
\* (Left); for questionnaires nothing is judged but the questions (Idle).
THEOREM GradingInvariance == Spec => []GradingInv
BY GradingInit, GradingStep, PTL DEF Spec

\* A questionnaire is valid, counts no tasks and throws nothing; once it is judged, the
\* results and the report are those of all its questions.
Answered ==
  /\ Valid(sub) /\ ~ thrown /\ finished = 0
  /\ report.complete \in BOOLEAN /\ report.grade \in Int
  /\ report.complete => results = Graded /\ report = AnswerReport(Graded)

\* So are the grades of a questionnaire.
LEMMA GradedKept ==
  ASSUME UNCHANGED sub
  PROVE  Graded' = Graded /\ AnswerReport(Graded)' = AnswerReport(Graded) /\ (Valid(sub)' <=> Valid(sub))
<1>1. Graded' = Graded
  BY DEF Graded, questions, QuestionGrade
<1>2. AnswerReport(Graded)' = AnswerReport(Graded)
  BY <1>1 DEF AnswerReport
<1>3. Valid(sub)' <=> Valid(sub)
  BY DEF Valid
<1>. QED  BY <1>1, <1>2, <1>3

LEMMA AnswerReportType ==
  ASSUME sub \in Submissions, ~ programming
  PROVE  AnswerReport(Graded).complete = TRUE /\ AnswerReport(Graded).grade \in Int
<1>1. PICK grades \in Seq(Int) : grades = Graded
  BY GradedType
<1>2. McourseServer!AnswerReport(grades).complete /\ MojServer!AnswerReport(grades).complete
  BY DEF McourseServer!AnswerReport, MojServer!AnswerReport
<1>3. McourseServer!AnswerReport(grades).grade \in Int /\ MojServer!AnswerReport(grades).grade \in Int
  BY TotalOf
<1>4. McourseServer!AnswerReport(grades).complete = TRUE /\ MojServer!AnswerReport(grades).complete = TRUE
  BY DEF McourseServer!AnswerReport, MojServer!AnswerReport
<1>. QED  BY <1>1, <1>3, <1>4 DEF AnswerReport

LEMMA AnsweredInit == Init /\ ~ programming => Answered
<1> SUFFICES ASSUME Init, ~ programming  PROVE Answered
  OBVIOUS
<1>1. Valid(sub) /\ finished = 0 /\ ~ thrown /\ report = NoReport
  BY DEF Init
<1>2. report.complete = FALSE /\ report.grade = 0
  BY <1>1 DEF NoReport
<1>3. report.complete \in BOOLEAN /\ ~ report.complete
  BY <1>2, Zenon
<1>4. report.grade \in Int
  BY <1>2
<1>. QED  BY <1>1, <1>3, <1>4 DEF Answered

\* The one step of a questionnaire grades all its questions.
LEMMA AnsweredStep ==
  ASSUME sub \in Submissions, ~ programming, Idle, Answered, [Next]_vars
  PROVE  Answered' /\ UNCHANGED sub
<1>1. Task = {}
  BY DEF Idle, Task
<1>2. ~ Depend /\ ~ Return
  BY DEF Depend, Return, Idle
<1>3. CASE Answer
  <2>1. /\ results' = Graded /\ report' = AnswerReport(results')
        /\ UNCHANGED <<sub, finished, thrown>>
    BY <1>3 DEF Answer, Graded
  <2>2. AnswerReport(results') = AnswerReport(Graded)
    BY <2>1
  <2>3. report'.complete \in BOOLEAN /\ report'.grade \in Int
    BY <2>1, <2>2, AnswerReportType
  <2>4. Graded' = Graded /\ AnswerReport(Graded)' = AnswerReport(Graded) /\ (Valid(sub)' <=> Valid(sub))
    BY <2>1, GradedKept
  <2>. QED  BY <2>1, <2>2, <2>3, <2>4 DEF Answered
<1>4. CASE UNCHANGED vars
  <2>1. UNCHANGED <<sub, results, finished, report, thrown>>
    BY <1>4 DEF vars
  <2>2. Graded' = Graded /\ AnswerReport(Graded)' = AnswerReport(Graded) /\ (Valid(sub)' <=> Valid(sub))
    BY <2>1, GradedKept
  <2>. QED  BY <2>1, <2>2 DEF Answered
<1>. QED  BY <1>1, <1>2, <1>3, <1>4 DEF Next

\* The invariant of questionnaires, on top of GradingInv.
QuestionInv == ~ programming => Answered

\* Whenever the report of a questionnaire is complete, it is that of all its questions.
LEMMA QuestionInvariance == Spec => []QuestionInv
<1>1. Init => QuestionInv
  BY AnsweredInit DEF QuestionInv
<1>2. GradingInv /\ QuestionInv /\ [Next]_vars => QuestionInv'
  <2>1. SUFFICES ASSUME GradingInv, QuestionInv, [Next]_vars, ~ programming'
        PROVE  Answered'
    BY DEF QuestionInv
  <2>2. UNCHANGED sub
    BY <2>1 DEF Next, Judge, Depend, Return, Answer, vars
  <2>3. ~ programming
    BY <2>1, <2>2, SubKept
  <2>. QED  BY <2>1, <2>3, AnsweredStep DEF GradingInv, QuestionInv
<1>. QED  BY <1>1, <1>2, GradingInvariance, PTL DEF Spec

\* The report of a programming submission has a grade, whatever its sections.
Reported ==
  /\ thrown \in BOOLEAN
  /\ programming => report.complete \in BOOLEAN /\ report.grade \in Int

\* Every report of a programming submission has a grade.
LEMMA ReportedAlways == Spec => []Reported
<1>1. Init => Reported
  <2>1. SUFFICES ASSUME Init  PROVE Reported
    OBVIOUS
  <2>2. report.complete = FALSE /\ report.grade = 0
    BY <2>1 DEF Init, NoReport
  <2>3. report.complete \in BOOLEAN
    BY <2>2, Zenon
  <2>4. report.grade \in Int
    BY <2>2
  <2>5. thrown = FALSE
    BY <2>1 DEF Init
  <2>6. thrown \in BOOLEAN
    BY <2>5, Zenon
  <2>. QED  BY <2>3, <2>4, <2>6 DEF Reported
<1>2. thrown \in BOOLEAN /\ [Next]_vars => thrown' \in BOOLEAN
  <2>1. SUFFICES ASSUME thrown \in BOOLEAN, [Next]_vars  PROVE thrown' \in BOOLEAN
    OBVIOUS
  <2>2. thrown' = thrown \/ thrown' = TRUE
    BY <2>1 DEF Next, Judge, Depend, Return, ReportToServer, Leave, Pop, Answer, vars
  <2>3. CASE thrown' = thrown
    BY <2>1, <2>3, Zenon
  <2>4. CASE thrown' = TRUE
    BY <2>4, Zenon
  <2>. QED  BY <2>2, <2>3, <2>4
<1>3. GradingInv /\ Reported /\ [Next]_vars => Reported'
  <2>1. SUFFICES ASSUME GradingInv, Reported, [Next]_vars, programming'
        PROVE  report'.complete \in BOOLEAN /\ report'.grade \in Int
    BY <1>2 DEF Reported
  <2>2. UNCHANGED sub
    BY <2>1 DEF Next, Judge, Depend, Return, Answer, vars
  <2>3. programming
    BY <2>1, <2>2, SubKept
  <2>4. PICK T : T = tasks
    OBVIOUS
  <2>5. Shape(T) /\ sub \in Submissions /\ results \in Results(T)
    BY <2>1, <2>3, <2>4, TasksShape DEF GradingInv, CallInv, Left
  <2>6. UNCHANGED report \/ report' = Summary(results, finished + 1)
    BY <2>1, <2>3 DEF Next, Judge, Depend, Return, ReportToServer, Answer, vars
  <2>7. PICK rs, count : rs \in Results(T) /\ rs = results /\ count = finished + 1
    BY <2>5
  <2>8. /\ Summary(rs, count).grade \in Int
        /\ Summary(rs, count).complete \in BOOLEAN
    BY <2>3, <2>4, <2>5, <2>7, SummaryGrade
  <2>9. CASE UNCHANGED report
    BY <2>1, <2>3, <2>9 DEF Reported
  <2>10. CASE report' = Summary(results, finished + 1)
    BY <2>7, <2>8, <2>10
  <2>. QED  BY <2>6, <2>9, <2>10
<1>. QED  BY <1>1, <1>3, GradingInvariance, PTL DEF Spec

-----------------------------------------------------------------------------
(* The theorems.                                                           *)

\* Results of known statuses, a stack of calls of different tasks, never more tasks counted
\* than there are, and a report with a grade and with sections of the six checks.
THEOREM TypeCorrect == Spec => []TypeOK
<1>1. ASSUME GradingInv, QuestionInv, Reported  PROVE TypeOK
  <2>1. sub \in Submissions
    BY <1>1 DEF GradingInv
  <2>2. CASE programming /\ ~ Left(tasks)
    <3>1. PICK T : T = tasks
      OBVIOUS
    <3>2. Shape(T) /\ CallInv(T) /\ ReportInv(T) /\ Task = DOMAIN T
      BY <1>1, <2>2, <3>1, TasksShape DEF GradingInv, Task
    <3>3. \A i \in Task : results[i].status \in Status
      BY <3>2 DEF CallInv, Results, ResultType
    <3>4. queue \subseteq Task
      BY <3>2 DEF CallInv, Placed
    <3>5. calls \in Seq(Frame(T)) /\ DOMAIN calls = 1 .. Len(calls) /\ Len(calls) \in Nat
      BY <3>2 DEF CallInv, Stack
    <3>6. \A k \in DOMAIN calls : calls[k].task \in Task /\ calls[k].todo \subseteq Task
      <4>1. \A k \in DOMAIN calls : calls[k] \in Frame(T)
        BY <3>5
      <4>. QED  BY <3>2, <4>1 DEF Frame
    <3>7. \A k, l \in DOMAIN calls : calls[k].task = calls[l].task => k = l
      BY <3>2, <3>5 DEF CallInv, Stack
    <3>8. finished \in 0 .. Cardinality(Task)
      <4>1. Decided(T) \subseteq DOMAIN T /\ IsFiniteSet(DOMAIN T)
        BY <3>2, ShapeFacts DEF Decided
      <4>2. /\ Cardinality(Decided(T)) \in Nat /\ Cardinality(DOMAIN T) \in Nat
            /\ Cardinality(Decided(T)) <= Cardinality(DOMAIN T)
        BY <4>1, FS_Subset, FS_CardinalityType
      <4>3. finished \in Nat /\ finished + Len(calls) = Cardinality(Decided(T))
        BY <3>2 DEF CallInv, Tally
      <4>. QED  BY <3>2, <3>5, <4>2, <4>3
    <3>9. ReportType(report)
      <4>1. ASSUME NEW type \in DOMAIN report.sections
            PROVE  type \in CheckType /\ report.sections[type].kind \in SectionKind
        <5>1. type \in CheckType /\ report.sections[type] = SectionsOf(results)[type]
          BY <3>2 DEF ReportInv
        <5>2. PICK rs \in Results(T) : rs = results
          BY <3>2 DEF CallInv
        <5>3. SectionsOf(rs)[type].kind \in { "graded", "error", "none" }
          BY <3>1, <3>2, <5>1, SectionKinds
        <5>. QED  BY <5>1, <5>2, <5>3 DEF SectionKind
      <4>2. report.complete \in BOOLEAN /\ report.grade \in Int
        BY <1>1, <2>2 DEF Reported
      <4>. QED  BY <4>1, <4>2 DEF ReportType
    <3>10. thrown \in BOOLEAN
      BY <1>1 DEF Reported
    <3>11. errorLog \in 0 .. finished /\ shownLog \in 0 .. errorLog
      BY <1>1, <2>2, <3>8 DEF GradingInv, LogInv
    <3>. QED  BY <2>1, <3>3, <3>4, <3>6, <3>7, <3>8, <3>9, <3>10, <3>11 DEF TypeOK
  <2>3. CASE programming /\ Left(tasks)
    <3>1. Task = DOMAIN tasks /\ queue \subseteq Task /\ DOMAIN calls = {}
      BY <2>3 DEF Left, Task
    <3>2. \A i \in Task : results[i].status \in Status
      BY <2>3, <3>1 DEF Left, Results, ResultType
    <3>3. finished \in 0 .. Cardinality(Task)
      BY <2>3, <3>1 DEF Left
    <3>4. ReportType(report)
      <4>1. report.complete \in BOOLEAN /\ report.grade \in Int
        BY <1>1, <2>3 DEF Reported
      <4>. QED  BY <2>3, <4>1 DEF Left, ReportType
    <3>5. Cardinality(Task) \in Nat
      <4>1. PICK T : T = tasks
        OBVIOUS
      <4>2. Shape(T)
        BY <2>1, <2>3, <4>1, TasksShape
      <4>. QED  BY <3>1, <4>1, <4>2, ShapeFacts
    <3>6. errorLog \in 0 .. finished /\ shownLog \in 0 .. errorLog
      BY <1>1, <2>3, <3>3, <3>5 DEF GradingInv, LogInv
    <3>7. thrown \in BOOLEAN
      BY <1>1 DEF Reported
    <3>. QED  BY <2>1, <3>1, <3>2, <3>3, <3>4, <3>6, <3>7 DEF TypeOK
  <2>4. CASE ~ programming
    <3>1. Task = {} /\ queue = {} /\ calls = << >> /\ DOMAIN report.sections = {}
      BY <1>1, <2>4 DEF GradingInv, Idle, Task
    <3>2. /\ ~ thrown /\ finished = 0 /\ report.complete \in BOOLEAN /\ report.grade \in Int
      BY <1>1, <2>4 DEF QuestionInv, Answered
    <3>3. finished \in 0 .. Cardinality(Task)
      BY <3>1, <3>2, FS_EmptySet
    <3>4. ReportType(report)
      BY <3>1, <3>2 DEF ReportType
    <3>5. DOMAIN calls = {} /\ queue \subseteq Task
      BY <3>1
    <3>6. thrown \in BOOLEAN
      BY <1>1 DEF Reported
    <3>7. errorLog \in 0 .. finished /\ shownLog \in 0 .. errorLog
      BY <1>1, <2>4, <3>2 DEF GradingInv, Idle
    <3>. QED  BY <2>1, <2>4, <3>3, <3>4, <3>5, <3>6, <3>7 DEF TypeOK
  <2>. QED  BY <2>2, <2>3, <2>4
<1>. QED  BY <1>1, GradingInvariance, QuestionInvariance, ReportedAlways, PTL

\* Outside process(), the recursion has left behind what the least set of module
\* TaskGraph says: every verdict agrees with the parent's, every verdict is counted, and
\* the tasks in the queue are those that wait although their parents do not.
THEOREM QueueSettled == Spec => []Settled
<1>1. ASSUME GradingInv  PROVE Settled
  <2>1. SUFFICES ASSUME programming, calls = << >>, ~ thrown
        PROVE  /\ Consistent(tasks, [ i \in Task |-> results[i].status ])
               /\ finished = Cardinality({ i \in Task : results[i].status # "PENDING" })
               /\ HasProgram =>
                    queue = { i \in Task :
                                /\ results[i].status = "PENDING"
                                /\ \/ Entry(tasks, i)
                                   \/ results[tasks[i].depends_on].status # "PENDING" }
    BY DEF Settled
  <2>2. PICK T : T = tasks
    OBVIOUS
  <2>3. Shape(T) /\ CallInv(T) /\ Task = DOMAIN T
    BY <1>1, <2>1, <2>2, TasksShape DEF GradingInv, Left, Task
  <2>4. \A i \in DOMAIN T : ~ Todo(i)
    BY <2>1 DEF Todo
  <2>5. Consistent(T, [ i \in DOMAIN T |-> results[i].status ])
    <3>1. PICK r : r = [ i \in DOMAIN T |-> results[i].status ]
      OBVIOUS
    <3>2. \A i \in DOMAIN T : r[i] = results[i].status
      BY <3>1
    <3>3. ASSUME NEW i \in DOMAIN T, ~ Entry(T, i)
          PROVE  IF r[T[i].depends_on] = "PENDING" THEN r[i] = "PENDING"
                 ELSE Satisfied(T[i].depends_cond, r[T[i].depends_on])
                        <=> r[i] # "DEPENDENCY_NOT_SATISFIED"
      <4>1. i # 0 /\ T[i].depends_on \in DOMAIN T /\ T[i].depends_cond = "ACCEPTED"
        BY <2>3, <3>3, ShapeFacts
      <4>2. /\ i \in queue => r[T[i].depends_on] = "ACCEPTED"
            /\ r[i] = "PENDING" => i \in queue \/ r[T[i].depends_on] = "PENDING"
            /\ r[i] # "PENDING" =>
                 /\ r[T[i].depends_on] # "PENDING"
                 /\ r[T[i].depends_on] = "ACCEPTED" <=> r[i] # "DEPENDENCY_NOT_SATISFIED"
        BY <2>3, <2>4, <3>2, <4>1 DEF CallInv, Placed, Waits
      <4>. QED  BY <4>1, <4>2 DEF Satisfied
    <3>. QED  BY <3>1, <3>3 DEF Consistent
  <2>6. finished = Cardinality({ i \in DOMAIN T : results[i].status # "PENDING" })
    <3>1. Decided(T) = { i \in DOMAIN T : results[i].status # "PENDING" }
      BY DEF Decided, Waits
    <3>2. Cardinality(Decided(T)) \in Nat
      <4>1. IsFiniteSet(Decided(T))
        BY <2>3, ShapeFacts, FS_Subset DEF Decided
      <4>. QED  BY <4>1, FS_CardinalityType
    <3>. QED  BY <2>1, <2>3, <3>1, <3>2 DEF CallInv, Tally
  <2>7. ASSUME HasProgram, NEW i \in DOMAIN T
        PROVE  i \in queue <=>
                 /\ results[i].status = "PENDING"
                 /\ Entry(T, i) \/ results[T[i].depends_on].status # "PENDING"
    <3>1. CASE i = 0
      BY <2>3, <2>7, <3>1, ShapeFacts DEF CallInv, Placed, Waits
    <3>2. CASE i # 0
      <4>1. ~ Entry(T, i)
        BY <2>3, <3>2, ShapeFacts
      <4>. QED  BY <2>3, <2>4, <2>7, <3>2, <4>1 DEF CallInv, Placed, Waits
    <3>. QED  BY <3>1, <3>2
  <2>8. queue \subseteq DOMAIN T
    BY <2>3 DEF CallInv, Placed
  <2>. QED  BY <2>2, <2>3, <2>5, <2>6, <2>7, <2>8
<1>. QED  BY <1>1, GradingInvariance, PTL

\* A section that a report has shown is in every later report, with the same cases and
\* grades; what changes is the text of a static check that ended with a report that is not
\* JSON, which is an error and grows by a complaint with each report that is made of it.
THEOREM ReportsOnlyGrow == Spec => SectionsStable
<1>1. ASSUME GradingInv, [Next]_vars
      PROVE  [ /\ \A type \in DOMAIN report.sections :
                    /\ type \in DOMAIN report'.sections
                    /\ report'.sections[type] = report.sections[type]
               /\ shownLog' # shownLog =>
                    /\ shownLog' > shownLog
                    /\ report'.sections["static"].kind = "error"
                    /\ \E i \in OfType(tasks, "static") : ~ results[i].parses ]_vars
  BY <1>1, GradingStep DEF LogOnlyGrows
<1>. QED  BY <1>1, GradingInvariance, PTL DEF Spec, SectionsStable

\* The work of a submission with a program runs out exactly when its report is complete, or
\* with a report that cannot be dumped, which makes MOJ end and mcourse go without it; the
\* complete report has a section for each check of which a task was judged, and for no
\* other.  No other exception leaves summarize.
THEOREM CompleteInTheEnd == Spec => []FinalComplete
<1>1. ASSUME GradingInv  PROVE FinalComplete
  <2>1. SUFFICES ASSUME programming, HasProgram
        PROVE  /\ thrown => sub.server = "moj" /\ ~ Dumps(results)
               /\ report.complete => queue = {} /\ calls = << >> /\ Dumps(results)
               /\ queue = {} /\ calls = << >> => report.complete \/ ~ Dumps(results)
               /\ report.complete =>
                    DOMAIN report.sections =
                      { type \in CheckType :
                          /\ Ran(results, OfType(tasks, type)) # {}
                          /\ type = "gtest" /\ sub.server = "mcourse" => sub.config.info }
    BY DEF FinalComplete
  <2>0. CASE Left(tasks)
    <3>1. sub.server = "moj"
      BY <1>1, <2>1, <2>0, SubmissionAssumption DEF GradingInv, Left
    <3>. QED  BY <2>0, <3>1 DEF Left
  <2>2. PICK T : T = tasks
    OBVIOUS
  <2> SUFFICES ASSUME ~ Left(tasks)
      PROVE  /\ ~ thrown
             /\ report.complete => queue = {} /\ calls = << >> /\ Dumps(results)
             /\ queue = {} /\ calls = << >> => report.complete \/ ~ Dumps(results)
             /\ report.complete =>
                  DOMAIN report.sections =
                    { type \in CheckType :
                        /\ Ran(results, OfType(tasks, type)) # {}
                        /\ type = "gtest" /\ sub.server = "mcourse" => sub.config.info }
    BY <2>0
  <2>3. Shape(T) /\ CallInv(T) /\ ReportInv(T)
    BY <1>1, <2>1, <2>2, TasksShape DEF GradingInv
  <2>4. report.complete => /\ queue = {} /\ calls = << >> /\ DoneOn(results, DOMAIN T)
                           /\ Dumps(results)
    BY <2>3, AllCounted DEF ReportInv
  <2>5. ASSUME queue = {}, calls = << >>  PROVE report.complete \/ ~ Dumps(results)
    <3>1. \A i \in DOMAIN T : ~ Todo(i)
      BY <2>5 DEF Todo
    <3>2. PICK W : W = { i \in DOMAIN T : Waits(i) }
      OBVIOUS
    <3>3. W = {}
      <4>1. SUFFICES ASSUME W # {}  PROVE FALSE
        OBVIOUS
      <4>2. W \in SUBSET Nat
        BY <2>3, <3>2, ShapeFacts
      <4>3. PICK m \in W : \A k \in W : m <= k
        BY <4>1, <4>2, LeastElement
      <4>4. m \in DOMAIN T \ {0}
        BY <2>1, <2>3, <2>5, <3>2, <4>3 DEF CallInv, Placed
      <4>5. T[m].depends_on \in DOMAIN T /\ T[m].depends_on < m
        BY <2>3, <4>4, ShapeFacts
      <4>6. Waits(T[m].depends_on)
        BY <2>3, <2>5, <3>1, <3>2, <4>3, <4>4 DEF CallInv, Placed, Waits
      <4>7. T[m].depends_on \in W /\ m \in Nat /\ T[m].depends_on \in Nat
        BY <3>2, <4>2, <4>5, <4>6
      <4>. QED  BY <4>3, <4>5, <4>7
    <3>4. Decided(T) = DOMAIN T
      BY <3>2, <3>3 DEF Decided
    <3>. QED  BY <2>3, <2>5, <3>4, ShapeFacts DEF CallInv, Tally, ReportInv
  <2>6. report.complete =>
          DOMAIN report.sections =
            { type \in CheckType :
                /\ Ran(results, OfType(T, type)) # {}
                /\ type = "gtest" /\ sub.server = "mcourse" => sub.config.info }
    <3>1. SUFFICES ASSUME report.complete
          PROVE  DOMAIN report.sections =
                   { type \in CheckType :
                       /\ Ran(results, OfType(T, type)) # {}
                       /\ type = "gtest" /\ sub.server = "mcourse" => sub.config.info }
      OBVIOUS
    <3>2. DOMAIN report.sections = { type \in CheckType : SectionsOf(results)[type].kind # "none" }
      BY <2>3, <3>1 DEF ReportInv
    <3>3. \A type \in CheckType :
            SectionsOf(results)[type].kind # "none" <=>
              /\ Ran(results, OfType(T, type)) # {}
              /\ type = "gtest" /\ sub.server = "mcourse" => sub.config.info
      BY <2>2, <2>3, <2>4, <3>1, SectionKinds DEF CallInv
    <3>. QED  BY <3>2, <3>3
  <2>. QED  BY <2>2, <2>3, <2>4, <2>5, <2>6 DEF CallInv
<1>. QED  BY <1>1, GradingInvariance, PTL

\* The total of mcourse, an int, loses less than a point for each question, and never gains
\* one; that of MOJ loses nothing.
THEOREM TotalsAsAdded == Spec => []TotalBounded
<1>1. ASSUME GradingInv, QuestionInv  PROVE TotalBounded
  <2>1. SUFFICES ASSUME ~ programming, report.complete
        PROVE  IF sub.server = "mcourse"
               THEN /\ report.grade <= SumFunction(results)
                    /\ SumFunction(results) <= report.grade + (Unit - 1) * Len(results)
               ELSE report.grade = SumFunction(results)
    BY DEF TotalBounded
  <2>2. sub \in Submissions /\ results = Graded /\ report = AnswerReport(Graded)
    BY <1>1, <2>1 DEF GradingInv, QuestionInv, Answered
  <2>3. PICK grades \in Seq(Int) : grades = results
    BY <2>1, <2>2, GradedType
  <2>4. report = IF sub.server = "mcourse" THEN McourseServer!AnswerReport(grades)
                 ELSE MojServer!AnswerReport(grades)
    BY <2>2, <2>3 DEF AnswerReport
  <2>. QED  BY <2>3, <2>4, TotalOf
<1>. QED  BY <1>1, GradingInvariance, QuestionInvariance, PTL

\* Every answer that has a question, and chooses something, is graded against it by the sets
\* of options, whatever their bits.
THEOREM ChoicesGraded == Spec => []ChoicesAsDefined
<1>1. ASSUME GradingInv, QuestionInv  PROVE ChoicesAsDefined
  <2>1. SUFFICES ASSUME sub.kind = "choice", report.complete
        PROVE  ChoicesAsDefined
    BY DEF ChoicesAsDefined
  <2>2. /\ sub \in Submissions /\ ~ programming /\ Valid(sub)
        /\ results = [ k \in DOMAIN questions |-> QuestionGrade(questions[k]) ]
    BY <1>1, <2>1 DEF GradingInv, QuestionInv, Answered, programming, Graded
  <2>3. ASSUME sub.server = "mcourse", NEW k \in DOMAIN results, NEW l \in DOMAIN results,
               sub.answers[l].question_id = sub.questions[k].id, sub.answers[l].choice_id # {}
        PROVE  results[k] = Answers!ChoiceDefined(
                 sub.questions[k].standard_answer, sub.answers[l].choice_id,
                 sub.questions[k].max_grade, sub.questions[k].half_grade)
    <3>1. PICK n \in Nat :
            /\ questions = [ i \in 1 .. n |-> McourseAsks(i) ]
            /\ 1 .. n \subseteq DOMAIN sub.questions /\ 1 .. n \subseteq DOMAIN sub.answers
            /\ \A i \in 1 .. n : sub.questions[i].id = i - 1 /\ sub.answers[i].question_id = i - 1
      BY <2>1, <2>2, <2>3, McourseChoices
    <3>2. k \in 1 .. n /\ l \in 1 .. n
      BY <2>2, <3>1
    <3>3. k = l
      <4>1. k - 1 = l - 1
        BY <2>3, <3>1, <3>2
      <4>. QED  BY <3>2, <4>1
    <3>4. PICK q : q = McourseAsks(k)
      OBVIOUS
    <3>5. /\ q.standard = sub.questions[k].standard_answer /\ q.student = sub.answers[l].choice_id
          /\ q.full = sub.questions[k].max_grade /\ q.half = sub.questions[k].half_grade
      BY <3>3, <3>4 DEF McourseAsks
    <3>6. q.standard \in ChoiceSet /\ q.student \in ChoiceSet
      <4>1. PICK R, A :
              /\ R = [ id : Int, standard_answer : ChoiceSet, max_grade : Int, half_grade : Int ]
              /\ A = [ question_id : Int, choice_id : ChoiceSet ]
        OBVIOUS
      <4>2. sub.questions \in Seq(R) /\ sub.answers \in Seq(A)
        BY <2>1, <2>2, <2>3, <4>1, SubmissionAssumption
      <4>3. sub.questions[k] \in R /\ sub.answers[l] \in A
        BY <3>1, <3>2, <4>2, Member
      <4>. QED  BY <3>5, <4>1, <4>3
    <3>7. results[k] = Answers!ChoiceGrade(q)
      BY <2>1, <2>2, <3>1, <3>2, <3>4 DEF QuestionGrade
    <3>. QED  BY <2>3, <3>5, <3>6, <3>7, ChoiceGraded
  <2>4. ASSUME sub.server = "moj", NEW k \in DOMAIN sub.answer \cap DOMAIN sub.standard,
               sub.answer[k] # {}
        PROVE  results[k] = Answers!ChoiceDefined(sub.standard[k].answer, sub.answer[k],
                                                  sub.standard[k].max_grade,
                                                  sub.standard[k].half_grade)
    <3>1. PICK n \in Nat :
            /\ questions = [ i \in 1 .. n |-> MojAsks(i) ]
            /\ DOMAIN sub.answer \cap DOMAIN sub.standard = 1 .. n
      BY <2>1, <2>2, <2>4, MojChoices
    <3>2. k \in 1 .. n
      BY <3>1
    <3>3. PICK q : q = MojAsks(k)
      OBVIOUS
    <3>4. /\ q.standard = sub.standard[k].answer /\ q.student = sub.answer[k]
          /\ q.full = sub.standard[k].max_grade /\ q.half = sub.standard[k].half_grade
      BY <3>3 DEF MojAsks
    <3>5. q.standard \in ChoiceSet /\ q.student \in ChoiceSet
      <4>1. PICK R : R = [ answer : ChoiceSet, max_grade : Int, half_grade : Int ]
        OBVIOUS
      <4>2. sub.standard \in Seq(R) /\ sub.answer \in Seq(ChoiceSet)
        BY <2>1, <2>2, <2>4, <4>1, SubmissionAssumption
      <4>3. sub.standard[k] \in R /\ sub.answer[k] \in ChoiceSet
        BY <4>2, Member
      <4>. QED  BY <3>4, <4>1, <4>3
    <3>6. results[k] = Answers!ChoiceGrade(q)
      BY <2>1, <2>2, <3>1, <3>2, <3>3 DEF QuestionGrade
    <3>. QED  BY <2>4, <3>4, <3>5, <3>6, ChoiceGraded
  <2>. QED  BY <2>1, <2>3, <2>4 DEF ChoicesAsDefined
<1>. QED  BY <1>1, GradingInvariance, QuestionInvariance, PTL

\* An output earns the share of the grade that its edit distance leaves, rounded down to a
\* Unit-th; a full grade means that the two texts agree but for white space.
THEOREM OutputsGraded == Spec => []OutputsAsDefined
<1>1. ASSUME GradingInv, QuestionInv  PROVE OutputsAsDefined
  <2>1. SUFFICES ASSUME sub.kind = "output", report.complete, NEW k \in DOMAIN results
        PROVE  OutputEarns(results[k], sub.answer_scores[k],
                           Answers!Stripped(sub.standard_answers[k]),
                           Answers!Stripped(sub.student_answers[k]))
    BY Zenon DEF OutputsAsDefined, OutputEarns
  <2>2. /\ sub \in Submissions /\ ~ programming
        /\ results = [ i \in DOMAIN questions |-> QuestionGrade(questions[i]) ]
    BY <1>1, <2>1 DEF GradingInv, QuestionInv, Answered, programming, Graded
  <2>3. PICK n \in Nat :
          /\ questions = [ i \in 1 .. n |-> OutputAsks(i) ]
          /\ 1 .. n \subseteq DOMAIN sub.standard_answers
          /\ 1 .. n \subseteq DOMAIN sub.answer_scores
          /\ 1 .. n \subseteq DOMAIN sub.student_answers
    BY <2>1, <2>2, Outputs
  <2>4. k \in 1 .. n
    BY <2>2, <2>3
  <2>5. results[k] = Answers!OutputGrade(OutputAsks(k))
    BY <2>1, <2>2, <2>3, <2>4 DEF QuestionGrade
  <2>. QED  BY <2>1, <2>2, <2>3, <2>4, <2>5, OutputAsked
<1>. QED  BY <1>1, GradingInvariance, QuestionInvariance, PTL

\* Whatever the questionnaire and the answers, totals, choices and outputs are graded as the
\* descriptions of the questions promise.
THEOREM AnswersGraded == Spec => []AnswersAsDefined
<1>1. TotalBounded /\ ChoicesAsDefined /\ OutputsAsDefined => AnswersAsDefined
  BY DEF AnswersAsDefined
<1>. QED  BY <1>1, TotalsAsAdded, ChoicesGraded, OutputsGraded, PTL

-----------------------------------------------------------------------------
(* The complete report.                                                    *)

\* It changes no score either, when all tasks have their verdicts.
LEMMA ScoresKnown ==
  ASSUME NEW T, T = tasks, Shape(T), NEW rs \in Results(T), DoneOn(rs, DOMAIN T),
         NEW rs2, rs2 = Known(rs)
  PROVE  Scores(rs2) = Scores(rs)
<1>1. rs2 \in Results(T)
  BY KnownFacts
<1>2. rs[0].status # "PENDING"
  BY ShapeFacts DEF DoneOn
<1>3. DoneOn(rs2, DOMAIN T)
  BY KnownFacts DEF DoneOn
<1>4. ASSUME NEW type \in CheckType
      PROVE  SectionsOf(rs2)[type].score = SectionsOf(rs)[type].score
  <2>1. CASE SectionsOf(rs)[type].kind # "none"
    BY <1>1, <1>2, <2>1, SectionsKept
  <2>2. CASE SectionsOf(rs)[type].kind = "none"
    <3>1. Ran(rs2, OfType(T, type)) = Ran(rs, OfType(T, type))
      BY KnownFacts DEF Ran, OfType
    <3>2. SectionsOf(rs2)[type].kind = "none"
      BY <1>1, <1>3, <2>2, <3>1, SectionKinds
    <3>3. Plain(SectionsOf(rs2)[type]) /\ Plain(SectionsOf(rs)[type])
      BY SectionsPlain
    <3>. QED  BY <2>2, <3>2, <3>3 DEF Plain
  <2>. QED  BY <2>1, <2>2
<1>. QED  BY <1>4 DEF Scores

\* The grade of a report.
LEMMA SummaryTotal ==
  ASSUME NEW T, T = tasks, NEW rs, NEW count
  PROVE  Summary(rs, count).grade = Unit * Round(SumFunction(Scores(rs)))
<1>1. PICK all : all = SectionsOf(rs)
  OBVIOUS
<1>2. PICK f : f = [ type \in CheckType |-> all[type].score ]
  OBVIOUS
<1>3. f = Scores(rs)
  BY <1>1, <1>2 DEF Scores
<1>4. CASE sub.server = "mcourse"
  <2>1. all = McourseServer!Sections(sub.config, T, rs)
    BY <1>1, <1>4 DEF SectionsOf
  <2>2. Summary(rs, count).grade = McourseServer!Grade(all)
    BY <1>4, <2>1 DEF Summary, McourseServer!Report
  <2>. QED  BY <1>2, <1>3, <2>2, SameNames, SameSums, SameRounds DEF McourseServer!Grade
<1>5. CASE sub.server # "mcourse"
  <2>1. all = MojServer!Sections(T, rs)
    BY <1>1, <1>5 DEF SectionsOf
  <2>2. Summary(rs, count).grade = MojServer!Grade(all)
    BY <1>5, <2>1 DEF Summary, MojServer!Report
  <2>. QED  BY <1>2, <1>3, <2>2, SameNames, SameSums, SameRounds DEF MojServer!Grade
<1>. QED  BY <1>4, <1>5

\* The complete report adds up the sections of the results, which were read again.
Final ==
  programming /\ report.complete =>
    /\ Known(results) = results
    /\ report.grade = Unit * Round(SumFunction(Scores(results)))

LEMMA FinalReturn ==
  ASSUME NEW T, Shape(T), T = tasks, CallInv(T), ReportInv(T), Return,
         report'.complete, ~ report.complete
  PROVE  Final'
<1>0. Dumps(results)
  BY Returns
<1>1. /\ CallInv(T)' /\ ReportInv(T)' /\ results' = Known(results)
      /\ report' = Summary(results, finished + 1) /\ sub' = sub
  BY <1>0, Returns, ReturnCalls, ReportReturn
<1>2. PICK rs \in Results(T), rs2 \in Results(T) : rs = results /\ rs2 = results' /\ rs2 = Known(rs)
  BY <1>1 DEF CallInv
<1>3. DoneOn(rs2, DOMAIN T)
  <2>1. finished' = Cardinality(DOMAIN T)
    BY <1>1 DEF ReportInv
  <2>2. Decided(T)' \subseteq DOMAIN T /\ IsFiniteSet(DOMAIN T)
    BY ShapeFacts DEF Decided
  <2>3. /\ Cardinality(Decided(T)') \in Nat /\ Cardinality(Decided(T)') <= Cardinality(DOMAIN T)
        /\ Cardinality(Decided(T)') = Cardinality(DOMAIN T) => Decided(T)' = DOMAIN T
    BY <2>2, FS_Subset, FS_CardinalityType
  <2>4. /\ Len(calls') \in Nat /\ finished' \in Nat
        /\ finished' + Len(calls') = Cardinality(Decided(T)')
    BY <1>1 DEF CallInv, Stack, Tally
  <2>5. Decided(T)' = DOMAIN T
    BY <2>1, <2>3, <2>4
  <2>. QED  BY <1>2, <2>5 DEF Decided, DoneOn, Waits
<1>4. DoneOn(rs, DOMAIN T)
  BY <1>2, <1>3, KnownFacts DEF DoneOn
<1>5. Scores(rs2) = Scores(rs)
  BY <1>2, <1>4, ScoresKnown
<1>6. Known(rs2) = rs2
  BY <1>2, KnownTwice
<1>7. report'.grade = Unit * Round(SumFunction(Scores(rs2)))
  <2>1. PICK count : count = finished + 1
    OBVIOUS
  <2>2. report' = Summary(rs, count)
    BY <1>1, <1>2, <2>1
  <2>. QED  BY <1>5, <2>2, SummaryTotal
<1>8. tasks' = tasks /\ (\A r : Known(r)' = Known(r)) /\ (\A r : SectionsOf(r)' = SectionsOf(r))
  BY <1>1, SubKept DEF Known
<1>9. Known(rs2)' = rs2 /\ Scores(rs2)' = Scores(rs2)
  BY <1>6, <1>8 DEF Scores
<1>. QED  BY <1>2, <1>7, <1>9 DEF Final

LEMMA FinalAlways == Spec => []Final
<1>1. Init => Final
  <2>1. Init => report.complete = FALSE
    BY DEF Init, NoReport
  <2>. QED  BY <2>1 DEF Final
<1>2. GradingInv /\ Final /\ [Next]_vars => Final'
  <2>1. SUFFICES ASSUME GradingInv, Final, [Next]_vars, programming', report'.complete
        PROVE  Final'
    BY DEF Final
  <2>2. UNCHANGED sub
    BY <2>1 DEF Next, Judge, Depend, Return, Answer, vars
  <2>3. programming
    BY <2>1, <2>2, SubKept
  <2>4. PICK T : T = tasks
    OBVIOUS
  <2>0. CASE Left(tasks)
    <3>1. UNCHANGED report
      BY <2>0, <2>1, <2>3, LeftStep DEF vars
    <3>. QED  BY <2>0, <2>1, <3>1 DEF Left
  <2> SUFFICES ASSUME ~ Left(tasks)  PROVE Final'
    BY <2>0
  <2>5. Shape(T) /\ CallInv(T) /\ ReportInv(T)
    BY <2>1, <2>3, <2>4, TasksShape DEF GradingInv
  <2>6. report.complete => calls = << >> /\ queue = {}
    BY <2>5, AllCounted DEF ReportInv
  <2>7. CASE Return
    <3>1. ~ report.complete
      BY <2>6, <2>7 DEF Return
    <3>. QED  BY <2>1, <2>4, <2>5, <2>7, <3>1, FinalReturn
  <2>8. CASE UNCHANGED vars
    <3>1. UNCHANGED <<sub, results, report>>
      BY <2>8 DEF vars
    <3>2. (programming' <=> programming) /\ Known(results)' = Known(results)
          /\ Scores(results)' = Scores(results)
      BY <3>1, SubKept DEF Known, Scores, SectionsOf, tasks, programming
    <3>. QED  BY <2>1, <3>1, <3>2 DEF Final
  <2>9. ASSUME NEW i \in Task, Judge(i)  PROVE FALSE
    <3>1. i \in queue /\ UNCHANGED report
      BY <2>9 DEF Judge
    <3>. QED  BY <2>1, <2>6, <3>1
  <2>10. CASE Depend
    <3>1. calls # << >> /\ UNCHANGED report
      BY <2>10 DEF Depend
    <3>. QED  BY <2>1, <2>6, <3>1
  <2>11. ~ Answer
    BY <2>3 DEF Answer
  <2>. QED  BY <2>1, <2>7, <2>8, <2>9, <2>10, <2>11 DEF Next
<1>. QED  BY <1>1, <1>2, GradingInvariance, PTL DEF Spec

\* A complete report gives full marks exactly to submissions of which every case is accepted,
\* if whatever fails costs a point or more: rounding once per section and once in total gives
\* nothing back and takes nothing away.  In MOJ the section of each check says the same.
THEOREM FailuresCost == Spec => []FailureCosts
<1>1. ASSUME GradingInv, Final  PROVE FailureCosts
  <2>1. SUFFICES ASSUME programming, report.complete, Costly
        PROVE  /\ report.grade = FullMarks <=>
                    /\ \A i \in Task : results[i].status = "ACCEPTED"
                    /\ OfType(tasks, "gtest") # {} /\ sub.server = "mcourse" => sub.config.info
               /\ \A type \in DOMAIN report.sections \cap { "random", "standard", "memory" } :
                    sub.server = "moj" /\ report.sections[type].kind = "graded" =>
                      ( report.sections[type].grade = report.sections[type].full_grade <=>
                          report.sections[type].pass_cases = report.sections[type].total_cases )
    BY Zenon DEF FailureCosts
  <2>2. PICK T : T = tasks
    OBVIOUS
  <2>3. Shape(T) /\ CallInv(T) /\ ReportInv(T) /\ sub \in Submissions
    BY <1>1, <2>1, <2>2, TasksShape DEF GradingInv, Left
  <2>4. PICK rs \in Results(T) : rs = results
    BY <2>3 DEF CallInv
  <2>5. DoneOn(rs, DOMAIN T)
    BY <2>1, <2>3, <2>4, AllCounted DEF ReportInv
  <2>6. Known(rs) = rs /\ report.grade = Unit * Round(SumFunction(Scores(rs)))
    BY <1>1, <2>1, <2>4 DEF Final
  <2>7. CostlyResults(T, rs)
    <3>1. ASSUME NEW i \in DOMAIN T  PROVE CostlyTask(T, rs, i)
      BY <2>1, <2>2, <2>4 DEF Costly, CostlyTask, Task
    <3>2. ASSUME sub.server = "mcourse", NEW i \in OfType(T, "gtest")  PROVE CostlyReport(rs, i)
      <4>1. i \in Task /\ tasks[i].check_type = "gtest"
        BY <2>2 DEF OfType, Task
      <4>. QED  BY <2>1, <2>4, <3>2, <4>1 DEF Costly, CostlyReport
    <3>. QED  BY <3>1, <3>2 DEF CostlyResults, CostlyOn
  <2>8. PICK x, y : x = SumFunction(Scores(rs)) /\ y = FullOf(T, DOMAIN T)
    OBVIOUS
  <2>9. /\ x \in Int /\ y \in Int
        /\ AllRight(T, rs) => x = y
        /\ ~ AllRight(T, rs) => x <= y - Unit
    BY <2>1, <2>2, <2>3, <2>5, <2>6, <2>7, <2>8, TotalCosts
  <2>10. FullMarks = Unit * Round(y)
    BY <2>2, <2>8 DEF FullMarks, FullOf, Task, SumFunction
  <2>11. report.grade = FullMarks <=> AllRight(T, rs)
    <3>1. ~ AllRight(T, rs) => Unit * Round(x) # Unit * Round(y)
      BY <2>9, PointsCost
    <3>. QED  BY <2>6, <2>8, <2>9, <2>10, <3>1
  <2>12. AllRight(T, rs) <=>
           /\ \A i \in DOMAIN T : rs[i].status = "ACCEPTED"
           /\ OfType(T, "gtest") # {} /\ sub.server = "mcourse" => sub.config.info
    <3>1. \A i \in DOMAIN T : T[i].check_type \in CheckType /\ i \in OfType(T, T[i].check_type)
      BY <2>3, ShapeFacts DEF TaskRecord, OfType
    <3>2. \A type \in CheckType : OfType(T, type) \subseteq DOMAIN T
      BY DEF OfType
    <3>3. (\A type \in CheckType : AllAccepted(rs, OfType(T, type)))
            <=> \A i \in DOMAIN T : rs[i].status = "ACCEPTED"
      BY <3>1, <3>2 DEF AllAccepted
    <3>4. "gtest" \in CheckType
      BY DEF CheckType
    <3>. QED  BY <3>3, <3>4 DEF AllRight, Right
  <2>13. ASSUME NEW type \in DOMAIN report.sections \cap { "random", "standard", "memory" },
                sub.server = "moj", report.sections[type].kind = "graded"
         PROVE  report.sections[type].grade = report.sections[type].full_grade <=>
                  report.sections[type].pass_cases = report.sections[type].total_cases
    <3>1. PICK section : section = SectionsOf(rs)[type]
      OBVIOUS
    <3>2. report.sections[type] = section
      BY <2>3, <2>4, <2>13, <3>1 DEF ReportInv
    <3>3. section.kind = "graded"
      BY <2>13, <3>2
    <3>4. type \in { "random", "standard", "memory" }
      BY <2>13
    <3>5. section.grade = section.full_grade <=> section.pass_cases = section.total_cases
      BY <2>1, <2>2, <2>3, <2>5, <2>6, <2>7, <2>13, <3>1, <3>3, <3>4, CountedCosts
    <3>. QED  BY <3>2, <3>5
  <2>. QED  BY <2>2, <2>4, <2>11, <2>12, <2>13 DEF Task
<1>. QED  BY <1>1, GradingInvariance, FinalAlways, PTL
=============================================================================
