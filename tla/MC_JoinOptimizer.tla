------------------------- MODULE MC_JoinOptimizer -------------------------
(***************************************************************************)
(* The tables and joins of OrderJoinsTest (src/test/unit/optimizer/       *)
(* optimizer_test.cc) for TLC.  Table names are numbered in std::string   *)
(* order: dept < emp < hobbies < hobby.  The table sizes are scaled down  *)
(* from the test's (emp 50000, dept 1000, hobby 1000, hobbies 100000) so  *)
(* that costs stay inside TLC's integers, keeping their order: hobbies is *)
(* the largest, emp is filtered to a tenth.                               *)
(***************************************************************************)
EXTENDS JoinOptimizer

dept == 1
emp == 2
hobbies == 3
hobby == 4

Node(lt, rt, lf, rf, op) == [lt |-> lt, rt |-> rt, lf |-> lf, rf |-> rf, op |-> op]

\* The three equi-joins of the test.
HobbiesHobby == Node(hobbies, hobby, 1, 0, "EQ")
EmpDept      == Node(emp, dept, 1, 0, "EQ")
EmpHobbies   == Node(emp, hobbies, 2, 0, "EQ")
\* A second predicate on the columns of EmpDept, and a non-equi join of
\* two non-key columns.
EmpDeptLt    == Node(emp, dept, 1, 0, "LT")
DeptHobbyGt  == Node(dept, hobby, 2, 3, "GT")

CandidateNodes == {HobbiesHobby, EmpDept, EmpHobbies, EmpDeptLt, DeptHobbyGt}

\* Every join list of one to three distinct candidate nodes.
JoinLists ==
    UNION {{s \in [1..n -> CandidateNodes] : \A a, b \in 1..n : a # b => s[a] # s[b]}
           : n \in 1..3}

\* The join list of the test.
TestJoins == {<<HobbiesHobby, EmpDept, EmpHobbies>>}

\* Join lists with two nodes that differ only in op.
OpVariantLists == {<<EmpDept, EmpDeptLt>>, <<EmpDeptLt, EmpDept, EmpHobbies>>}

MCTups     == (dept :> 10) @@ (emp :> 50) @@ (hobbies :> 100) @@ (hobby :> 10)
MCNumPages == (dept :> 1) @@ (emp :> 5) @@ (hobbies :> 10) @@ (hobby :> 1)
MCFilterSel ==
    (dept :> IH!One) @@ (emp :> IH!Frac(1, 10)) @@ (hobbies :> IH!One) @@ (hobby :> IH!One)
=============================================================================
