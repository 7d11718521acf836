------------------------- MODULE MCFunctionRegistry -------------------------
EXTENDS FunctionRegistry, TLC

CONSTANTS f1, q1, q2, q3, d1, d2, x1, x2, u1

MCFns == {f1}
MCReqs == {q1, q2, q3}
MCDeployers == {d1}
TwoDeployers == {d1, d2}
\* A fresh install: the Function table is empty at the first start.
NoFns == {}
MCDeleters == {x1, x2}
MCUpdaters == {u1}
OneReq == {q1}
TwoReqs == {q1, q2}
OneDeleter == {x1}
NoUpdaters == {}

\* Requests are interchangeable, and so are deleters: safety runs only.
Symmetry == Permutations(MCReqs) \cup Permutations(MCDeleters)
====
