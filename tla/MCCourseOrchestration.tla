----------------------- MODULE MCCourseOrchestration -----------------------
(* Two invocations on a course of three phases: a root with a child, and a   *)
(* second root.                                                             *)
EXTENDS CourseOrchestration

MCPreOrder == <<"a", "b", "c">>
MCDepth == [p \in {"a", "b", "c"} |-> IF p = "b" THEN 1 ELSE 0]
MCMaxDriven == [o1 |-> 2, o2 |-> 1]
MCHitches == {"h1", "h2"}

\* Two hitches on one phase, or on a root and its child; or one on a root,
\* and the other not linked yet.
MCInitialLinks ==
    {[a |-> <<"h1", "h2">>, b |-> <<>>, c |-> <<>>],
     [a |-> <<"h1">>, b |-> <<"h2">>, c |-> <<>>],
     [a |-> <<"h1">>, b |-> <<>>, c |-> <<>>]}
=============================================================================
