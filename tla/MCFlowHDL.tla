----------------------------- MODULE MCFlowHDL -----------------------------
(* Instances of FlowHDL for TLC.                                             *)
EXTENDS FlowHDL

CONSTANTS x1, x2, x3, y1, y2, z1

\* The names of the outer view are interchangeable.
NameSymmetry == Permutations({x1, x2, x3})

\* Flows without templates, with all kinds of arguments.
Plain == [names |-> <<{x1, x2, x3}>>, literals |-> {"value", "default", "unset"},
          nodes |-> 3, args |-> 2, kept |-> 2, again |-> FALSE]
\* The same name for one node after the other.
Again == [names |-> <<{x1, x2}, {y1}>>, literals |-> {"value"}, nodes |-> 4, args |-> 1,
          kept |-> 1, again |-> TRUE]
\* Templates that use templates.
Nested == [names |-> <<{x1, x2}, {y1, y2}, {z1}>>, literals |-> {},
           nodes |-> 5, args |-> 1, kept |-> 0, again |-> FALSE]
\* Templates of two arguments.
Wide == [names |-> <<{x1, x2, x3}, {y1}>>, literals |-> {},
         nodes |-> 5, args |-> 2, kept |-> 0, again |-> FALSE]

AllSizes == {Plain, Again, Nested, Wide}

\* A template that assigns the names of the flow that uses it.
SameNames == {[names |-> <<{x1, x2}, {x1, x2}>>, literals |-> {}, nodes |-> 4, args |-> 1,
               kept |-> 0, again |-> FALSE]}
\* One use of a template, with a literal.
Literal == {[names |-> <<{x1}, {y1}>>, literals |-> {"value"}, nodes |-> 4, args |-> 1,
             kept |-> 0, again |-> FALSE]}
\* Flows without templates.
PlainOnly == {Plain}
\* One use of a template, whose output is kept under a name.
Kept == {[names |-> <<{x1, x2, x3}, {y1}>>, literals |-> {}, nodes |-> 4, args |-> 1,
          kept |-> 1, again |-> TRUE]}

=============================================================================
