--------------------------- MODULE MCConfStartDirs ---------------------------
EXTENDS ConfStartDirs

Abs(c) == [abs |-> TRUE, comps |-> c]
Rel(c) == [abs |-> FALSE, comps |-> c]

(* /a, /a/a, /a/a/a, /a/b, /a/.., /b and the relative a.                  *)
MCPaths == {Abs(<<1>>), Abs(<<1, 1>>), Abs(<<1, 1, 1>>), Abs(<<1, 2>>), Abs(<<1, DotDot>>),
            Abs(<<2>>), Rel(<<1>>)}
=============================================================================
