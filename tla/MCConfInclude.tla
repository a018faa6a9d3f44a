---------------------------- MODULE MCConfInclude ----------------------------
EXTENDS ConfInclude

Abs(c) == [abs |-> TRUE, comps |-> c]
Rel(c) == [abs |-> FALSE, comps |-> c]

(* /etc/burp/a.conf and /etc/burp/b.conf, including each other by name.  *)
MCRootAbs == Abs(<<"d", "a">>)
MCFilesAbs == {Abs(<<"d", "a">>), Abs(<<"d", "b">>)}

(* burp -c a.conf from the directory holding a.conf and b.conf.          *)
MCRootRel == Rel(<<"a">>)
MCFilesRel == {Rel(<<"a">>), Rel(<<"b">>)}

MCTargets == {Rel(<<"a">>), Rel(<<"b">>)}
=============================================================================
