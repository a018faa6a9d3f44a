---------------------------- MODULE ConfStartDirs ----------------------------
(***************************************************************************)
(* Choosing the directories a backup starts from: finalise_start_dirs and *)
(* path_checks (src/src/conf.c 356-381 and 1148-1188), run by             *)
(* conf_finalise on the include/exclude list.  The list (incexcdir) was    *)
(* built by gcv_a_sort, so it is in pathcmp order; each entry is a path    *)
(* and a flag, 1 for include and 0 for exclude.  An include becomes a     *)
(* start directory unless it lies inside the most recent start directory; *)
(* two consecutive includes of one path, a path that is not absolute, or  *)
(* a ".." component are errors.                                           *)
(*                                                                         *)
(* A path is a record: absolute or not, and its components, numbers with  *)
(* 0 standing for "..".  The unix build is modelled (no drive letters).   *)
(***************************************************************************)
EXTENDS Naturals, Sequences, SequencesExt

CONSTANTS
    Paths,      \* the paths entries may have
    MaxEntries  \* longest include/exclude list enumerated

DotDot == 0

Entry == [path : Paths, flag : {0, 1}]

(* pathcmp order as strings: '/' first, so absolute paths come before     *)
(* relative ones; then component by component, ".." first, a path before  *)
(* everything inside it.                                                  *)
RECURSIVE CompBefore(_, _)
CompBefore(p, q) ==
    CASE p = <<>> -> q # <<>>
      [] q = <<>> -> FALSE
      [] OTHER    -> Head(p) < Head(q)
                     \/ (Head(p) = Head(q) /\ CompBefore(Tail(p), Tail(q)))

PathBefore(p, q) == (p.abs /\ ~q.abs) \/ (p.abs = q.abs /\ CompBefore(p.comps, q.comps))

Sorted(l) == \A i, j \in DOMAIN l : i < j => ~PathBefore(l[j].path, l[i].path)

(* is_subdir(dir, path): path is dir or inside it.                       *)
IsSubdir(dir, p) == dir.abs = p.abs /\ IsPrefix(dir.comps, p.comps)

(* path_checks: no ".." component, and the path starts with '/'.         *)
(* Variant without the test for '/'.                                      *)
PathChecksNoAbs(p) == DotDot \notin ToSet(p.comps)

PathChecks(p) == DotDot \notin ToSet(p.comps) /\ p.abs

(* The loop over incexcdir with last_ie (the previous include) and last_sd *)
(* (the most recent start directory); sd is c->startdir as built.        *)
(* Variant that tests the new include against last_ie instead of last_sd. *)
RECURSIVE StartLoopLastIe(_, _, _, _, _)
StartLoopLastIe(l, i, lastIe, lastSd, sd) ==
    IF i > Len(l) THEN [ret |-> 0, startdir |-> sd]
    ELSE LET s == l[i] IN
         CASE ~PathChecks(s.path) -> [ret |-> -1, startdir |-> sd]
           [] s.flag = 0 -> StartLoopLastIe(l, i + 1, lastIe, lastSd, sd)
           [] lastIe # <<>> /\ s.path = lastIe[1] -> [ret |-> -1, startdir |-> sd]
           [] sd = <<>> \/ ~IsSubdir(lastIe[1], s.path) ->
                StartLoopLastIe(l, i + 1, <<s.path>>, <<s.path>>, Append(sd, s.path))
           [] OTHER -> StartLoopLastIe(l, i + 1, <<s.path>>, lastSd, sd)

RECURSIVE StartLoop(_, _, _, _, _)
StartLoop(l, i, lastIe, lastSd, sd) ==
    IF i > Len(l) THEN [ret |-> 0, startdir |-> sd]
    ELSE LET s == l[i] IN
         CASE ~PathChecks(s.path) -> [ret |-> -1, startdir |-> sd]
           [] s.flag = 0 -> StartLoop(l, i + 1, lastIe, lastSd, sd)
           [] lastIe # <<>> /\ s.path = lastIe[1] -> [ret |-> -1, startdir |-> sd]
           [] sd = <<>> \/ ~IsSubdir(lastSd[1], s.path) ->
                StartLoop(l, i + 1, <<s.path>>, <<s.path>>, Append(sd, s.path))
           [] OTHER -> StartLoop(l, i + 1, <<s.path>>, lastSd, sd)

(* finalise_start_dirs(c): last_ie and last_sd start NULL (<<>>).         *)
FinaliseStartDirs(l) == StartLoop(l, 1, <<>>, <<>>, <<>>)

VARIABLES
    incexcdir,  \* the sorted include/exclude list
    called,     \* whether finalise_start_dirs has returned
    result      \* its return value and c->startdir

vars == <<incexcdir, called, result>>

Init ==
    /\ incexcdir \in {l \in BoundedSeq(Entry, MaxEntries) : Sorted(l)}
    /\ called = FALSE
    /\ result = [ret |-> 0, startdir |-> <<>>]

Finalise ==
    /\ ~called
    /\ called' = TRUE
    /\ result' = FinaliseStartDirs(incexcdir)
    /\ UNCHANGED incexcdir

Done ==
    /\ called
    /\ UNCHANGED vars

Next == Finalise \/ Done

Spec == Init /\ [][Next]_vars

-----------------------------------------------------------------------------
Includes(l) == {l[i].path : i \in {i \in DOMAIN l : l[i].flag = 1}}

(* Reference definition: the start directories are the included paths   *)
(* that lie inside no other included path, in list order, each once.     *)
Outermost(l) ==
    LET inc == Includes(l)
        top == {p \in inc : ~\E q \in inc : q # p /\ IsSubdir(q, p)}
    IN  SetToSortSeq(top, PathBefore)

(* The list is rejected: a path fails path_checks, or one path is        *)
(* included twice.                                                        *)
Rejected(l) ==
    \/ \E i \in DOMAIN l : ~PathChecks(l[i].path)
    \/ \E i, j \in DOMAIN l : i < j /\ l[i].flag = 1 /\ l[j].flag = 1
                              /\ l[i].path = l[j].path

TypeOK ==
    /\ incexcdir \in Seq(Entry)
    /\ called \in BOOLEAN
    /\ result.ret \in {-1, 0}
    /\ result.startdir \in Seq({p \in Paths : p.abs})

(* finalise_start_dirs, which only compares each include with the most   *)
(* recent start directory and the previous include, computes exactly the *)
(* outermost included directories, and fails exactly for a bad path or a *)
(* duplicate include: the pathcmp order of the list keeps everything      *)
(* inside a directory next to it.                                         *)
StartDirsOutermost ==
    called =>
        /\ (result.ret = -1 <=> Rejected(incexcdir))
        /\ result.ret = 0 => result.startdir = Outermost(incexcdir)

=============================================================================
