----------------------------- MODULE ConfInclude -----------------------------
(***************************************************************************)
(* Loading a configuration file with its include lines: load_conf_lines   *)
(* and the ". file" branch of parse_conf_line (src/src/conf.c 755-820 and  *)
(* 1350-1373).  load_conf_lines reads the file line by line and hands     *)
(* each line to parse_conf_line; a line that fails is reported and makes  *)
(* the result -1, but reading goes on.  An include line calls             *)
(* load_conf_lines recursively on the named file, relative to the         *)
(* directory of the including file unless it is absolute, and fails when *)
(* that call fails.  Each level keeps its FILE open while the included    *)
(* file is read, so fopen fails once MaxOpen files are open; nothing else *)
(* stops an include cycle.                                                 *)
(*                                                                         *)
(* A path is a record: absolute or not, and its components.  A line is a  *)
(* field/value pair, a line conf_get_pair rejects (or an include with no  *)
(* file name), or an include of a path.  The recursion is a stack of       *)
(* frames, one per open file.                                              *)
(***************************************************************************)
EXTENDS Naturals, Sequences, SequencesExt

CONSTANTS
    Root,       \* the path handed to load_conf_lines by the caller
    FilePaths,  \* the paths that may exist as files
    Targets,    \* the paths include lines may name
    MaxLines,   \* lines per file
    MaxOpen     \* conf files fopen can have open at once

Line == [kind : {"pair"}] \cup [kind : {"bad"}] \cup [kind : {"inc"}, to : Targets]

VARIABLES
    present,    \* the files that exist
    text,       \* [FilePaths -> Seq(Line)]: their lines
    stack,      \* one frame per load_conf_lines call: path, line read, ret
    applied,    \* the pairs handed to load_conf_field_and_value, in order
    ret,        \* what the outermost load_conf_lines returned
    done,
    oomed       \* whether an allocation for an include line has failed

vars == <<present, text, stack, applied, ret, done, oomed>>

Exists(p) == p \in present

(* The directory part of conf_path: strrchr(copy, '/') cuts the last      *)
(* component off, and a path without '/' is left whole.                   *)
Dir(p) == IF p.abs \/ Len(p.comps) > 1 THEN Front(p.comps) ELSE p.comps

(* The file an include line of the file cur opens: an absolute name as it *)
(* is, a relative one prepend_s'ed to the directory of cur.               *)
Resolve(cur, x) ==
    IF x.abs THEN x ELSE [abs |-> cur.abs, comps |-> Dir(cur) \o x.comps]

(* fopen(conf_path, "r"): the file exists and a descriptor is free.      *)
(* Variant that allows one more open file than there are descriptors.    *)
CanOpenOffByOne(p) == Exists(p) /\ Len(stack) <= MaxOpen

CanOpen(p) == Exists(p) /\ Len(stack) < MaxOpen

Frame(p) == [path |-> p, pos |-> 0, ret |-> 0]

Init ==
    /\ present \in SUBSET FilePaths
    /\ text \in [FilePaths -> BoundedSeq(Line, MaxLines)]
    /\ \A p \in FilePaths \ present : text[p] = <<>>
    /\ applied = <<>>
    /\ oomed = FALSE
    /\ IF Exists(Root) /\ MaxOpen > 0
       THEN /\ stack = <<Frame(Root)>> /\ ret = 0 /\ done = FALSE
       ELSE /\ stack = <<>> /\ ret = -1 /\ done = TRUE

Top == stack[Len(stack)]
CurLine == text[Top.path][Top.pos + 1]
HasLine == stack # <<>> /\ Top.pos < Len(text[Top.path])

(* Variants: a failed line ends the file ("break" instead of going on),  *)
(* or its failure is not remembered.                                      *)
AdvanceStopOnError(s, r) ==
    [s EXCEPT ![Len(s)].pos = IF r = -1 THEN Len(text[s[Len(s)].path]) ELSE @ + 1,
              ![Len(s)].ret = IF r = -1 THEN -1 ELSE @]

AdvanceIgnoreError(s, r) == [s EXCEPT ![Len(s)].pos = @ + 1]

(* The top frame moves past its line; r is what parse_conf_line returned *)
(* for it, and -1 is remembered in ret (conf_error, then "ret=-1").      *)
Advance(s, r) ==
    [s EXCEPT ![Len(s)].pos = @ + 1,
              ![Len(s)].ret = IF r = -1 THEN -1 ELSE @]

(* A field/value line: conf_get_pair succeeds and the pair is loaded.   *)
PairLine ==
    /\ HasLine /\ CurLine.kind = "pair"
    /\ applied' = Append(applied, <<Top.path, Top.pos + 1>>)
    /\ stack' = Advance(stack, 0)
    /\ UNCHANGED <<present, text, ret, done, oomed>>

(* conf_get_pair (or load_conf_field_and_value) fails, or ". " has no    *)
(* file name: parse_conf_line returns -1 and reading goes on.            *)
BadLine ==
    /\ HasLine /\ CurLine.kind = "bad"
    /\ stack' = Advance(stack, -1)
    /\ UNCHANGED <<present, text, applied, ret, done, oomed>>

(* An allocation for an include line fails: strdup_w of the name or of    *)
(* conf_path returns -1; when prepend_s fails the code logs and goes on   *)
(* with extrafile NULL, and load_conf_lines(NULL) fails in fopen (EFAULT  *)
(* on this build) and returns -1.  Either way the line fails.            *)
(* Variant that lets the failed include pass as if the file were empty.   *)
OnAllocFailureSilent(s) == Advance(s, 0)

OnAllocFailure(s) == Advance(s, -1)

(* ". file": load_conf_lines(extrafile) is entered; when fopen fails it  *)
(* returns -1 at once.                                                    *)
IncludeLine ==
    /\ HasLine /\ CurLine.kind = "inc"
    /\ \/ /\ LET p == Resolve(Top.path, CurLine.to)
             IN  IF CanOpen(p) THEN stack' = Append(stack, Frame(p))
                               ELSE stack' = Advance(stack, -1)
          /\ UNCHANGED oomed
       \/ /\ stack' = OnAllocFailure(stack)
          /\ oomed' = TRUE
    /\ UNCHANGED <<present, text, applied, ret, done>>

(* fgets reaches the end of the file: fclose, and the call returns its   *)
(* ret to the parse_conf_line that included it, or to the caller.         *)
EndOfFile ==
    /\ stack # <<>> /\ ~HasLine
    /\ IF Len(stack) = 1
       THEN /\ ret' = Top.ret /\ done' = TRUE /\ stack' = <<>>
       ELSE /\ stack' = Advance(Front(stack), Top.ret)
            /\ UNCHANGED <<ret, done>>
    /\ UNCHANGED <<present, text, applied, oomed>>

Finished ==
    /\ done
    /\ UNCHANGED vars

Next == PairLine \/ BadLine \/ IncludeLine \/ EndOfFile \/ Finished

Spec == Init /\ [][Next]_vars

-----------------------------------------------------------------------------
(* Reference definitions.  The comment of parse_conf_line: an include is  *)
(* "relative to the directory that the current conf file is in", which   *)
(* for a name without '/' is the current directory.                       *)
DocResolve(cur, x) ==
    IF x.abs THEN x ELSE [abs |-> cur.abs, comps |-> Front(cur.comps) \o x.comps]

(* The pairs of the file at p in document order, each include replaced   *)
(* by the pairs of the included file, while at most MaxOpen files are     *)
(* open (d of them with this one).                                        *)
RECURSIVE Expand(_, _)
Expand(p, d) ==
    IF ~Exists(p) \/ d > MaxOpen THEN <<>>
    ELSE FlattenSeq([i \in DOMAIN text[p] |->
            CASE text[p][i].kind = "pair" -> <<<<p, i>>>>
              [] text[p][i].kind = "inc"  -> Expand(DocResolve(p, text[p][i].to), d + 1)
              [] OTHER                    -> <<>>])

(* Loading p fails: it cannot be opened, or one of its lines fails.       *)
RECURSIVE Fails(_, _)
Fails(p, d) ==
    \/ ~Exists(p) \/ d > MaxOpen
    \/ \E i \in DOMAIN text[p] :
          \/ text[p][i].kind = "bad"
          \/ text[p][i].kind = "inc" /\ Fails(DocResolve(p, text[p][i].to), d + 1)

Frames == [path : FilePaths \cup {Resolve(q, x) : q \in FilePaths, x \in Targets},
           pos : 0 .. MaxLines, ret : {-1, 0}]

TypeOK ==
    /\ present \subseteq FilePaths
    /\ text \in [FilePaths -> BoundedSeq(Line, MaxLines)]
    /\ stack \in BoundedSeq(Frames, MaxOpen)
    /\ ret \in {-1, 0} /\ done \in BOOLEAN /\ oomed \in BOOLEAN

(* Every field/value line of the file and of the files it includes is    *)
(* loaded, once per time it is reached, in document order, and lines     *)
(* after a failing line are still loaded: the recursion of               *)
(* load_conf_lines through parse_conf_line and the resolution of include *)
(* names.  (With an allocation failure the included file is not read.)  *)
AppliedInDocumentOrder == done /\ ~oomed => applied = Expand(Root, 1)

(* The load returns -1 exactly when some line of the file or of an       *)
(* included file fails or an included file cannot be opened, include    *)
(* cycles (which end at the open-file limit) included, or an allocation   *)
(* for an include line failed: a failure deep in the recursion, and the   *)
(* prepend_s failure that goes on with a NULL name, reach the caller.     *)
ErrorIffFailure == done => (ret = -1 <=> Fails(Root, 1) \/ oomed)

=============================================================================
