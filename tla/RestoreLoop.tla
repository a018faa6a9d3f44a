---------------------------- MODULE RestoreLoop ----------------------------
(***************************************************************************)
(* The burp1 server restore loop (restore_burp1, restore_ent and the       *)
(* final flush in src/src/server/burp1/restore.c).  Each iteration first   *)
(* polls the client without blocking (read_quick) for a warning or an      *)
(* interrupt, then reads the next manifest entry (sbufl_fill), applies the *)
(* srestore and regex filters and hands the entry to restore_ent.          *)
(* restore_ent first restores every deferred directory that the entry is  *)
(* not inside of, from the top of sblist down, then defers the entry if it *)
(* is a directory and restores it at once otherwise.  At the end of the    *)
(* manifest the remaining directories are restored deepest first.          *)
(*                                                                         *)
(* Restoring one entry (restore_sbufl, and restore_file for file data) is  *)
(* atomic here: it either succeeds or is a fatal error; RestoreFile        *)
(* models what happens inside it.                                          *)
(***************************************************************************)
EXTENDS Naturals, Sequences, SequencesExt, FiniteSets

CONSTANTS
    Paths,      \* the paths an entry may have: sequences of components
    MaxFrames   \* bound on warning and interrupt frames the client sends

ASSUME Paths \subseteq Seq(Nat) /\ <<>> \notin Paths
ASSUME MaxFrames \in Nat

(* A manifest entry: its path, whether its stat says directory           *)
(* (S_ISDIR(statp.st_mode), true for directory metadata entries too), and *)
(* its position in the manifest to tell equal entries apart.              *)
Entry == [path : Paths, dir : BOOLEAN, idx : Nat]
DirEntry == {e \in Entry : e.dir}

(* How a path appears in a manifest: not at all, as a file or other       *)
(* non-directory, as a directory, or as a directory followed by a         *)
(* metadata entry for the same directory.                                 *)
Shapes == {"none", "file", "dir", "dirmeta"}

(* The manifest order (pathcmp): component by component, a path before   *)
(* everything inside it.                                                  *)
RECURSIVE PathBefore(_, _)
PathBefore(p, q) ==
    CASE p = <<>> -> q # <<>>
      [] q = <<>> -> FALSE
      [] OTHER    -> Head(p) < Head(q)
                     \/ (Head(p) = Head(q) /\ PathBefore(Tail(p), Tail(q)))

(* The manifest a backup writes for a choice of shapes, in path order.    *)
ManifestOf(shape) ==
    LET present == {p \in Paths : shape[p] # "none"}
        sorted  == SetToSortSeq(present, PathBefore)
        perPath(p) ==
            CASE shape[p] = "file"    -> <<[path |-> p, dir |-> FALSE]>>
              [] shape[p] = "dir"     -> <<[path |-> p, dir |-> TRUE]>>
              [] OTHER                -> <<[path |-> p, dir |-> TRUE],
                                           [path |-> p, dir |-> TRUE]>>
        flat == FlattenSeq([i \in DOMAIN sorted |-> perPath(sorted[i])])
    IN  [i \in DOMAIN flat |-> [path |-> flat[i].path, dir |-> flat[i].dir,
                                idx |-> i]]

(* is_subdir(dir, path): path is dir or lies inside it.                   *)

IsSubdir(dir, p) == IsPrefix(dir, p)

VARIABLES
    manifest,   \* the manifest being restored
    pass,       \* the paths that pass check_srestore and check_regex
    pos,        \* entries read so far by sbufl_fill
    sb,         \* the entry restore_ent is working on
    sblist,     \* directories waiting to be restored (sblist[0..scount-1])
    restored,   \* entries restored, in the order restore_sbufl ran
    frames,     \* warning and interrupt frames received
    status      \* "poll" | "read" | "ent" | "flush" | "done" | "error"

vars == <<manifest, pass, pos, sb, sblist, restored, frames, status>>

-----------------------------------------------------------------------------
Init ==
    /\ \E shape \in [Paths -> Shapes] : manifest = ManifestOf(shape)
    /\ pass \in SUBSET Paths
    /\ pos = 0
    /\ sb = [path |-> CHOOSE p \in Paths : TRUE, dir |-> FALSE, idx |-> 0]
    /\ sblist = <<>>
    /\ restored = <<>>
    /\ frames = 0
    /\ status = "poll"

(* Restore one entry with restore_sbufl: it succeeds, or a write or       *)
(* restore_file fails and the session ends.                               *)
RestoreSbufl(e, ok) ==
    IF ok THEN restored' = Append(restored, e) ELSE restored' = restored

(* read_quick at the top of the loop.  A warning is logged and counted,  *)
(* an interrupt ignored, and both "continue" to the next poll; any other *)
(* frame, or a read error, ends the session; no frame goes on to read    *)
(* the manifest.                                                          *)
ReadQuick ==
    /\ status = "poll"
    /\ \/ /\ frames < MaxFrames
          /\ frames' = frames + 1
          /\ status' = "poll"
       \/ /\ status' = "error"
          /\ frames' = frames
       \/ /\ status' = "read"
          /\ frames' = frames
    /\ UNCHANGED <<manifest, pass, pos, sb, sblist, restored>>

(* An entry that fails the filters is freed and the loop "continue"s; the *)
(* next sbufl_fill reads past it.  Variant that stays on the same record, *)
(* as a continue that skips the advance would.                            *)
SkipEntryNoAdvance == pos' = pos

SkipEntry == pos' = pos + 1

(* sbufl_fill: the end of the manifest leaves the loop, a corrupt record *)
(* is fatal, and an entry is restored only if it passes the filters.      *)
ReadEntry ==
    /\ status = "read"
    /\ \/ /\ pos = Len(manifest)
          /\ status' = "flush"
          /\ UNCHANGED <<pos, sb>>
       \/ /\ status' = "error"
          /\ UNCHANGED <<pos, sb>>
       \/ /\ pos < Len(manifest)
          /\ manifest[pos + 1].path \in pass
          /\ pos' = pos + 1
          /\ sb' = manifest[pos + 1]
          /\ status' = "ent"
       \/ /\ pos < Len(manifest)
          /\ manifest[pos + 1].path \notin pass
          /\ SkipEntry
          /\ sb' = manifest[pos + 1]
          /\ status' = "poll"
    /\ UNCHANGED <<manifest, pass, sblist, restored, frames>>

(* The deferred directory on top of sblist is one sb is not inside of.   *)
(* Variant with the arguments of is_subdir the other way round.           *)
TopDoneSwapped == sblist # <<>> /\ ~IsSubdir(sb.path, Last(sblist).path)

TopDone == sblist # <<>> /\ ~IsSubdir(Last(sblist).path, sb.path)

(* One turn of the loop over sblist in restore_ent: the top directory is *)
(* restored and removed (del_from_sbufl_arr) when sb is not inside it.   *)
PopDir ==
    /\ status = "ent"
    /\ TopDone
    /\ \E ok \in BOOLEAN :
           /\ RestoreSbufl(Last(sblist), ok)
           /\ sblist' = IF ok THEN Front(sblist) ELSE sblist
           /\ status' = IF ok THEN "ent" ELSE "error"
    /\ UNCHANGED <<manifest, pass, pos, sb, frames>>

(* S_ISDIR(statp.st_mode): the entry is deferred.                        *)
(* Variants: every entry deferred, or no entry deferred.                  *)
DeferredAll(e) == TRUE
DeferredNone(e) == FALSE

Deferred(e) == e.dir

(* The loop stopped (sblist empty, or sb is inside its top): a directory *)
(* is added to sblist to be restored later, anything else restored now.  *)
PlaceEntry ==
    /\ status = "ent"
    /\ ~TopDone
    /\ \/ /\ Deferred(sb)
          /\ sblist' = Append(sblist, sb)
          /\ status' = "poll"
          /\ restored' = restored
       \/ /\ ~Deferred(sb)
          /\ \E ok \in BOOLEAN :
                 /\ RestoreSbufl(sb, ok)
                 /\ status' = IF ok THEN "poll" ELSE "error"
          /\ sblist' = sblist
    /\ UNCHANGED <<manifest, pass, pos, sb, frames>>

(* The final loop "for(s=scount-1; s>=0; s--)" has run out.               *)
(* Variant that stops one short, as "s>0" would.                          *)
FlushOverOffByOne == Len(sblist) <= 1

FlushOver == sblist = <<>>

(* After the loop: the final loop restores what is left, deepest first.  *)
FlushDir ==
    /\ status = "flush"
    /\ ~FlushOver
    /\ \E ok \in BOOLEAN :
           /\ RestoreSbufl(Last(sblist), ok)
           /\ sblist' = IF ok THEN Front(sblist) ELSE sblist
           /\ status' = IF ok THEN "flush" ELSE "error"
    /\ UNCHANGED <<manifest, pass, pos, sb, frames>>

(* restore_end tells the client the restore is over; it may fail.        *)
RestoreEnd ==
    /\ status = "flush"
    /\ FlushOver
    /\ status' \in {"done", "error"}
    /\ UNCHANGED <<manifest, pass, pos, sb, sblist, restored, frames>>

(* The session is over.                                                   *)
Stopped ==
    /\ status \in {"done", "error"}
    /\ UNCHANGED vars

Next ==
    \/ ReadQuick \/ ReadEntry \/ PopDir \/ PlaceEntry \/ FlushDir
    \/ RestoreEnd \/ Stopped

Spec == Init /\ [][Next]_vars
FairSpec == Spec /\ WF_vars(Next)

-----------------------------------------------------------------------------
TypeOK ==
    /\ manifest \in Seq(Entry)
    /\ pass \subseteq Paths
    /\ pos \in 0 .. Len(manifest)
    /\ sb \in Entry
    /\ sblist \in Seq(DirEntry)
    /\ restored \in Seq(Entry)
    /\ frames \in 0 .. MaxFrames
    /\ status \in {"poll", "read", "ent", "flush", "done", "error"}

(* Directory permissions and times come out right: no directory is       *)
(* restored before an entry that lies strictly inside it.  This is the   *)
(* purpose of the sblist deferral in restore_ent and of the final flush. *)
DirsAfterContents ==
    \A i, j \in DOMAIN restored :
        /\ restored[i].dir
        /\ IsStrictPrefix(restored[i].path, restored[j].path)
        => j < i

(* A restore that completes has restored every manifest entry that       *)
(* passes the filters exactly once, deferred directories included.       *)
EveryEntryOnce ==
    status = "done" =>
        /\ ToSet(restored) = {manifest[i] : i \in {i \in DOMAIN manifest :
                                               manifest[i].path \in pass}}
        /\ Len(restored) = Cardinality(ToSet(restored))

(* The session always ends, completed or failed, once the client stops   *)
(* sending warnings: the only loop that does not consume the manifest is *)
(* the read_quick "continue".                                             *)
Terminates == <>(status \in {"done", "error"})

=============================================================================
