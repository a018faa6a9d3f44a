---------------------------- MODULE RestoreFile ----------------------------
(***************************************************************************)
(* Reconstruction of one backed-up file's content by the burp1 server      *)
(* restore (src/src/server/burp1/restore.c): restore_file walks the        *)
(* generation list from the requested backup towards newer ones until it   *)
(* finds the full ("data") copy, walks back applying every reverse delta   *)
(* down to and including the requested backup, using two session-wide     *)
(* scratch files tmp1/tmp2, then send_file or verify_file consumes the     *)
(* result.  Several files are restored per session, and sessions follow   *)
(* one another on the same client directory, so the scratch files persist *)
(* on disk across files and across sessions.                               *)
(*                                                                         *)
(* Generations are indices 0..NGen-1 of the struct bu list: b->next of     *)
(* generation g is g+1 (newer), b->prev is g-1.  A file's content is a     *)
(* version <<f, g>> (the content written at generation g); the stored      *)
(* objects are abstracted to which version they hold.                      *)
(***************************************************************************)
EXTENDS Naturals, Sequences, SequencesExt, FiniteSets

CONSTANTS
    Files,        \* datapaths of the files in the manifests (model values)
    NGen,         \* number of backup generations in the bu list
    Actions,      \* the actions a session may be started with
    MaxSessions,  \* bound on the number of restore sessions
    MaxRot        \* bound on stored objects damaged by the disk

Gens == 0 .. NGen - 1
Slots == {1, 2}                      \* tmppath1, tmppath2
Path == 0                            \* best is the data file itself

ASSUME NGen \in Nat \ {0}
ASSUME Actions \subseteq {"restore", "verify"} /\ Actions # {}

(* What b->data/datapth and b->delta/datapth hold for a file at a         *)
(* generation: a regular data file, a regular delta file, or neither.     *)
Kinds == {"data", "delta", "none"}
(* How the file's data objects are stored: uncompressed, gzipped, or a    *)
(* zero-length file that dpthl_is_compressed says is compressed.          *)
Encodings == {"plain", "gz", "empty_gz"}

(* Contents are pairs so that TLC can compare any two of them: a version  *)
(* <<f, g>> is the content of f written at generation g.                  *)
Version == Files \X Gens
Empty   == <<"empty", -1>>       \* a zero-length file
Garbage == <<"garbage", -1>>     \* a delta applied to the wrong basis
Corrupt == <<"corrupt", -1>>     \* damaged on disk
Missing == <<"absent", -1>>      \* no such object
NoneYet == <<"none", -1>>        \* nothing sent for the file yet
Content == Version \cup {Empty, Garbage, Corrupt, Missing}
SlotVal == [kind : {"absent"}] \cup [kind : {"link"}, f : Files, g : Gens]
             \cup [kind : {"own"}, c : Content]
Absent == [kind |-> "absent"]

VARIABLES
    kind,       \* [Files -> [Gens -> Kinds]]: the storage layout
    enc,        \* [Files -> Encodings]
    store,      \* [Files -> [Gens -> Content]]: bytes of the data objects
    slot,       \* [Slots -> SlotVal]: tmp1/tmp2 on disk
    phase,      \* "idle" | "next" (between entries) | "delta" (in restore_file)
    sessions,   \* sessions started
    act,        \* ACTION_RESTORE or ACTION_VERIFY of this session
    t,          \* the requested generation (bu)
    todo,       \* manifest entries still to restore in this session
    f,          \* the file being restored
    base,       \* the generation where the data file was found
    cur,        \* b in the delta loop
    best,       \* Path (the data file itself) or the slot holding it
    tmp,        \* the slot the next inflate or patch writes
    patches,    \* deltas applied to this file
    got,        \* [Files -> Content \cup {NoneYet}]: what send_file sent
    verdict,    \* [Files -> verify outcome]
    cntrBytes,  \* files whose declared size went to cntr_add_bytes
    sentBytes,  \* files whose read bytes went to cntr_add_sentbytes
    abortCause, \* why the last session ended, "none" if it completed
    rots        \* stored objects damaged so far

storage == <<kind, enc>>
fileVars == <<f, base, cur, best, tmp, patches>>
vars == <<kind, enc, store, slot, phase, sessions, act, t, todo, fileVars,
          got, verdict, cntrBytes, sentBytes, abortCause, rots>>

(* Variant of Other that toggles to a slot that does not exist.          *)
OtherWrongToggle(s) == IF s = 1 THEN 2 ELSE 3

Other(s) == IF s = 1 THEN 2 ELSE 1

(* The content of the data object of ff at generation g when written.     *)
Data(ff, g) == IF enc[ff] = "empty_gz" THEN Empty ELSE <<ff, g>>

(* The content ff had when generation g was backed up: no object at g     *)
(* means the file was unchanged since the newer generation g+1.           *)
RECURSIVE TrueContent(_, _)
TrueContent(ff, g) ==
    IF g >= NGen THEN Missing
    ELSE CASE kind[ff][g] = "data"  -> Data(ff, g)
           [] kind[ff][g] = "delta" -> <<ff, g>>
           [] OTHER                 -> TrueContent(ff, g + 1)

(* librsync: a reverse delta of generation g turns the content of g+1     *)
(* into the content of g; any other basis yields garbage.                 *)
Patch(x, ff, g) == IF x = TrueContent(ff, g + 1) THEN <<ff, g>> ELSE Garbage

(* The bytes behind a slot: a hard link reads the stored object.          *)
SlotContent(s) ==
    CASE slot[s].kind = "link" -> store[slot[s].f][slot[s].g]
      [] slot[s].kind = "own"  -> slot[s].c
      [] OTHER                 -> Missing

(* The bytes at best, which is the data file itself or a scratch slot.    *)
ReadBest == IF best = Path THEN store[f][base] ELSE SlotContent(best)

(* The first generation at or above tg holding a data file, as the loop   *)
(* "for(b=bu; b; b=b->next)" with the lstat/S_ISREG test finds it.        *)
(* Variant that starts the search at bu->next.                            *)
FindBaseFromNext(ff, tg) ==
    LET found == {g \in tg + 1 .. NGen - 1 : kind[ff][g] = "data"}
    IN  IF found = {} THEN -1 ELSE CHOOSE g \in found : \A h \in found : g <= h

FindBase(ff, tg) ==
    LET found == {g \in tg .. NGen - 1 : kind[ff][g] = "data"}
    IN  IF found = {} THEN -1 ELSE CHOOSE g \in found : \A h \in found : g <= h

(* Reference definition of the reconstruction from what is on disk now:   *)
(* the data file, then every delta from base-1 down to tg in turn.        *)
RECURSIVE Replay(_, _, _, _)
Replay(ff, g, x, tg) ==
    IF g < tg THEN x
    ELSE Replay(ff, g - 1,
                IF kind[ff][g] = "delta" THEN Patch(x, ff, g) ELSE x, tg)

ChainResult(ff, tg) ==
    LET k == FindBase(ff, tg) IN Replay(ff, k - 1, store[ff][k], tg)

-----------------------------------------------------------------------------
Init ==
    /\ kind \in [Files -> [Gens -> Kinds]]
    /\ enc \in [Files -> Encodings]
    /\ store = [ff \in Files |-> [g \in Gens |-> Data(ff, g)]]
    /\ slot = [s \in Slots |-> Absent]
    /\ phase = "idle"
    /\ sessions = 0
    /\ act = CHOOSE a \in Actions : TRUE
    /\ t = 0
    /\ todo = <<>>
    /\ f = CHOOSE ff \in Files : TRUE
    /\ base = 0 /\ cur = 0 /\ best = Path /\ tmp = 1
    /\ patches = 0
    /\ got = [ff \in Files |-> NoneYet]
    /\ verdict = [ff \in Files |-> "none"]
    /\ cntrBytes = {} /\ sentBytes = {}
    /\ abortCause = "none"
    /\ rots = 0

(* restore_burp1 is entered for a new restore or verify request: its own  *)
(* counters, the chosen backup and the entries that pass the filters.     *)
StartSession ==
    /\ phase = "idle"
    /\ sessions < MaxSessions
    /\ sessions' = sessions + 1
    /\ \E a \in Actions, tg \in Gens, s \in SetToAllKPermutations(Files) :
           /\ act' = a /\ t' = tg /\ todo' = s
    /\ phase' = "next"
    /\ got' = [ff \in Files |-> NoneYet]
    /\ verdict' = [ff \in Files |-> "none"]
    /\ cntrBytes' = {} /\ sentBytes' = {}
    /\ abortCause' = "none"
    /\ UNCHANGED <<storage, store, slot, fileVars, rots>>

(* A fatal error: restore_file returns -1, restore_ent and restore_burp1  *)
(* goto end; nothing on disk is cleaned up.                               *)
Abort(cause) ==
    /\ phase' = "idle"
    /\ abortCause' = cause
    /\ todo' = <<>>

(* restore_sbufl for a file entry, then the search of restore_file.       *)
(* Writing the datapth and attr frames may fail (fatal).  A file found in *)
(* no generation is a warning and the loop goes on with the next entry.   *)
RestoreSbufl ==
    /\ phase = "next"
    /\ todo # <<>>
    /\ LET ff == Head(todo)
           k == FindBase(ff, t)
       IN \/ /\ Abort("write")
             /\ UNCHANGED <<fileVars, got, verdict, cntrBytes, sentBytes>>
          \/ /\ k = -1
             /\ todo' = Tail(todo)
             /\ verdict' = [verdict EXCEPT ![ff] = "notfound"]
             /\ UNCHANGED <<phase, fileVars, got, cntrBytes, sentBytes,
                            abortCause>>
          \/ /\ k # -1
             /\ phase' = "delta"
             /\ todo' = Tail(todo)
             /\ f' = ff /\ base' = k /\ cur' = k - 1
             /\ best' = Path /\ tmp' = 1 /\ patches' = 0
             /\ UNCHANGED <<got, verdict, cntrBytes, sentBytes, abortCause>>
    /\ UNCHANGED <<storage, store, slot, sessions, act, t, rots>>

(* The delta loop "for(b=b->prev; b && b->next!=bu; b=b->prev)" is still *)
(* running: b has not gone below bu.                                      *)
(* Variant that stops before bu, as "b!=bu" would.                        *)
DeltaLoopAtAboveBu == cur > t

DeltaLoopAt == cur >= t

(* "continue" of the delta loop: no regular delta file at b.              *)
SkipGen ==
    /\ phase = "delta"
    /\ DeltaLoopAt
    /\ kind[f][cur] # "delta"
    /\ cur' = cur - 1
    /\ UNCHANGED <<storage, store, slot, phase, sessions, act, t, todo,
                   f, base, best, tmp, patches, got, verdict,
                   cntrBytes, sentBytes, abortCause, rots>>

(* inflate_or_link_oldfile(best, tmp) before the first patch.  A gzipped  *)
(* base is inflated into a new tmp; a zero-length one is recreated by     *)
(* open_file(tmp, "wb"), which truncates tmp in place, and through a hard *)
(* link whatever it is linked to; an uncompressed one is hard linked over *)
(* tmp.  Any failure is fatal.                                            *)
(* Variant of InflateSlot that does not create the zero-length file.     *)
InflateSlotNoCreate(s) ==
    CASE enc[f] = "gz"   -> [slot EXCEPT ![s] = [kind |-> "own", c |-> ReadBest]]
      [] enc[f] = "plain" -> [slot EXCEPT ![s] = [kind |-> "link", f |-> f,
                                                 g |-> base]]
      [] OTHER -> slot

InflateSlot(s) ==
    CASE enc[f] = "gz"   -> [slot EXCEPT ![s] = [kind |-> "own", c |-> ReadBest]]
      [] enc[f] = "plain" -> [slot EXCEPT ![s] = [kind |-> "link", f |-> f,
                                                 g |-> base]]
      [] OTHER ->
           IF slot[s].kind = "link" THEN slot
           ELSE [slot EXCEPT ![s] = [kind |-> "own", c |-> Empty]]

InflateStore(s) ==
    IF enc[f] = "empty_gz" /\ slot[s].kind = "link"
    THEN [store EXCEPT ![slot[s].f][slot[s].g] = Empty]
    ELSE store

InflateOrLink ==
    /\ phase = "delta"
    /\ DeltaLoopAt
    /\ kind[f][cur] = "delta"
    /\ patches = 0 /\ best = Path
    /\ \/ /\ slot' = InflateSlot(tmp)
          /\ store' = InflateStore(tmp)
          /\ best' = tmp /\ tmp' = Other(tmp)
          /\ UNCHANGED <<phase, todo, abortCause>>
       \/ /\ Abort("inflate")
          /\ UNCHANGED <<store, slot, best, tmp>>
    /\ UNCHANGED <<storage, sessions, act, t, f, base, cur, patches,
                   got, verdict, cntrBytes, sentBytes, rots>>

(* do_patch(best, delta, tmp) writes an uncompressed result into tmp;     *)
(* then best=tmp, tmp swaps and the old best is unlinked.  A failed patch *)
(* is fatal and leaves both slots as they are.                            *)
(* Variant of PatchSlots without the unlink(tmp) of the old best.        *)
PatchSlotsNoUnlink(s) ==
    [slot EXCEPT ![s] = [kind |-> "own", c |-> Patch(ReadBest, f, cur)]]

PatchSlots(s) ==
    [slot EXCEPT ![s] = [kind |-> "own", c |-> Patch(ReadBest, f, cur)],
                 ![Other(s)] = Absent]

DoPatch ==
    /\ phase = "delta"
    /\ DeltaLoopAt
    /\ kind[f][cur] = "delta"
    /\ best # Path
    /\ \/ /\ slot' = PatchSlots(tmp)
          /\ best' = tmp /\ tmp' = Other(tmp)
          /\ patches' = patches + 1
          /\ cur' = cur - 1
          /\ UNCHANGED <<phase, todo, abortCause>>
       \/ /\ Abort("patch")
          /\ UNCHANGED <<slot, best, tmp, patches, cur>>
    /\ UNCHANGED <<storage, store, sessions, act, t, f, base, got, verdict,
                   cntrBytes, sentBytes, rots>>

(* restore_file adds the entry and its declared size (from the end       *)
(* marker) to the counters whenever send_file or verify_file returns 0.   *)
CountEntry(ff) == cntrBytes \cup {ff}

(* ACTION_RESTORE: send_file streams best (gzipping it on the way when it *)
(* is not compressed) and the caller adds the counters.  Opening or       *)
(* writing may fail (fatal).                                              *)
SendFile ==
    /\ phase = "delta" /\ ~DeltaLoopAt /\ act = "restore"
    /\ \/ /\ got' = [got EXCEPT ![f] = ReadBest]
          /\ cntrBytes' = CountEntry(f)
          /\ sentBytes' = sentBytes \cup {f}
          /\ phase' = "next"
          /\ UNCHANGED <<todo, abortCause>>
       \/ /\ Abort("send")
          /\ UNCHANGED <<got, cntrBytes, sentBytes>>
    /\ UNCHANGED <<storage, store, slot, sessions, act, t, fileVars, verdict,
                   rots>>

(* ACTION_VERIFY: verify_file.  No md5sum in the end marker, or an open   *)
(* or read error, is a warning and returns 0; an MD5 engine failure or a  *)
(* failed write of the path is fatal; otherwise the digest of best is     *)
(* compared with the one recorded when the backup was made, and only a    *)
(* match adds the read bytes.  On every return 0 restore_file adds the    *)
(* entry and its declared size to the counters.                           *)
(* Variant of VerifyOutcomes with the result of strcmp read the wrong way. *)
VerifyOutcomesInverted ==
    {"nosum", "readerror",
     IF ReadBest # TrueContent(f, t) THEN "match" ELSE "mismatch"}

VerifyOutcomes ==
    {"nosum", "readerror",
     IF ReadBest = TrueContent(f, t) THEN "match" ELSE "mismatch"}

VerifyFile ==
    /\ phase = "delta" /\ ~DeltaLoopAt /\ act = "verify"
    /\ \/ /\ \E v \in VerifyOutcomes :
                 /\ verdict' = [verdict EXCEPT ![f] = v]
                 /\ sentBytes' = IF v = "match" THEN sentBytes \cup {f}
                                 ELSE sentBytes
          /\ cntrBytes' = CountEntry(f)
          /\ phase' = "next"
          /\ UNCHANGED <<todo, abortCause>>
       \/ /\ Abort("verify")
          /\ UNCHANGED <<verdict, cntrBytes, sentBytes>>
    /\ UNCHANGED <<storage, store, slot, sessions, act, t, fileVars, got,
                   rots>>

(* End of the manifest: restore_end, counters printed, process exits.     *)
EndSession ==
    /\ phase = "next"
    /\ todo = <<>>
    /\ phase' = "idle"
    /\ UNCHANGED <<storage, store, slot, sessions, act, t, todo, fileVars,
                   got, verdict, cntrBytes, sentBytes, abortCause, rots>>

(* The disk damages a stored data object between two sessions (what       *)
(* verify exists to detect).                                              *)
Rot ==
    /\ phase = "idle"
    /\ rots < MaxRot
    /\ \E ff \in Files, g \in Gens :
           /\ kind[ff][g] = "data" /\ enc[ff] # "empty_gz"
           /\ store[ff][g] = Data(ff, g)
           /\ store' = [store EXCEPT ![ff][g] = Corrupt]
    /\ rots' = rots + 1
    /\ UNCHANGED <<storage, slot, phase, sessions, act, t, todo, fileVars,
                   got, verdict, cntrBytes, sentBytes, abortCause>>

(* All sessions of the model have run.                                    *)
Finished ==
    /\ phase = "idle" /\ sessions = MaxSessions
    /\ UNCHANGED vars

Next ==
    \/ StartSession \/ RestoreSbufl \/ SkipGen \/ InflateOrLink \/ DoPatch
    \/ SendFile \/ VerifyFile \/ EndSession \/ Rot \/ Finished

Spec == Init /\ [][Next]_vars

-----------------------------------------------------------------------------
TypeOK ==
    /\ kind \in [Files -> [Gens -> Kinds]]
    /\ enc \in [Files -> Encodings]
    /\ store \in [Files -> [Gens -> Content]]
    /\ slot \in [Slots -> SlotVal]
    /\ phase \in {"idle", "next", "delta"}
    /\ sessions \in 0 .. MaxSessions
    /\ act \in Actions /\ t \in Gens
    /\ f \in Files /\ base \in Gens /\ cur \in -1 .. NGen - 1
    /\ best \in Slots \cup {Path} /\ tmp \in Slots
    /\ patches \in 0 .. NGen
    /\ got \in [Files -> Content \cup {NoneYet}]
    /\ verdict \in [Files -> {"none", "notfound", "nosum", "readerror",
                              "match", "mismatch"}]
    /\ cntrBytes \subseteq Files /\ sentBytes \subseteq Files
    /\ rots \in 0 .. MaxRot

(* What send_file streams for a file is exactly the reconstruction of its *)
(* chain from what is on disk at that moment: no bytes of an earlier file *)
(* (or an earlier session) left in tmp1/tmp2 reach the client.  This is   *)
(* about the reuse of the static tmppath1/tmppath2 in restore_file.       *)
NoStaleScratch ==
    [][act = "restore" /\ phase = "delta" /\ phase' = "next"
         => got'[f] = ChainResult(f, t)]_vars

(* Verify reports a mismatch exactly when the chain on disk no longer     *)
(* reconstructs what was backed up: a damaged data object is detected and *)
(* an intact chain is never reported as damaged.  This is about the       *)
(* digest verify_file computes over best after restore_file's replay.     *)
VerifyDetectsDamage ==
    [][act = "verify" /\ phase = "delta" /\ phase' = "next"
       /\ verdict'[f] \in {"match", "mismatch"}
         => (verdict'[f] = "match" <=> ChainResult(f, t) = TrueContent(f, t))]_vars

(* Restoring never changes the stored backup: every data object still    *)
(* holds what the backup wrote (or what the disk did to it).  The         *)
(* uncompressed base is hard linked into tmp1 by inflate_or_link_oldfile, *)
(* so any later write into tmp1 that does not replace the file writes the *)
(* stored object.                                                         *)
StoredDataIntact ==
    \A ff \in Files, g \in Gens :
        kind[ff][g] = "data" => store[ff][g] \in {Data(ff, g), Corrupt}

(* The spec (4.3, 7) says a failed patch application skips the file with *)
(* a warning and the restore goes on; restore_file returns -1 when         *)
(* do_patch fails (309), and restore_ent and restore_burp1 then end the   *)
(* whole session.  A failed inflate_or_link_oldfile is left out: it lumps *)
(* scratch-file I/O (lstat, open_file, do_link), which spec 7 calls       *)
(* fatal, with the decompression.                                         *)
PatchFailureRecoverable == abortCause # "patch"

-----------------------------------------------------------------------------
(* Refinement mapping to RestoreService: the session is busy between      *)
(* restore_burp1's start and end, and the file restore_file is working on *)
(* is still pending until send_file or verify_file is done with it.       *)
(* Search, inflate, link and patch steps are stuttering steps of the       *)
(* abstract specification.                                                 *)
phaseBar == IF phase = "idle" THEN "idle" ELSE "busy"
todoBar  == IF phase = "delta" THEN <<f>> \o todo ELSE todo

Service == INSTANCE RestoreService WITH phase <- phaseBar, todo <- todoBar

(* restore_burp1 with restore_file implements the promise of a restore    *)
(* session: every file is sent with the content it had at the requested   *)
(* generation unless its full copy was damaged on disk, verify says match *)
(* exactly for undamaged copies, the stored backup changes only by disk   *)
(* damage, and a file is reported missing only when no generation at or   *)
(* above bu holds a full copy.                                             *)
ImplementsService == Service!Spec

=============================================================================
