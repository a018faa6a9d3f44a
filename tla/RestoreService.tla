--------------------------- MODULE RestoreService ---------------------------
(***************************************************************************)
(* What a restore or verify session promises its client, per file of the   *)
(* manifest, without scratch files or delta replay: a restore sends the    *)
(* content the file had at the requested generation, unless the full copy  *)
(* its chain starts from has been damaged on disk; a verify reports a      *)
(* match exactly when that copy is undamaged (or skips the check); a file  *)
(* with no full copy at or above the requested generation is a warning.    *)
(* A session may end early at any point, and the stored backup only       *)
(* changes by disk damage between sessions.                                *)
(*                                                                         *)
(* The data abstraction (versions, generations, encodings) is that of      *)
(* RestoreFile, which implements this specification.                      *)
(***************************************************************************)
EXTENDS Naturals, Sequences, SequencesExt, FiniteSets

CONSTANTS Files, NGen, Actions, MaxSessions, MaxRot

Gens == 0 .. NGen - 1
Version == Files \X Gens
Empty   == <<"empty", -1>>
Garbage == <<"garbage", -1>>
Corrupt == <<"corrupt", -1>>
Missing == <<"absent", -1>>
NoneYet == <<"none", -1>>
Content == Version \cup {Empty, Garbage, Corrupt, Missing}

VARIABLES
    kind, enc,  \* the storage layout, as in RestoreFile
    store,      \* the stored data objects
    phase,      \* "idle" | "busy"
    sessions, act, t,
    todo,       \* the manifest entries not yet dealt with
    got,        \* what the client received for each file
    verdict,    \* what verify reported for each file
    rots

vars == <<kind, enc, store, phase, sessions, act, t, todo, got, verdict, rots>>

Data(ff, g) == IF enc[ff] = "empty_gz" THEN Empty ELSE <<ff, g>>

(* The content ff had at generation g: no object means unchanged since    *)
(* the newer generation.                                                   *)
RECURSIVE ContentAt(_, _)
ContentAt(ff, g) ==
    IF g >= NGen THEN Missing
    ELSE CASE kind[ff][g] = "data"  -> Data(ff, g)
           [] kind[ff][g] = "delta" -> <<ff, g>>
           [] OTHER                 -> ContentAt(ff, g + 1)

(* The generations at or above tg that hold a full copy of ff, and        *)
(* whether the nearest of them is as the backup wrote it.                  *)
Copies(ff, tg) == {g \in Gens : g >= tg /\ kind[ff][g] = "data"}

Undamaged(ff, tg) ==
    \A g \in Copies(ff, tg) :
        (\A h \in Copies(ff, tg) : g <= h) => store[ff][g] = Data(ff, g)

Init ==
    /\ kind \in [Files -> [Gens -> {"data", "delta", "none"}]]
    /\ enc \in [Files -> {"plain", "gz", "empty_gz"}]
    /\ store = [ff \in Files |-> [g \in Gens |-> Data(ff, g)]]
    /\ phase = "idle"
    /\ sessions = 0
    /\ act = CHOOSE a \in Actions : TRUE
    /\ t = 0
    /\ todo = <<>>
    /\ got = [ff \in Files |-> NoneYet]
    /\ verdict = [ff \in Files |-> "none"]
    /\ rots = 0

Start ==
    /\ phase = "idle" /\ sessions < MaxSessions
    /\ sessions' = sessions + 1
    /\ \E a \in Actions, tg \in Gens, s \in SetToAllKPermutations(Files) :
           act' = a /\ t' = tg /\ todo' = s
    /\ phase' = "busy"
    /\ got' = [ff \in Files |-> NoneYet]
    /\ verdict' = [ff \in Files |-> "none"]
    /\ UNCHANGED <<kind, enc, store, rots>>

NotFound ==
    /\ phase = "busy" /\ todo # <<>>
    /\ Copies(Head(todo), t) = {}
    /\ verdict' = [verdict EXCEPT ![Head(todo)] = "notfound"]
    /\ todo' = Tail(todo)
    /\ UNCHANGED <<kind, enc, store, phase, sessions, act, t, got, rots>>

Send ==
    /\ phase = "busy" /\ todo # <<>> /\ act = "restore"
    /\ LET ff == Head(todo) IN
       /\ Copies(ff, t) # {}
       /\ \E c \in IF Undamaged(ff, t) THEN {ContentAt(ff, t)} ELSE Content :
              got' = [got EXCEPT ![ff] = c]
    /\ todo' = Tail(todo)
    /\ UNCHANGED <<kind, enc, store, phase, sessions, act, t, verdict, rots>>

Verify ==
    /\ phase = "busy" /\ todo # <<>> /\ act = "verify"
    /\ LET ff == Head(todo) IN
       /\ Copies(ff, t) # {}
       /\ \E v \in {"nosum", "readerror",
                    IF Undamaged(ff, t) THEN "match" ELSE "mismatch"} :
              verdict' = [verdict EXCEPT ![ff] = v]
    /\ todo' = Tail(todo)
    /\ UNCHANGED <<kind, enc, store, phase, sessions, act, t, got, rots>>

(* The session ends: the manifest is done, or a fatal error.              *)
Stop ==
    /\ phase = "busy"
    /\ phase' = "idle" /\ todo' = <<>>
    /\ UNCHANGED <<kind, enc, store, sessions, act, t, got, verdict, rots>>

Rot ==
    /\ phase = "idle" /\ rots < MaxRot
    /\ \E ff \in Files, g \in Gens :
           /\ kind[ff][g] = "data" /\ enc[ff] # "empty_gz"
           /\ store[ff][g] = Data(ff, g)
           /\ store' = [store EXCEPT ![ff][g] = Corrupt]
    /\ rots' = rots + 1
    /\ UNCHANGED <<kind, enc, phase, sessions, act, t, todo, got, verdict>>

Next == Start \/ NotFound \/ Send \/ Verify \/ Stop \/ Rot

Spec == Init /\ [][Next]_vars

=============================================================================
