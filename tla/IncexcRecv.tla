----------------------------- MODULE IncexcRecv -----------------------------
(***************************************************************************)
(* Receiving an include/exclude (or srestore) list from the peer and       *)
(* parsing it back: incexc_recv and add_to_incexc                          *)
(* (src/src/incexc_recv.c) followed by conf_parse_incexcs_buf              *)
(* (src/src/conf.c 1375-1406).  incexc_recv answers the request, then      *)
(* simple_loop hands every frame to incexc_recv_func, which appends it to  *)
(* the buffer (with a '\n' before it unless the buffer is still NULL)      *)
(* until the end request arrives and is answered; a final "\n" is added.   *)
(* conf_parse_incexcs_buf splits the buffer with strtok at '\n' and hands  *)
(* each token to parse_conf_line, stopping at the first that fails.        *)
(*                                                                         *)
(* A frame is a short sequence of characters: "x" for a character of a     *)
(* line that parses, "y" for one of a line that does not, and NL.          *)
(***************************************************************************)
EXTENDS Naturals, Sequences, SequencesExt

CONSTANTS
    MaxFrames,  \* data frames the peer sends before the end request
    FrameLen,   \* longest data frame
    Leftovers   \* what *incexc may hold when incexc_recv is called

NL == "\n"
Frame == BoundedSeq({"x", "y", NL}, FrameLen)
Null == <<"NULL">>              \* *incexc == NULL

VARIABLES
    peer,       \* the frames the peer sends, in order
    got,        \* frames read so far
    lost,       \* whether the connection breaks after them (no end request)
    pc,         \* "start" | "loop" | "parse" | "done"
    incexc,     \* the buffer, or Null
    recvRet,    \* what incexc_recv returned
    copied,     \* whether strdup_w of the buffer succeeded
    seen,       \* the tokens handed to parse_conf_line, in order
    parseRet    \* what conf_parse_incexcs_buf returned

vars == <<peer, got, lost, pc, incexc, recvRet, copied, seen, parseRet>>

(* add_to_incexc(incexc, src): prepend(old, src, sep) is old, sep, src;  *)
(* old is "" and sep "" while the buffer is NULL, sep "\n" after.        *)
(* Variants: the separator never put in, or the NULL buffer printed as   *)
(* "(null)" instead of "".                                                *)
AddToIncexcNoSep(buf, src) == IF buf = Null THEN src ELSE buf \o src

AddToIncexcNullPrefix(buf, src) ==
    IF buf = Null THEN Null \o src ELSE buf \o <<NL>> \o src

AddToIncexc(buf, src) == IF buf = Null THEN src ELSE buf \o <<NL>> \o src

(* strtok(copy, "\n") repeatedly: the maximal runs of non-'\n'          *)
(* characters, in order; cur is the token being collected.               *)
RECURSIVE SplitNL(_, _)
SplitNL(s, cur) ==
    CASE s = <<>>        -> IF cur = <<>> THEN <<>> ELSE <<cur>>
      [] Head(s) # NL    -> SplitNL(Tail(s), Append(cur, Head(s)))
      [] cur = <<>>      -> SplitNL(Tail(s), <<>>)
      [] OTHER           -> <<cur>> \o SplitNL(Tail(s), <<>>)

Tokens(s) == SplitNL(s, <<>>)

(* The tokens parse_conf_line fails on: those of a line that does not    *)
(* parse.                                                                 *)
FirstBad(l) == {n \in DOMAIN l : "y" \in ToSet(l[n])}

(* The caller passes a pointer that may still hold the buffer of an      *)
(* earlier exchange, complete or cut short by a failure (incexc_recv     *)
(* returns -1 without freeing what it built).                             *)
Init ==
    /\ peer \in BoundedSeq(Frame, MaxFrames)
    /\ got = 0
    /\ lost \in BOOLEAN
    /\ pc = "start"
    /\ incexc \in Leftovers
    /\ recvRet = 0 /\ copied = FALSE /\ seen = <<>> /\ parseRet = 0

(* free_w(incexc): the buffer is freed and set to NULL.  Variant that    *)
(* leaves the old buffer in place.                                        *)
FreeWKeep(buf) == buf

FreeW(buf) == Null

(* free_w(incexc), then write_str(repstr), which may fail.               *)
Start ==
    /\ pc = "start"
    /\ incexc' = FreeW(incexc)
    /\ \/ pc' = "loop" /\ UNCHANGED recvRet
       \/ pc' = "done" /\ recvRet' = -1
    /\ UNCHANGED <<peer, got, lost, copied, seen, parseRet>>

(* simple_loop reads the next frame.  A data frame goes through           *)
(* add_to_incexc, whose allocation may fail (ASL_END_ERROR).  The end    *)
(* request is answered with write_str(endrepstr), which may fail; on     *)
(* ASL_END_OK the final "\n" is added (add_to_incexc ignores its sep and *)
(* puts "\n" before it too), whose allocation may fail.  A broken        *)
(* connection is a read error.  Each failure leaves the buffer as it is.  *)
RecvFrame ==
    /\ pc = "loop"
    /\ \/ /\ got < Len(peer)
          /\ \/ /\ incexc' = AddToIncexc(incexc, peer[got + 1])
                /\ got' = got + 1
                /\ UNCHANGED <<pc, recvRet>>
             \/ /\ pc' = "done" /\ recvRet' = -1
                /\ UNCHANGED <<got, incexc>>
       \/ /\ got = Len(peer) /\ ~lost
          /\ \/ /\ incexc' = AddToIncexc(incexc, <<NL>>)
                /\ pc' = "parse"
                /\ UNCHANGED recvRet
             \/ /\ pc' = "done" /\ recvRet' = -1
                /\ UNCHANGED incexc
          /\ UNCHANGED got
       \/ /\ got = Len(peer) /\ lost
          /\ pc' = "done" /\ recvRet' = -1
          /\ UNCHANGED <<got, incexc>>
    /\ UNCHANGED <<peer, lost, copied, seen, parseRet>>

(* conf_parse_incexcs_buf on what was received: strdup_w may fail; no    *)
(* token at all is "unable to parse server incexc"; otherwise each token *)
(* is parsed until one fails ("break").  conf_finalise, which follows a  *)
(* success, is modelled in ConfStartDirs.                                 *)
ParseIncexcs ==
    /\ pc = "parse"
    /\ \/ /\ copied' = FALSE
          /\ seen' = <<>> /\ parseRet' = -1
       \/ /\ copied' = TRUE
          /\ LET tok == Tokens(incexc)
                 bad == FirstBad(tok)
                 stop == IF bad = {} THEN Len(tok)
                         ELSE Min(bad)
             IN  /\ seen' = SubSeq(tok, 1, stop)
                 /\ parseRet' = IF tok = <<>> \/ bad # {} THEN -1 ELSE 0
    /\ pc' = "done"
    /\ UNCHANGED <<peer, got, lost, incexc, recvRet>>

Finished ==
    /\ pc = "done"
    /\ UNCHANGED vars

Next == Start \/ RecvFrame \/ ParseIncexcs \/ Finished

Spec == Init /\ [][Next]_vars

-----------------------------------------------------------------------------
TypeOK ==
    /\ peer \in BoundedSeq(Frame, MaxFrames)
    /\ got \in 0 .. Len(peer) /\ lost \in BOOLEAN
    /\ pc \in {"start", "loop", "parse", "done"}
    /\ incexc \in Seq({"x", "y", NL}) \cup {Null}
    /\ recvRet \in {-1, 0} /\ copied \in BOOLEAN /\ parseRet \in {-1, 0}

(* The lines the peer meant: the non-empty '\n'-separated pieces of its   *)
(* frames, frame after frame.                                             *)
SentLines == FlattenSeq([i \in DOMAIN peer |-> Tokens(peer[i])])

(* After a complete exchange, parse_conf_line sees exactly the lines the  *)
(* peer sent in this exchange, whatever an earlier one left in the buffer, *)
(* in order, up to the first one that fails, and the parse     *)
(* succeeds exactly when there is at least one line and none fails: the   *)
(* separators add_to_incexc puts between frames, the NULL start and the   *)
(* final "\n" of incexc_recv, and strtok in conf_parse_incexcs_buf agree. *)
ParsedAsSent ==
    pc = "done" /\ recvRet = 0 /\ copied =>
        /\ IsPrefix(seen, SentLines)
        /\ (FirstBad(SentLines) = {} => seen = SentLines)
        /\ (FirstBad(SentLines) # {} => seen[Len(seen)] \in
               {SentLines[n] : n \in FirstBad(SentLines)}
             /\ FirstBad(SentLines) \cap 1 .. Len(seen) = {Len(seen)})
        /\ (parseRet = 0 <=> SentLines # <<>> /\ FirstBad(SentLines) = {})

=============================================================================
