----------------------------- MODULE ConfClient -----------------------------
(***************************************************************************)
(* Loading a client's configuration on the server: conf_load_clientconfdir *)
(* (src/src/conf.c 1567-1594).  conf_init_save_cname_and_version resets   *)
(* the client conf; conf_set_from_global copies the server's settings     *)
(* (1458-1523); load_conf_lines applies the client's own file on top;      *)
(* conf_set_from_global_arg_list_overrides gives the client the server's  *)
(* list for each list option it did not set (1525-1553); conf_finalise    *)
(* checks the keep values (finalise_keep_args, 1117-1146) and then turns   *)
(* server_script into server_script_pre and _post (pre_post_override,     *)
(* 417-425).  The server's own conf went through conf_finalise before.    *)
(*                                                                         *)
(* The settings modelled are one of each way the code combines server and *)
(* client values: the keep list (a list the client replaces), client_can  *)
(* bits (gcv_bit, bits the client sets or clears one by one), compression *)
(* (an int copied from the server, parsed by get_compression) and         *)
(* network_timeout (an int that is not copied), the server scripts        *)
(* (strings that one setting, server_script, overrides at finalise), and  *)
(* manual_delete, the one string conf_set_from_global copies as a pointer *)
(* rather than with strdup.  A conf line is a field and the value atoi,   *)
(* get_compression or strdup sees; lines of other fields change none of   *)
(* these.  The heap is the set of blocks freed so far.                    *)
(*                                                                         *)
(* A keep value is the int atoi returns for its text.  The widths are      *)
(* constants: W bits for unsigned long long, IntBits for int, and the      *)
(* product limit.  The model is checked with widths scaled down from 64,  *)
(* 32 and 52560000 that keep the relations the real ones have (ASSUME).    *)
(***************************************************************************)
EXTENDS Integers, Sequences, SequencesExt

CONSTANTS
    W,          \* bits of unsigned long long
    IntBits,    \* bits of int
    Limit,      \* the bound on the product of the keep values
    KeepVals,   \* the values atoi may return for a keep line
    MaxKeep,    \* keep lines of the server's conf file
    CanBits,    \* the client_can_* fields modelled, one bit each
    CanVals,    \* the values atoi may return for a client_can_* line
    CompTexts,  \* the compression values written, as sequences of tokens
    TimeoutVals,   \* the values atoi may return for a network_timeout line
    GlobalInts,    \* compression and network_timeout of the server's conf
    GlobalManual,  \* the server's manual_delete: NULL or its block "gm"
    MaxLines    \* lines of the client's conf file

ULL    == 2^W
IntMin == -(2^(IntBits - 1))
IntMax == 2^(IntBits - 1) - 1

(* As for 64, 32 and 52560000: the limit times any int fits in the        *)
(* unsigned type, and the limit is below the largest int.                 *)
ASSUME /\ W % 2 = 0 /\ Limit * 2^(IntBits - 1) < ULL /\ Limit < IntMax
       /\ KeepVals \subseteq IntMin .. IntMax

(* The int flag converted for mult*=k->flag, and the product modulo 2^W,  *)
(* split in halves so that no intermediate leaves TLC's integers.         *)
ToULL(x) == (x + ULL) % ULL
Half == 2^(W \div 2)
MulULL(a, b) == (((a * (b \div Half)) % ULL) * Half + a * (b % Half)) % ULL

(* The loop of finalise_keep_args from entry i with the product so far;   *)
(* flags are the k->flag of the list, 1 (gcv_a's include) until set.      *)
(* Variants: no bound on the product, or the bound tested only after the  *)
(* loop.                                                                  *)
RECURSIVE KeepLoopNoLimit(_, _, _, _)
KeepLoopNoLimit(l, i, mult, fl) ==
    IF i > Len(l) THEN [ret |-> 0, flags |-> fl]
    ELSE LET fl2 == [fl EXCEPT ![i] = l[i]]
         IN  IF l[i] = 0 THEN [ret |-> -1, flags |-> fl2]
             ELSE KeepLoopNoLimit(l, i + 1, MulULL(mult, ToULL(l[i])), fl2)

RECURSIVE KeepLoopCheckAtEnd(_, _, _, _)
KeepLoopCheckAtEnd(l, i, mult, fl) ==
    IF i > Len(l) THEN [ret |-> IF mult > Limit THEN -1 ELSE 0, flags |-> fl]
    ELSE LET fl2 == [fl EXCEPT ![i] = l[i]]
         IN  IF l[i] = 0 THEN [ret |-> -1, flags |-> fl2]
             ELSE KeepLoopCheckAtEnd(l, i + 1, MulULL(mult, ToULL(l[i])), fl2)

RECURSIVE KeepLoop(_, _, _, _)
KeepLoop(l, i, mult, fl) ==
    IF i > Len(l) THEN [ret |-> 0, flags |-> fl]
    ELSE LET fl2 == [fl EXCEPT ![i] = l[i]]
             m   == MulULL(mult, ToULL(l[i]))
         IN  CASE l[i] = 0   -> [ret |-> -1, flags |-> fl2]
               [] m > Limit  -> [ret |-> -1, flags |-> fl2]
               [] OTHER      -> KeepLoop(l, i + 1, m, fl2)

(* finalise_keep_args(c): mult starts at 1; on success "last->flag++"     *)
(* when the list has a second entry.                                      *)
FinaliseKeepArgs(l) ==
    LET r == KeepLoop(l, 1, 1, [i \in 1 .. Len(l) |-> 1])
    IN  IF r.ret = 0 /\ Len(l) > 1
        THEN [r EXCEPT !.flags[Len(l)] = @ + 1]
        ELSE r

(* The global conf passed conf_finalise, and server_conf_checks insists   *)
(* on a keep value (878), before any client is loaded.                    *)
GlobalLists == {l \in BoundedSeq(KeepVals, MaxKeep) :
                    l # <<>> /\ FinaliseKeepArgs(l).ret = 0}

(* A string setting is NULL or the value of the file that set it: "gs",   *)
(* "gp", "gq" for the server's server_script, _pre and _post, and "cs",   *)
(* "cp", "cq" for the client's.                                           *)
Null == "NULL"
ScriptField == {"server_script", "server_script_pre", "server_script_post"}
ClientValue == [server_script |-> "cs", server_script_pre |-> "cp",
                server_script_post |-> "cq"]
Scripts(s, p, q) == [s |-> s, pre |-> p, post |-> q]
GlobalRaw == {Scripts(s, p, q) : s \in {Null, "gs"}, p \in {Null, "gp"},
                                 q \in {Null, "gq"}}

(* pre_post_override(&s_script, &s_script_pre, &s_script_post): a set     *)
(* server_script replaces both (conf_val_reset: free_w, strdup_w) and is  *)
(* then freed.  Variant that does not free it.                            *)
PrePostOverrideNoFree(sc) ==
    IF sc.s = Null THEN sc ELSE Scripts(sc.s, sc.s, sc.s)

PrePostOverride(sc) ==
    IF sc.s = Null THEN sc ELSE Scripts(Null, sc.s, sc.s)

(* What the call may leave: when a strdup_w fails, conf_val_reset has     *)
(* already freed the old string and leaves NULL, and pre_post_override    *)
(* returns -1 with server_script still set; conf_finalise ignores that.   *)
PrePostOutcomes(sc) ==
    {PrePostOverride(sc)} \cup
    (IF sc.s = Null THEN {}
     ELSE {Scripts(sc.s, Null, sc.post), Scripts(sc.s, sc.s, Null)})

(* gcv_bit: the bit is cleared, then set when (uint8_t)atoi(v) is not 0.  *)
(* Variant that never clears.                                             *)
GcvBitNoClear(can, bit, v) == IF v % 256 = 0 THEN can ELSE can \cup {bit}

GcvBit(can, bit, v) == IF v % 256 = 0 THEN can \ {bit} ELSE can \cup {bit}

(* get_compression(v): an optional "gzip" or "zlib" prefix (strncmp),     *)
(* then exactly one digit, which atoi converts; -1 otherwise.  A value is *)
(* a sequence of tokens: "gzip", "zlib", a digit or any other character.  *)
DigitVal == [d \in {"0", "1", "2", "3", "4", "5", "6", "7", "8", "9"} |->
                CHOOSE n \in 0 .. 9 : ToString(n) = d]

GetCompression(v) ==
    LET cp == IF v # <<>> /\ Head(v) \in {"gzip", "zlib"} THEN Tail(v) ELSE v
    IN  IF Len(cp) = 1 /\ cp[1] \in DOMAIN DigitVal THEN DigitVal[cp[1]] ELSE -1

(* free_w(&p) frees the block p points to, if any.                        *)
FreeW(p, freed) == IF p = Null THEN freed ELSE freed \cup {p}

(* A compression line carries the index of its text in CompTexts.        *)
Line == {[f |-> "keep", v |-> k] : k \in KeepVals}
        \cup {[f |-> b, v |-> x] : b \in CanBits, x \in CanVals}
        \cup {[f |-> sf, v |-> 0] : sf \in ScriptField}  \* value ClientValue[sf]
        \cup {[f |-> "compression", v |-> i] : i \in DOMAIN CompTexts}
        \cup {[f |-> "network_timeout", v |-> t] : t \in TimeoutVals}
        \cup {[f |-> "manual_delete", v |-> 0]}

(* load_conf_field_and_value for one line of the client's file: keep is   *)
(* appended (gcv_a, strlist_add with flag 1), a client_can_* line goes    *)
(* through gcv_bit, network_timeout through gcv_int, compression through  *)
(* get_compression (a result below 0 fails the line, and so the load),    *)
(* and a string through gcv: free_w of the old value, then a new block     *)
(* from strdup_w ("c1", "c2", ... for manual_delete).                     *)
LoadLine(cf, ln) ==
    CASE ln.f = "keep"      -> [cf EXCEPT !.keep = Append(@, ln.v)]
      [] ln.f \in CanBits   -> [cf EXCEPT !.can = GcvBit(@, ln.f, ln.v)]
      [] ln.f = "network_timeout" -> [cf EXCEPT !.ints.network_timeout = ln.v]
      [] ln.f = "compression" ->
            LET c == GetCompression(CompTexts[ln.v])
            IN  [cf EXCEPT !.ints.compression = c, !.bad = @ \/ c < 0]
      [] ln.f = "manual_delete" ->
            [cf EXCEPT !.freed = FreeW(cf.manual, @),
                       !.manual = "c" \o ToString(cf.nalloc + 1),
                       !.nalloc = @ + 1]
      [] ln.f = "server_script"      -> [cf EXCEPT !.scripts.s = ClientValue[ln.f]]
      [] ln.f = "server_script_pre"  -> [cf EXCEPT !.scripts.pre = ClientValue[ln.f]]
      [] ln.f = "server_script_post" -> [cf EXCEPT !.scripts.post = ClientValue[ln.f]]

VARIABLES
    gKeep,      \* globalc->keep
    gCan,       \* globalc->client_can
    gRaw,       \* the server's script lines, before its conf_finalise
    gScripts,   \* globalc's scripts after its conf_finalise
    gInts,      \* globalc's compression and network_timeout
    gManual,    \* globalc->manual_delete
    lines,      \* the client's conf file
    keep,       \* cc->keep
    flags,      \* the k->flag of cc->keep
    can,        \* cc->client_can
    scripts,    \* cc->s_script, s_script_pre, s_script_post
    ints,       \* cc->compression and cc->network_timeout
    manual,     \* cc->manual_delete
    freed,      \* the blocks freed during the load
    pc,         \* "load" | "override" | "finalise" | "done"
    checked,    \* whether finalise_keep_args ran
    oomed,      \* whether pre_post_override failed to allocate
    ret         \* what conf_load_clientconfdir returned

vars == <<gKeep, gCan, gRaw, gScripts, gInts, gManual, lines, keep, flags,
          can, scripts, ints, manual, freed, pc, checked, oomed, ret>>

(* conf_init's values of the two ints: compression 9, network_timeout     *)
(* 60*60*2.                                                               *)
DefaultInts == [compression |-> 9, network_timeout |-> 7200]

(* conf_set_from_global on the freshly initialised client conf: the       *)
(* client_can bits and compression are assigned (network_timeout is not   *)
(* in the list and keeps conf_init's value), manual_delete is assigned as *)
(* a pointer (1466), and set_global_str strdup's each script the server   *)
(* has (a NULL one leaves the client's NULL).  keep is a list option and  *)
(* waits for the overrides.                                               *)
FromGlobal == [keep |-> <<>>, can |-> gCan, scripts |-> gScripts,
               ints |-> [DefaultInts EXCEPT !.compression = gInts.compression],
               manual |-> gManual, freed |-> {}, nalloc |-> 0, bad |-> FALSE]

(* The server's conf: any keep list its load accepts, any client_can      *)
(* bits (conf_init turns every bit on and its lines may clear or set      *)
(* each), and any script lines, through its own conf_finalise.            *)
Init ==
    /\ gKeep \in GlobalLists
    /\ gCan \in SUBSET CanBits
    /\ gRaw \in GlobalRaw
    /\ gScripts \in PrePostOutcomes(gRaw)
    /\ gInts \in GlobalInts
    /\ gManual \in GlobalManual
    /\ lines \in BoundedSeq(Line, MaxLines)
    /\ keep = <<>> /\ flags = <<>> /\ can = CanBits   \* conf_init
    /\ scripts = Scripts(Null, Null, Null)
    /\ ints = DefaultInts /\ manual = Null /\ freed = {}
    /\ pc = "load" /\ checked = FALSE /\ oomed = FALSE /\ ret = -1

(* The client name is checked (looks_like_tmp_or_hidden_file) and joined *)
(* to clientconfdir (prepend_s).  conf_set_from_global copies client_can *)
(* and, with set_global_str (strdup_w of a non-NULL string), the scripts; *)
(* then load_conf_lines applies the file line by line.  A bad compression *)
(* value, or any failure of these steps, including an allocation, ends    *)
(* the load with -1 ("goto end") after the first n lines; what those      *)
(* lines freed stays freed.                                               *)
Loaded(n) == FoldLeft(LoadLine, FromGlobal, SubSeq(lines, 1, n))

LoadClient ==
    /\ pc = "load"
    /\ \/ LET cf == Loaded(Len(lines))
          IN  /\ ~cf.bad
              /\ keep' = cf.keep /\ can' = cf.can /\ scripts' = cf.scripts
              /\ ints' = cf.ints /\ manual' = cf.manual /\ freed' = cf.freed
              /\ flags' = [i \in DOMAIN cf.keep |-> 1]
              /\ pc' = "override"
       \/ /\ \E n \in 0 .. Len(lines) : freed' = Loaded(n).freed
          /\ pc' = "done"
          /\ UNCHANGED <<keep, flags, can, scripts, ints, manual>>
    /\ UNCHANGED <<gKeep, gCan, gRaw, gScripts, gInts, gManual, lines, checked,
                   oomed, ret>>

(* set_global_arglist_override(&cc->keep, globalc->keep): a list the      *)
(* client set is kept; otherwise set_global_arglist copies the global one *)
(* entry by entry (path and flag), which may fail to allocate.  The       *)
(* overrides of timer_arg, n_success_arg and n_failure_arg come first and  *)
(* may fail the same way whatever keep holds.                             *)
(* Variant that appends the global list whatever the client set.          *)
OverrideKeepAppend(k, g) == k \o g

OverrideKeep(k, g) == IF k # <<>> THEN k ELSE g

Override ==
    /\ pc = "override"
    /\ \/ /\ keep' = OverrideKeep(keep, gKeep)
          /\ flags' = IF keep # <<>> THEN flags
                      ELSE [i \in DOMAIN keep' |-> FinaliseKeepArgs(gKeep).flags[i]]
          /\ pc' = "finalise"
       \/ /\ pc' = "done"
          /\ UNCHANGED <<keep, flags>>
    /\ UNCHANGED <<gKeep, gCan, gRaw, gScripts, gInts, gManual, lines, can,
                   scripts, ints, manual, freed, checked, oomed, ret>>

(* conf_finalise: the steps before finalise_keep_args (fstypes, globs,     *)
(* start directories) may fail; otherwise finalise_keep_args decides, and *)
(* after it pre_post_override runs, whose result is not checked.          *)
Finalise ==
    /\ pc = "finalise"
    /\ \/ /\ UNCHANGED <<flags, scripts, checked, oomed, ret>>
       \/ LET r == FinaliseKeepArgs(keep)
          IN  /\ flags' = r.flags /\ checked' = TRUE /\ ret' = r.ret
              /\ IF r.ret = 0
                 THEN /\ scripts' \in PrePostOutcomes(scripts)
                      /\ oomed' = (scripts' # PrePostOverride(scripts))
                 ELSE UNCHANGED <<scripts, oomed>>
    /\ pc' = "done"
    /\ UNCHANGED <<gKeep, gCan, gRaw, gScripts, gInts, gManual, lines, keep,
                   can, ints, manual, freed>>

Done ==
    /\ pc = "done"
    /\ UNCHANGED vars

Next == LoadClient \/ Override \/ Finalise \/ Done

Spec == Init /\ [][Next]_vars

-----------------------------------------------------------------------------
ScriptVal == {Null, "gs", "gp", "gq", "cs", "cp", "cq"}

TypeOK ==
    /\ gKeep \in Seq(KeepVals) /\ gCan \subseteq CanBits
    /\ gRaw \in GlobalRaw /\ lines \in Seq(Line)
    /\ keep \in Seq(KeepVals) /\ flags \in Seq(IntMin .. IntMax)
    /\ can \subseteq CanBits
    /\ gInts \in GlobalInts /\ gManual \in {Null, "gm"}
    /\ ints \in [compression : 0 .. 9, network_timeout : Int]
    /\ manual \in {Null, "gm"} \cup {"c" \o ToString(i) : i \in 1 .. Len(lines)}
    /\ Null \notin freed
    /\ scripts \in [s : ScriptVal, pre : ScriptVal, post : ScriptVal]
    /\ pc \in {"load", "override", "finalise", "done"}
    /\ checked \in BOOLEAN /\ oomed \in BOOLEAN /\ ret \in {-1, 0}

(* Reference definitions over the integers: whether positive values     *)
(* multiply to at most b (a * rest <= b iff rest <= b \div a for a > 0,  *)
(* which keeps TLC's integers small), and the settings the two files      *)
(* mean: the client's own where it has one, else the server's.            *)
RECURSIVE ProductAtMost(_, _)
ProductAtMost(l, b) ==
    l = <<>> \/ (Head(l) <= b /\ ProductAtMost(Tail(l), b \div Head(l)))

LinesOf(f) == SelectSeq(lines, LAMBDA ln : ln.f = f)
ClientKeep == [i \in DOMAIN LinesOf("keep") |-> LinesOf("keep")[i].v]
Effective == IF ClientKeep # <<>> THEN ClientKeep ELSE gKeep

(* server_script stands for both _pre and _post, in either file, and the  *)
(* client's file is read over the server's.                               *)
WantScript(f) ==
    CASE LinesOf("server_script") # <<>> -> ClientValue.server_script
      [] LinesOf(f) # <<>>               -> ClientValue[f]
      [] gRaw.s # Null                   -> gRaw.s
      [] OTHER -> IF f = "server_script_pre" THEN gRaw.pre ELSE gRaw.post

(* finalise_keep_args accepts a list exactly when every value is positive *)
(* and their product is at most the limit: the unsigned long long product *)
(* of negative ints (which atoi returns for "-1") never wraps round to a  *)
(* small number that passes, because the bound is tested at every step.   *)
KeepAcceptedIffSane ==
    checked =>
        (ret = 0 <=> (\A i \in DOMAIN keep : keep[i] > 0)
                     /\ ProductAtMost(keep, Limit))

(* A client loaded with success keeps the keep values of its own conf     *)
(* file if it has any, else the server's, in their order, with the last   *)
(* raised by one when there are several: set_global_arglist_override runs *)
(* after load_conf_lines and replaces rather than extends.                *)
KeepAsConfigured ==
    checked /\ ret = 0 =>
        /\ keep = Effective
        /\ flags = [i \in DOMAIN Effective |->
                       IF i = Len(Effective) /\ i > 1 THEN Effective[i] + 1
                       ELSE Effective[i]]

(* The level a compression text names: a digit, alone or after "gzip" or *)
(* "zlib"; -1 for any other text.                                         *)
CompLevel(t) ==
    IF \E p \in {<<>>, <<"gzip">>, <<"zlib">>}, d \in DOMAIN DigitVal : t = p \o <<d>>
    THEN DigitVal[t[Len(t)]] ELSE -1

LastOf(f) == LinesOf(f)[Len(LinesOf(f))]

(* A client loaded with success has, for each modelled setting, what the *)
(* last line of its own file for it says, and otherwise what the server   *)
(* has for a setting conf_set_from_global copies (client_can bits,        *)
(* compression) and conf_init's value for one it does not                 *)
(* (network_timeout: 60*60*2, whatever the server's conf says).  A        *)
(* client_can bit is on when (uint8_t)atoi is not 0, and gcv_bit touches   *)
(* only its own bit; a compression line that names no level fails the     *)
(* load.                                                                  *)
SettingsAsConfigured ==
    checked /\ ret = 0 =>
        /\ \A b \in CanBits :
               b \in can <=> IF LinesOf(b) # <<>> THEN LastOf(b).v % 256 # 0
                             ELSE b \in gCan
        /\ \A i \in DOMAIN LinesOf("compression") :
               CompLevel(CompTexts[LinesOf("compression")[i].v]) >= 0
        /\ ints.compression =
               IF LinesOf("compression") # <<>>
               THEN CompLevel(CompTexts[LastOf("compression").v])
               ELSE gInts.compression
        /\ ints.network_timeout =
               IF LinesOf("network_timeout") # <<>>
               THEN LastOf("network_timeout").v ELSE 7200

(* When no allocation failed, a client loaded with success runs the       *)
(* server scripts its own file names, server_script standing for both,    *)
(* and the server's otherwise: the server's server_script was turned into *)
(* _pre and _post and freed by the server's conf_finalise, so it cannot   *)
(* override the client's _pre or _post at the client's conf_finalise.     *)
ScriptsAsConfigured ==
    checked /\ ret = 0 /\ ~oomed /\ gScripts = PrePostOverride(gRaw) =>
        scripts = Scripts(Null, WantScript("server_script_pre"),
                                WantScript("server_script_post"))


(* Loading a client never frees memory the server's conf still points   *)
(* to: conf_set_from_global gives the client the server's manual_delete    *)
(* pointer itself (1466), so the client's own manual_delete line, whose    *)
(* gcv frees the old value (192), frees the server's string.               *)
GlobalConfIntact == gManual \notin freed

=============================================================================
