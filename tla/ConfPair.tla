------------------------------ MODULE ConfPair ------------------------------
(***************************************************************************)
(* Splitting one configuration line into a field and a value:             *)
(* conf_get_pair and remove_quotes (src/src/conf.c 221-312).  The line is  *)
(* the C buffer buf[0..n-1] with its terminating NUL at buf[n]; the code   *)
(* works on it in place, writing NULs, and remove_quotes rewrites the      *)
(* value in place from a strdup'ed copy.  Characters are abstracted to one *)
(* representative of each class the code tells apart.  Every index the     *)
(* loops read is checked against the object it belongs to, so a read      *)
(* outside buf or outside the copy is visible in the result.               *)
(***************************************************************************)
EXTENDS Naturals, Integers, Sequences, SequencesExt, FiniteSetsExt

CONSTANT MaxLen     \* longest line enumerated

SP  == " "          \* isspace(): space, tab, and the '\n' fgets keeps
EQ  == "="
SQ  == "'"
DQ  == "\""
BS  == "\\"
HASH == "#"
Letter == "a"       \* any other character
NUL == "NUL"

Chars == {SP, EQ, SQ, DQ, BS, HASH, Letter}
Lines == BoundedSeq(Chars, MaxLen)

(* The buffer as C sees it: buf[i] for i in 0..n, buf[n] the NUL.         *)
Mem(buf) == [i \in 0 .. Len(buf) |-> IF i < Len(buf) THEN buf[i + 1] ELSE NUL]

(* for(; *cp && isspace(c); cp++) from index i.                          *)
RECURSIVE SkipSpace(_, _)
SkipSpace(m, i) == IF m[i] = SP THEN SkipSpace(m, i + 1) ELSE i

(* The C string at index i: everything up to the next NUL.                *)
(* Variant that takes the terminating NUL along.                          *)
RECURSIVE StrAtWithNul(_, _)
StrAtWithNul(m, i) ==
    IF m[i] = NUL THEN <<NUL>> ELSE <<m[i]>> \o StrAtWithNul(m, i + 1)

RECURSIVE StrAt(_, _)
StrAt(m, i) == IF m[i] = NUL THEN <<>> ELSE <<m[i]>> \o StrAt(m, i + 1)

(* strchr(m + i, c): the index of the first c before the NUL, or -1.      *)
RECURSIVE StrChr(_, _, _)
StrChr(m, i, c) ==
    CASE m[i] = c   -> i
      [] m[i] = NUL -> -1
      [] OTHER      -> StrChr(m, i + 1, c)

(* for(; *cp && isspace(c); cp--) *cp='\0';  from index i downwards.     *)
(* Reading index -1 is a read before the start of buf.                    *)
RECURSIVE StripBack(_, _)
StripBack(m, i) ==
    CASE i < 0      -> [m |-> m, oob |-> TRUE]
      [] m[i] = SP  -> StripBack([m EXCEPT ![i] = NUL], i - 1)
      [] OTHER      -> [m |-> m, oob |-> FALSE]

(* The copy loop of remove_quotes over copy = strdup of *v, 1-based here: *)
(* copy[Len(c)+1] is its NUL and anything beyond is outside the         *)
(* allocation.  out is what has been written through dp.                *)
At(c, i) == IF i <= Len(c) THEN c[i] ELSE NUL

(* Variant in which a backslash is copied like any other character.      *)
RECURSIVE UnquoteNoEscape(_, _, _, _)
UnquoteNoEscape(c, sp, out, q) ==
    IF sp > Len(c) + 1 THEN [ret |-> 1, val |-> out, oob |-> TRUE]
    ELSE CASE At(c, sp) = NUL -> [ret |-> 1, val |-> out, oob |-> FALSE]
           [] At(c, sp) = q   -> [ret |-> 1, val |-> out, oob |-> FALSE]
           [] OTHER           -> UnquoteNoEscape(c, sp + 1, Append(out, c[sp]), q)

RECURSIVE Unquote(_, _, _, _)
Unquote(c, sp, out, q) ==
    IF sp > Len(c) + 1 THEN [ret |-> 1, val |-> out, oob |-> TRUE]
    ELSE CASE At(c, sp) = NUL -> [ret |-> 1, val |-> out, oob |-> FALSE]
           [] At(c, sp) = q   -> [ret |-> 1, val |-> out, oob |-> FALSE]
           [] At(c, sp) = BS  ->
                IF At(c, sp + 1) = NUL
                THEN Unquote(c, sp + 2, out, q)
                ELSE Unquote(c, sp + 2, Append(out, c[sp + 1]), q)
           [] OTHER           -> Unquote(c, sp + 1, Append(out, c[sp]), q)

(* remove_quotes(f, v, quote): 0 and v unchanged when v does not start    *)
(* with the quote, else 1 and the text up to the matching quote with the  *)
(* escapes resolved.                                                      *)
RemoveQuotes(v, q) ==
    IF v = <<>> \/ v[1] # q THEN [ret |-> 0, val |-> v, oob |-> FALSE]
    ELSE Unquote(v, 2, <<>>, q)

(* conf_get_pair(buf, &f, &v).  pair says whether f and v were set;       *)
(* fieldOob and quoteOob whether a loop read outside buf or the copy.     *)
NoPair(r) == [ret |-> r, pair |-> FALSE, f |-> <<>>, v |-> <<>>,
              fieldOob |-> FALSE, quoteOob |-> FALSE]

ConfGetPair(buf, allocOk) ==
    LET m0 == Mem(buf)
        i0 == SkipSpace(m0, 0)
        eq == StrChr(m0, i0, EQ)
    IN  IF m0[i0] \in {NUL, HASH} THEN NoPair(0)
        ELSE IF eq = -1 THEN NoPair(-1)
        ELSE LET s1 == StripBack([m0 EXCEPT ![eq] = NUL], eq - 1)
                 vi == SkipSpace(s1.m, eq + 1)
                 s2 == StripBack(s1.m, vi + Len(StrAt(s1.m, vi)) - 1)
                 v0 == StrAt(s2.m, vi)
                 r1 == RemoveQuotes(v0, SQ)
                 r2 == IF r1.ret = 1 THEN r1 ELSE RemoveQuotes(v0, DQ)
                 fv == StrAt(s2.m, i0)
                 quoted == v0 # <<>> /\ v0[1] \in {SQ, DQ}
             IN  IF quoted /\ ~allocOk
                 THEN [NoPair(-1) EXCEPT !.fieldOob = s1.oob]
                 ELSE [ret |-> IF fv = <<>> \/ r2.val = <<>> THEN -1 ELSE 0,
                       pair |-> TRUE, f |-> fv, v |-> r2.val,
                       fieldOob |-> s1.oob, quoteOob |-> r2.oob]

VARIABLES
    buf,        \* the line handed to conf_get_pair
    called,     \* whether conf_get_pair has returned
    result      \* what it returned

vars == <<buf, called, result>>

Init ==
    /\ buf \in Lines
    /\ called = FALSE
    /\ result = NoPair(0)

(* One call.  strdup_w in remove_quotes may fail (it is only called for  *)
(* a value starting with the quote), which returns -1.                    *)
GetPair ==
    /\ ~called
    /\ called' = TRUE
    /\ \E allocOk \in BOOLEAN : result' = ConfGetPair(buf, allocOk)
    /\ UNCHANGED buf

Done ==
    /\ called
    /\ UNCHANGED vars

Next == GetPair \/ Done

Spec == Init /\ [][Next]_vars

-----------------------------------------------------------------------------
(* Reference definition of the documented splitting: the field is the    *)
(* text before the first '=' and the value the text after it, both        *)
(* without surrounding white space; a value that starts with a quote is   *)
(* the text up to the matching unescaped quote (or the end), where a      *)
(* backslash takes the next character literally and what follows the     *)
(* closing quote is ignored.                                              *)
Trim(s) ==
    LET keep == {i \in DOMAIN s : s[i] # SP}
    IN  IF keep = {} THEN <<>> ELSE SubSeq(s, Min(keep), Max(keep))

(* The texts an escaped quoted body e stands for: none if e has an        *)
(* unescaped quote or ends in a lone backslash.                           *)
RECURSIVE Decoded(_, _)
Decoded(e, q) ==
    CASE e = <<>>             -> {<<>>}
      [] e[1] = q             -> {}
      [] e[1] = BS            -> IF Len(e) = 1 THEN {}
                                 ELSE {<<e[2]>> \o x : x \in Decoded(Tail(Tail(e)), q)}
      [] OTHER                -> {<<e[1]>> \o x : x \in Decoded(Tail(e), q)}

ValueTexts(value) ==
    IF value = <<>> \/ value[1] \notin {SQ, DQ} THEN {value}
    ELSE UNION {Decoded(SubSeq(value, 2, j), value[1]) :
                   j \in {j \in 1 .. Len(value) :
                            j = Len(value) \/ value[j + 1] = value[1]}}

(* What a caller can tell apart: the return value, and f and v on success. *)
Outcome(r) == IF r.ret = 0 /\ r.pair THEN <<0, r.f, r.v>> ELSE <<r.ret>>

DocOutcomes(line) ==
    LET l == Trim(line)
        eqs == {i \in DOMAIN line : line[i] = EQ}
    IN  IF l = <<>> \/ l[1] = HASH THEN {<<0>>}
        ELSE IF eqs = {} THEN {<<-1>>}
        ELSE LET k == Min(eqs)
                 field == Trim(SubSeq(line, 1, k - 1))
                 value == Trim(SubSeq(line, k + 1, Len(line)))
                 quoted == value # <<>> /\ value[1] \in {SQ, DQ}
             IN  (IF quoted THEN {<<-1>>} ELSE {})
                 \cup {IF field = <<>> \/ x = <<>> THEN <<-1>> ELSE <<0, field, x>> :
                        x \in ValueTexts(value)}

Result == [ret : {-1, 0}, pair : BOOLEAN, f : Lines, v : Lines,
           fieldOob : BOOLEAN, quoteOob : BOOLEAN]

TypeOK ==
    /\ buf \in Lines
    /\ called \in BOOLEAN
    /\ result \in Result

(* conf_get_pair returns 0 with the documented field and value, or -1,   *)
(* exactly as the reference splitting says, whenever it stays inside its *)
(* buffers: the in-place NUL writes, the two trimming loops and the      *)
(* quote/escape copy of remove_quotes agree with the documented format.  *)
PairAsDocumented ==
    called /\ ~result.fieldOob /\ ~result.quoteOob
        => Outcome(result) \in DocOutcomes(buf)

(* Every loop of conf_get_pair and remove_quotes stays inside its        *)
(* object.  Two can leave it: the loop that strips white space before the *)
(* '=', "for(cp=eq-1; *cp && isspace(c); cp--)", starts at buf[-1] when   *)
(* the line (after leading space) starts with '='; and the copy loop of   *)
(* remove_quotes, which after a backslash steps over the next character   *)
(* even when it is the NUL of the strdup'ed copy.                         *)
ScansInBounds == called => ~result.fieldOob /\ ~result.quoteOob

=============================================================================
