------------------------------ MODULE SqlGuard ------------------------------
(***************************************************************************)
(* The read-only guard of src/sql_guard.rs: sql_skeleton scans a statement  *)
(* byte by byte and drops comments and quoted text, enforce_read_only       *)
(* judges what is left.  The scan is a state machine, one action per match   *)
(* arm and per loop inside one; its verdict is compared with a definition of *)
(* the same dialect that speaks of the statement as a whole.                 *)
(*                                                                         *)
(* Characters: "S" is a keyword of READ_ONLY_LEADERS, "W" one of             *)
(* WRITE_KEYWORDS, "a" any other identifier character; a longer run of       *)
(* identifier characters is a name that merely contains them.               *)
(***************************************************************************)
EXTENDS Naturals, Sequences

CONSTANTS
    Scopes      \* the statements tried: the characters of a scope and the
                \* number of them

ASSUME ScopesAssumption ==
    \A s \in Scopes : s.chars # {} /\ s.length \in Nat

VARIABLES
    statement,  \* the text given to enforce_read_only
    i,          \* sql_skeleton: the next byte
    mode,       \* sql_skeleton: "code", or the inner loop it is in: "line",
                \* "block" or the quote
    out,        \* sql_skeleton: the skeleton so far
    verdict     \* what enforce_read_only returned

sqlVars == <<statement, i, mode, out, verdict>>

Ident == {"S", "W", "a"}
Blank == {" ", "nl"}
Quote == {"sq", "bt"}

Statements == UNION {[1..s.length -> s.chars] : s \in Scopes}

\* No statement is being judged.
SqlIdle == statement = <<>> /\ i = 0 /\ mode = "code" /\ out = <<>> /\ verdict = "none"

SqlInit ==
    /\ statement \in Statements
    /\ i = 1 /\ mode = "code" /\ out = <<>> /\ verdict = "none"

-----------------------------------------------------------------------------
(* sql_skeleton *)

At(k, c) == k \in DOMAIN statement /\ statement[k] = c
Scanning(m) == mode = m /\ i \in DOMAIN statement
OpensLine == At(i, "-") /\ At(i + 1, "-")
OpensBlock == At(i, "/") /\ At(i + 1, "*")

\* A line comment goes up to the line's end, which stays.
LineComment ==
    /\ Scanning("code") /\ OpensLine
    /\ i' = i + 2 /\ mode' = "line"
    /\ UNCHANGED <<statement, out, verdict>>

InLine ==
    /\ mode = "line"
    /\ IF i \in DOMAIN statement /\ statement[i] # "nl"
       THEN i' = i + 1 /\ UNCHANGED mode
       ELSE mode' = "code" /\ UNCHANGED i
    /\ UNCHANGED <<statement, out, verdict>>

\* A block comment goes through the first "*/" after its opening and leaves a
\* space.
BlockComment ==
    /\ Scanning("code") /\ OpensBlock
    /\ i' = i + 2 /\ mode' = "block"
    /\ UNCHANGED <<statement, out, verdict>>

\* Mutant of InBlock: the comment leaves nothing behind.
InBlockGlued ==
    /\ mode = "block"
    /\ IF i < Len(statement) /\ ~(At(i, "*") /\ At(i + 1, "/"))
       THEN i' = i + 1 /\ UNCHANGED mode
       ELSE /\ i' = IF i < Len(statement) THEN i + 2 ELSE Len(statement) + 1
            /\ mode' = "code"
    /\ UNCHANGED <<statement, out, verdict>>

InBlock ==
    /\ mode = "block"
    /\ IF i < Len(statement) /\ ~(At(i, "*") /\ At(i + 1, "/"))
       THEN i' = i + 1 /\ UNCHANGED <<mode, out>>
       ELSE /\ i' = IF i < Len(statement) THEN i + 2 ELSE Len(statement) + 1
            /\ mode' = "code" /\ out' = Append(out, " ")
    /\ UNCHANGED <<statement, verdict>>

\* Quoted text goes through the first quote that no other one follows; two of
\* them are an escape, and both are skipped.  It leaves a space.
Quoted ==
    /\ Scanning("code") /\ statement[i] \in Quote
    /\ i' = i + 1 /\ mode' = statement[i]
    /\ UNCHANGED <<statement, out, verdict>>

InQuoted ==
    /\ mode \in Quote
    /\ \/ /\ At(i, mode) /\ At(i + 1, mode)
          /\ i' = i + 2 /\ UNCHANGED <<mode, out>>
       \/ /\ i \in DOMAIN statement /\ statement[i] # mode
          /\ i' = i + 1 /\ UNCHANGED <<mode, out>>
       \/ /\ At(i, mode) /\ ~At(i + 1, mode)
          /\ i' = i + 1 /\ mode' = "code" /\ out' = Append(out, " ")
       \/ /\ i \notin DOMAIN statement
          /\ mode' = "code" /\ out' = Append(out, " ") /\ UNCHANGED i
    /\ UNCHANGED <<statement, verdict>>

Plain ==
    /\ Scanning("code") /\ ~OpensLine /\ ~OpensBlock /\ statement[i] \notin Quote
    /\ out' = Append(out, statement[i])
    /\ i' = i + 1
    /\ UNCHANGED <<statement, mode, verdict>>

-----------------------------------------------------------------------------
(* enforce_read_only, over the skeleton t.  trim changes no answer here: a   *)
(* blank is neither a token nor more SQL.                                    *)

\* The non-empty pieces of split(!is_ident_char), as the positions of each.
Tokens(t) ==
    {p \in (1..Len(t)) \X (1..Len(t)) :
        /\ p[1] <= p[2]
        /\ \A k \in p[1]..p[2] : t[k] \in Ident
        /\ p[1] = 1 \/ t[p[1] - 1] \notin Ident
        /\ p[2] = Len(t) \/ t[p[2] + 1] \notin Ident}

Empty(t) == \A k \in 1..Len(t) : t[k] \in Blank

\* Something other than blanks follows the first ";".
Stacked(t) ==
    \E k \in 1..Len(t) :
        /\ t[k] = ";" /\ \A j \in 1..(k - 1) : t[j] # ";"
        /\ \E j \in (k + 1)..Len(t) : t[j] \notin Blank

Leads(t) ==
    \E p \in Tokens(t) :
        /\ p[1] = p[2] /\ t[p[1]] = "S"
        /\ \A r \in Tokens(t) : p[1] <= r[1]

Writes(t) == \E p \in Tokens(t) : p[1] = p[2] /\ t[p[1]] = "W"

Verdict(t) ==
    CASE Empty(t)   -> "empty"
      [] Stacked(t) -> "multiple statements"
      [] ~Leads(t)  -> "not a read-only keyword"
      [] Writes(t)  -> "write keyword"
      [] OTHER      -> "ok"

Judge ==
    /\ mode = "code" /\ i > Len(statement) /\ i > 0 /\ verdict = "none"
    /\ verdict' = Verdict(out)
    /\ UNCHANGED <<statement, i, mode, out>>

SqlNext ==
    \/ LineComment \/ InLine \/ BlockComment \/ InBlock \/ Quoted \/ InQuoted
    \/ Plain \/ Judge

SqlSpec == SqlInit /\ [][SqlNext]_sqlVars

-----------------------------------------------------------------------------
(* The reference: a statement is a row of lexemes, each as the dialect       *)
(* defines it; what is code is what is in no comment and no quoted text.     *)

\* s[b..a-1] is one of ...
LineLexeme(s, b, a) ==
    /\ a >= b + 2 /\ s[b] = "-" /\ s[b + 1] = "-"
    /\ \A k \in b..(a - 1) : s[k] # "nl"
    /\ a = Len(s) + 1 \/ s[a] = "nl"

BlockLexeme(s, b, a) ==
    /\ a >= b + 2 /\ s[b] = "/" /\ s[b + 1] = "*"
    /\ \A k \in (b + 2)..(a - 3) : ~(s[k] = "*" /\ s[k + 1] = "/")
    /\ \/ a >= b + 4 /\ s[a - 2] = "*" /\ s[a - 1] = "/"
       \/ a = Len(s) + 1 /\ ~(a >= b + 4 /\ s[a - 2] = "*" /\ s[a - 1] = "/")

\* Every run of q in s[x..y] has an even number of them.
Doubled(s, q, x, y) ==
    \A k, l \in x..y :
        /\ k <= l /\ \A j \in k..l : s[j] = q
        /\ k = x \/ s[k - 1] # q
        /\ l = y \/ s[l + 1] # q
        => (l - k) % 2 = 1

QuotedLexeme(s, b, a) ==
    /\ s[b] \in Quote
    /\ \/ /\ a >= b + 2 /\ s[a - 1] = s[b] /\ Doubled(s, s[b], b + 1, a - 2)
          /\ a = Len(s) + 1 \/ s[a] # s[b]
       \/ a = Len(s) + 1 /\ Doubled(s, s[b], b + 1, a - 1)

CodeLexeme(s, b, a) ==
    /\ a = b + 1 /\ s[b] \notin Quote
    /\ a <= Len(s) => ~(s[b] = "-" /\ s[a] = "-") /\ ~(s[b] = "/" /\ s[a] = "*")

Lexeme(s, b, a) ==
    LineLexeme(s, b, a) \/ BlockLexeme(s, b, a) \/ QuotedLexeme(s, b, a)
        \/ CodeLexeme(s, b, a)

\* s, up to e, is the row of lexemes that begin at the cuts.
RowTo(s, cuts, e) ==
    /\ cuts \subseteq 1..e /\ {1, e} \subseteq cuts
    /\ \A b \in cuts \ {e} : \E a \in cuts :
        b < a /\ (\A d \in cuts : ~(b < d /\ d < a)) /\ Lexeme(s, b, a)

\* The positions of s that are code.
Code(s) ==
    LET cuts == CHOOSE c \in SUBSET (1..(Len(s) + 1)) : RowTo(s, c, Len(s) + 1)
    IN  {b \in cuts \ {Len(s) + 1} : CodeLexeme(s, b, b + 1)}

\* The keyword c stands at k, in the code of s, as a word of its own.
Word(s, code, k, c) ==
    /\ k \in code /\ s[k] = c
    /\ \A j \in {k - 1, k + 1} \cap code : s[j] \notin Ident

\* Its first word is a leader, no word is a write keyword, and no code but
\* blanks follows a ";" (src/sql_guard.rs:9-17).
ReadOnly(s) ==
    LET code == Code(s)
    IN  /\ \E k \in code :
            /\ Word(s, code, k, "S")
            /\ \A j \in code : j < k => s[j] \notin Ident
        /\ ~\E k \in code : Word(s, code, k, "W")
        /\ \A k, j \in code : s[k] = ";" /\ k < j => s[j] \in Blank

-----------------------------------------------------------------------------
\* enforce_read_only accepts a statement exactly when the statement, read as
\* a row of lexemes, is a single read: no comment, literal, escape or
\* unterminated region hides a write or a second statement from it, and none
\* makes it refuse a read.
VerdictAgrees == verdict # "none" => (verdict = "ok") = ReadOnly(statement)

=============================================================================
