---------------------------- MODULE HelperProofs ----------------------------
(***************************************************************************)
(* What is proved of the algorithms plugins call and of the gateway they are *)
(* tested with, for any statements, keys, registrations and requests: the    *)
(* SQL guard judges a statement as its dialect defines it, the listing is    *)
(* complete, and the mock gateway looks up and decides as its references do. *)
(***************************************************************************)
EXTENDS SqlGuard, KvPages, MockGateway, FiniteSetTheorems, WellFoundedInduction, TLAPS

(* Least and greatest elements, in place of induction. *)

\* A set of naturals that is not empty has a least element.
LEMMA Least ==
    ASSUME NEW T \in SUBSET Nat, T # {}
    PROVE  \E m \in T : \A n \in T : m <= n
  <1> DEFINE R == OpToRel(<, Nat)
  <1>1. \A x, y \in Nat : x < y => <<x, y>> \in R
    BY DEF OpToRel
  <1>2. IsWellFoundedOn(R, Nat)
    BY NatLessThanWellFounded
  <1> HIDE DEF R
  <1>3. PICK m \in T : \A n \in T : ~(<<n, m>> \in R)
    BY <1>2, WFMin
  <1>4. ASSUME NEW n \in T PROVE m <= n
    <2>1. m \in Nat /\ n \in Nat /\ ~(n < m)
      BY <1>1, <1>3, Zenon
    <2> QED
      BY <2>1
  <1> QED
    BY <1>3, <1>4

\* One that is bounded has a greatest.
LEMMA Greatest ==
    ASSUME NEW T \in SUBSET Nat, T # {}, NEW b \in Nat, \A n \in T : n <= b
    PROVE  \E m \in T : \A n \in T : n <= m
  <1> DEFINE U == {b - n : n \in T}
  <1>1. U \in SUBSET Nat /\ U # {}
    <2>1. \A n \in T : b - n \in Nat
      OBVIOUS
    <2> QED
      BY <2>1, Zenon
  <1>2. PICK u \in U : \A v \in U : u <= v
    BY <1>1, Least
  <1>3. PICK m \in T : u = b - m
    BY <1>2
  <1>4. ASSUME NEW n \in T PROVE n <= m
    <2>1. b - n \in U
      OBVIOUS
    <2> QED
      BY <1>2, <1>3, <2>1
  <1> QED
    BY <1>4

-----------------------------------------------------------------------------
(* SqlGuard: runs of quotes, and where a lexeme ends *)

\* A run of q in s ends at y; it begins at x or after it.
EndsRun(s, q, x, y) ==
    \E k \in x..y : (\A j \in k..y : s[j] = q) /\ (k = x \/ s[k - 1] # q)

\* Every run of quotes begins somewhere.
LEMMA RunStart ==
    ASSUME NEW s, NEW q, NEW x \in Nat, NEW y \in Nat, x <= y, s[y] = q
    PROVE  EndsRun(s, q, x, y)
  <1> DEFINE T == {k \in x..y : \A j \in k..y : s[j] = q}
  <1>1. T \in SUBSET Nat /\ y \in T
    OBVIOUS
  <1>2. PICK k \in T : \A n \in T : k <= n
    BY <1>1, Least
  <1>3. k \in x..y /\ \A j \in k..y : s[j] = q
    BY <1>2
  <1>4. ASSUME k # x, s[k - 1] = q PROVE FALSE
    <2>1. k - 1 \in x..y /\ ~(k <= k - 1) /\ \A j \in (k - 1)..y : j = k - 1 \/ j \in k..y
      BY <1>3, <1>4
    <2>2. k - 1 \in T
      BY <1>3, <1>4, <2>1
    <2> QED
      BY <1>2, <2>1, <2>2
  <1> QED
    BY <1>3, <1>4 DEF EndsRun

\* Odd numbers: no two in a row, and every second one.
LEMMA Parity ==
    ASSUME NEW n \in Int
    PROVE  /\ ~(n % 2 = 1 /\ (n + 1) % 2 = 1)
           /\ n % 2 = 1 => (n + 2) % 2 = 1
           /\ 0 % 2 # 1 /\ 1 % 2 = 1
  OBVIOUS

\* What closes quoted text is a quote after pairs of them; no longer stretch
\* has pairs alone.
LEMMA ClosesOnce ==
    ASSUME NEW s, NEW q, NEW x \in Nat, NEW z \in Nat, NEW y \in Nat, x <= z, z <= y,
           s[z] = q, Doubled(s, q, x, z - 1), z < y => s[z + 1] # q
    PROVE  ~Doubled(s, q, x, y)
  <1> SUFFICES ASSUME Doubled(s, q, x, y) PROVE FALSE
    OBVIOUS
  <1>1. PICK k \in x..z : (\A j \in k..z : s[j] = q) /\ (k = x \/ s[k - 1] # q)
    <2>1. EndsRun(s, q, x, z)
      BY RunStart
    <2> QED
      BY <2>1 DEF EndsRun
  <1>2. k \in x..y /\ z \in x..y /\ k <= z /\ (z = y \/ s[z + 1] # q)
    OBVIOUS
  <1>3. (z - k) % 2 = 1
    BY <1>1, <1>2 DEF Doubled
  <1>4. CASE k = z
    BY <1>3, <1>4, Parity
  <1>5. CASE k < z
    <2>1. k \in x..(z - 1) /\ z - 1 \in x..(z - 1) /\ k <= z - 1
      BY <1>5
    <2>2. \A j \in k..(z - 1) : s[j] = q
      BY <1>1, <2>1
    <2>3. ((z - 1) - k) % 2 = 1
      BY <1>1, <2>1, <2>2 DEF Doubled
    <2>4. (z - 1) - k \in Int /\ ((z - 1) - k) + 1 = z - k
      OBVIOUS
    <2> QED
      BY <1>3, <2>3, <2>4, Parity
  <1> QED
    BY <1>4, <1>5

\* Where a lexeme begins decides where it ends.
LEMMA LexemeEnds ==
    ASSUME NEW s, Len(s) \in Nat, NEW b \in 1..Len(s), NEW a, NEW c,
           a \in (b + 1)..(Len(s) + 1), c \in (b + 1)..(Len(s) + 1),
           Lexeme(s, b, a), Lexeme(s, b, c)
    PROVE  ~(a < c)
  <1> SUFFICES ASSUME a < c PROVE FALSE
    OBVIOUS
  <1>1. a \in Nat /\ b \in Nat /\ c \in Nat /\ a <= Len(s) /\ a # Len(s) + 1 /\ a >= b + 1 /\ a >= 1
    OBVIOUS
  <1>2. CASE LineLexeme(s, b, a)
    <2>1. LineLexeme(s, b, c)
      BY <1>1, <1>2 DEF Lexeme, LineLexeme, BlockLexeme, QuotedLexeme, CodeLexeme, Quote
    <2>2. s[a] = "nl" /\ a \in b..(c - 1)
      BY <1>1, <1>2 DEF LineLexeme
    <2> QED
      BY <2>1, <2>2 DEF LineLexeme
  <1>3. CASE BlockLexeme(s, b, a)
    <2>1. BlockLexeme(s, b, c)
      BY <1>1, <1>3 DEF Lexeme, LineLexeme, BlockLexeme, QuotedLexeme, CodeLexeme, Quote
    <2>2. a >= b + 4 /\ s[a - 2] = "*" /\ s[a - 1] = "/"
      BY <1>1, <1>3 DEF BlockLexeme
    <2>3. a - 2 \in (b + 2)..(c - 3) /\ (a - 2) + 1 = a - 1
      BY <1>1, <2>2
    <2> QED
      BY <2>1, <2>2, <2>3 DEF BlockLexeme
  <1>4. CASE QuotedLexeme(s, b, a)
    <2> DEFINE q == s[b]
    <2>1. QuotedLexeme(s, b, c)
      BY <1>1, <1>4 DEF Lexeme, LineLexeme, BlockLexeme, QuotedLexeme, CodeLexeme, Quote
    <2>2. a >= b + 2 /\ s[a - 1] = q /\ Doubled(s, q, b + 1, a - 2) /\ s[a] # q
      BY <1>1, <1>4 DEF QuotedLexeme
    <2>3. PICK y \in Nat : a - 1 <= y /\ Doubled(s, q, b + 1, y)
      <3>1. CASE Doubled(s, q, b + 1, c - 2)
        <4>1. c - 2 \in Nat /\ a - 1 <= c - 2
          BY <1>1, <2>2
        <4> QED
          BY <3>1, <4>1
      <3>2. CASE Doubled(s, q, b + 1, c - 1)
        <4>1. c - 1 \in Nat /\ a - 1 <= c - 1
          BY <1>1, <2>2
        <4> QED
          BY <3>2, <4>1
      <3> QED
        BY <2>1, <3>1, <3>2 DEF QuotedLexeme
    <2> HIDE DEF q
    <2> DEFINE z == a - 1
    <2>4. /\ b + 1 \in Nat /\ z \in Nat /\ b + 1 <= z /\ z <= y /\ z - 1 = a - 2 /\ z + 1 = a
      BY <1>1, <2>2, <2>3
    <2>5. s[z] = q /\ Doubled(s, q, b + 1, z - 1) /\ s[z + 1] # q
      BY <2>2, <2>4
    <2> HIDE DEF z
    <2> QED
      BY <2>3, <2>4, <2>5, ClosesOnce
  <1>5. CASE CodeLexeme(s, b, a)
    <2>1. CodeLexeme(s, b, c)
      BY <1>1, <1>5 DEF Lexeme, LineLexeme, BlockLexeme, QuotedLexeme, CodeLexeme
    <2> QED
      BY <1>1, <1>5, <2>1 DEF CodeLexeme
  <1> QED
    BY <1>2, <1>3, <1>4, <1>5 DEF Lexeme

-----------------------------------------------------------------------------
(* Rows: a statement is one row of lexemes. *)

\* Of two rows of one statement, the cuts of one lie in the other.
LEMMA RowWithin ==
    ASSUME NEW s, Len(s) \in Nat, NEW B, NEW C,
           RowTo(s, B, Len(s) + 1), RowTo(s, C, Len(s) + 1)
    PROVE  B \subseteq C
  <1> DEFINE D == {d \in B : d \notin C}
  <1>1. /\ B \subseteq 1..(Len(s) + 1) /\ 1 \in B /\ Len(s) + 1 \in B
        /\ C \subseteq 1..(Len(s) + 1) /\ 1 \in C /\ Len(s) + 1 \in C
    BY DEF RowTo
  <1>0. \A d \in B : d \in Nat
    BY <1>1
  <1>2. /\ \A b \in B \ {Len(s) + 1} : \E a \in B :
            b < a /\ (\A d \in B : ~(b < d /\ d < a)) /\ Lexeme(s, b, a)
        /\ \A b \in C \ {Len(s) + 1} : \E a \in C : b < a /\ Lexeme(s, b, a)
    BY DEF RowTo
  <1> SUFFICES ASSUME D # {} PROVE FALSE
    OBVIOUS
  <1>3. PICK m \in D : \A n \in D : m <= n
    <2>1. D \in SUBSET Nat
      BY <1>0
    <2> QED
      BY <2>1, Least
  <1>4. m \in Nat /\ m > 1 /\ m <= Len(s) + 1 /\ m \in B /\ m \notin C
    BY <1>1, <1>3
  <1> DEFINE P == {d \in B : d < m}
  <1>5. PICK p \in P : \A n \in P : n <= p
    <2>1. P \in SUBSET Nat /\ 1 \in P
      BY <1>0, <1>1, <1>4
    <2>2. \A n \in P : n <= m
      BY <1>0, <1>4
    <2> QED
      BY <1>4, <2>1, <2>2, Greatest
  <1>6. p \in B /\ p < m /\ p \in 1..Len(s)
    BY <1>1, <1>4, <1>5
  <1>7. p \in C
    BY <1>3, <1>4, <1>6
  <1>8. PICK a \in B : p < a /\ (\A d \in B : ~(p < d /\ d < a)) /\ Lexeme(s, p, a)
    BY <1>2, <1>6
  <1>9. a = m
    <2>1. a \in Nat /\ p \in Nat
      BY <1>1, <1>6, <1>8
    <2>2. ~(m < a)
      BY <1>4, <1>6, <1>8
    <2>3. ~(a < m)
      BY <1>5, <1>8, <2>1
    <2> QED
      BY <1>4, <2>1, <2>2, <2>3
  <1>10. PICK c \in C : p < c /\ Lexeme(s, p, c)
    BY <1>2, <1>6, <1>7
  <1>11. c \in (p + 1)..(Len(s) + 1) /\ m \in (p + 1)..(Len(s) + 1)
    BY <1>1, <1>4, <1>6, <1>10
  <1> HIDE DEF D, P
  <1>12. ~(c < m) /\ ~(m < c)
    BY <1>6, <1>8, <1>9, <1>10, <1>11, LexemeEnds
  <1>13. c = m
    BY <1>6, <1>11, <1>12
  <1> QED
    BY <1>4, <1>10, <1>13

\* The code of a statement is read off any row of it.
LEMMA CodeIs ==
    ASSUME NEW s, Len(s) \in Nat, NEW B, RowTo(s, B, Len(s) + 1)
    PROVE  Code(s) = {b \in B \ {Len(s) + 1} : CodeLexeme(s, b, b + 1)}
  <1> DEFINE cuts == CHOOSE c \in SUBSET (1..(Len(s) + 1)) : RowTo(s, c, Len(s) + 1)
  <1>1. B \in SUBSET (1..(Len(s) + 1))
    BY DEF RowTo
  <1>2. RowTo(s, cuts, Len(s) + 1)
    BY <1>1, Zenon
  <1> HIDE DEF cuts
  <1>3. cuts = B
    BY <1>2, RowWithin
  <1> QED
    BY <1>3 DEF Code, cuts

-----------------------------------------------------------------------------
(* Tokens *)

\* No identifier character stands next to the x-th.
Alone(t, x) ==
    /\ x = 1 \/ t[x - 1] \notin Ident
    /\ x = Len(t) \/ t[x + 1] \notin Ident

\* An identifier character belongs to a token that begins at or before it.
LEMMA TokenBefore ==
    ASSUME NEW t, Len(t) \in Nat, NEW y \in 1..Len(t), t[y] \in Ident
    PROVE  \E r \in Tokens(t) : r[1] <= y
  <1> DEFINE L == {k \in 1..y : \A j \in k..y : t[j] \in Ident}
             R == {k \in y..Len(t) : \A j \in y..k : t[j] \in Ident}
  <1>1. PICK x \in L : \A n \in L : x <= n
    <2>1. L \in SUBSET Nat /\ y \in L
      OBVIOUS
    <2> QED
      BY <2>1, Least
  <1>2. PICK z \in R : \A n \in R : n <= z
    <2>1. R \in SUBSET Nat /\ y \in R
      OBVIOUS
    <2>2. \A n \in R : n <= Len(t)
      OBVIOUS
    <2> QED
      BY <2>1, <2>2, Greatest
  <1>3. x \in 1..y /\ z \in y..Len(t) /\ \A j \in x..z : t[j] \in Ident
    BY <1>1, <1>2
  <1>4. ASSUME x # 1, t[x - 1] \in Ident PROVE FALSE
    <2>1. x - 1 \in 1..y /\ ~(x <= x - 1) /\ \A j \in (x - 1)..y : j = x - 1 \/ j \in x..y
      BY <1>3, <1>4
    <2>2. x - 1 \in L
      BY <1>1, <1>4, <2>1
    <2> QED
      BY <1>1, <2>1, <2>2
  <1>5. ASSUME z # Len(t), t[z + 1] \in Ident PROVE FALSE
    <2>1. z + 1 \in y..Len(t) /\ ~(z + 1 <= z) /\ \A j \in y..(z + 1) : j = z + 1 \/ j \in y..z
      BY <1>3, <1>5
    <2>2. z + 1 \in R
      BY <1>2, <1>5, <2>1
    <2> QED
      BY <1>2, <2>1, <2>2
  <1> HIDE DEF L, R
  <1> DEFINE r == <<x, z>>
  <1>6. r \in (1..Len(t)) \X (1..Len(t)) /\ r[1] = x /\ r[2] = z /\ x <= z /\ x <= y
    BY <1>3
  <1> HIDE DEF r
  <1>7. r \in Tokens(t)
    BY <1>3, <1>4, <1>5, <1>6 DEF Tokens
  <1> QED
    BY <1>6, <1>7

\* A token of one character is one that no identifier character is next to.
LEMMA OneCharacter ==
    ASSUME NEW t, Len(t) \in Nat
    PROVE  /\ \A x \in 1..Len(t) : t[x] \in Ident /\ Alone(t, x) =>
                \E p \in Tokens(t) : p[1] = x /\ p[2] = x
           /\ \A p \in Tokens(t) : /\ p[1] \in 1..Len(t) /\ t[p[1]] \in Ident
                                   /\ p[1] = p[2] => Alone(t, p[1])
  <1>1. ASSUME NEW x \in 1..Len(t), t[x] \in Ident, Alone(t, x)
        PROVE  \E p \in Tokens(t) : p[1] = x /\ p[2] = x
    <2> DEFINE p == <<x, x>>
    <2>1. p \in (1..Len(t)) \X (1..Len(t)) /\ p[1] = x /\ p[2] = x
          /\ x <= x /\ \A k \in x..x : k = x
      OBVIOUS
    <2> HIDE DEF p
    <2>2. p \in Tokens(t)
      BY <1>1, <2>1 DEF Tokens, Alone
    <2> QED
      BY <2>1, <2>2
  <1>2. ASSUME NEW p \in Tokens(t)
        PROVE  p[1] \in 1..Len(t) /\ t[p[1]] \in Ident /\ (p[1] = p[2] => Alone(t, p[1]))
    <2>1. /\ p[1] \in 1..Len(t) /\ p[2] \in 1..Len(t) /\ p[1] <= p[2]
          /\ \A k \in p[1]..p[2] : t[k] \in Ident
          /\ p[1] = 1 \/ t[p[1] - 1] \notin Ident
          /\ p[2] = Len(t) \/ t[p[2] + 1] \notin Ident
      BY DEF Tokens
    <2>2. p[1] \in p[1]..p[2]
      BY <2>1
    <2> QED
      BY <2>1, <2>2 DEF Alone
  <1> QED
    BY <1>1, <1>2

\* The leading keyword, said of characters and not of tokens.
LEMMA LeadsIs ==
    ASSUME NEW t, Len(t) \in Nat
    PROVE  Leads(t) <=> \E x \in 1..Len(t) : /\ t[x] = "S" /\ Alone(t, x)
                                             /\ \A y \in 1..(x - 1) : t[y] \notin Ident
  <1>1. ASSUME NEW p \in Tokens(t), p[1] = p[2], t[p[1]] = "S",
               \A r \in Tokens(t) : p[1] <= r[1]
        PROVE  \E x \in 1..Len(t) : /\ t[x] = "S" /\ Alone(t, x)
                                    /\ \A y \in 1..(x - 1) : t[y] \notin Ident
    <2> DEFINE x == p[1]
    <2>1. x \in 1..Len(t) /\ Alone(t, x) /\ t[x] = "S"
      BY <1>1, OneCharacter
    <2>2. ASSUME NEW y \in 1..(x - 1), t[y] \in Ident PROVE FALSE
      <3>1. y \in 1..Len(t) /\ y < x
        BY <2>1
      <3>2. PICK r \in Tokens(t) : r[1] <= y
        BY <2>2, <3>1, TokenBefore
      <3>3. r[1] \in Nat /\ x <= r[1]
        BY <1>1, OneCharacter
      <3> QED
        BY <2>1, <3>1, <3>2, <3>3
    <2> QED
      BY <2>1, <2>2
  <1>2. ASSUME NEW x \in 1..Len(t), t[x] = "S", Alone(t, x), \A y \in 1..(x - 1) : t[y] \notin Ident
        PROVE  \E p \in Tokens(t) : /\ p[1] = p[2] /\ t[p[1]] = "S"
                                    /\ \A r \in Tokens(t) : p[1] <= r[1]
    <2>1. PICK p \in Tokens(t) : p[1] = x /\ p[2] = x
      BY <1>2, OneCharacter DEF Ident
    <2>2. ASSUME NEW r \in Tokens(t) PROVE x <= r[1]
      <3>1. r[1] \in 1..Len(t) /\ t[r[1]] \in Ident
        BY OneCharacter
      <3>2. ~(r[1] < x)
        BY <1>2, <3>1
      <3> QED
        BY <3>1, <3>2
    <2> QED
      BY <1>2, <2>1, <2>2
  <1> QED
    BY <1>1, <1>2 DEF Leads

\* A write keyword, said of characters.
LEMMA WritesIs ==
    ASSUME NEW t, Len(t) \in Nat
    PROVE  Writes(t) <=> \E x \in 1..Len(t) : t[x] = "W" /\ Alone(t, x)
  <1>1. ASSUME NEW p \in Tokens(t), p[1] = p[2], t[p[1]] = "W"
        PROVE  \E x \in 1..Len(t) : t[x] = "W" /\ Alone(t, x)
    BY <1>1, OneCharacter
  <1>2. ASSUME NEW x \in 1..Len(t), t[x] = "W", Alone(t, x)
        PROVE  \E p \in Tokens(t) : p[1] = p[2] /\ t[p[1]] = "W"
    <2>1. PICK p \in Tokens(t) : p[1] = x /\ p[2] = x
      BY <1>2, OneCharacter DEF Ident
    <2> QED
      BY <1>2, <2>1
  <1> QED
    BY <1>1, <1>2 DEF Writes

-----------------------------------------------------------------------------
(* The skeleton mirrors the row. *)

\* What a lexeme leaves in the skeleton, if it leaves something.
Shown(s, b) == IF CodeLexeme(s, b, b + 1) THEN s[b] ELSE " "

\* t shows lexemes of the row B up to e, those of code all of them; two
\* identifier characters that are next to each other in t are so in s.
Mirrors(s, t, B, at, e) ==
    /\ at \in [1..Len(t) -> B \ {e}]
    /\ \A k, l \in 1..Len(t) : k < l => at[k] < at[l]
    /\ \A k \in 1..Len(t) : t[k] = Shown(s, at[k])
    /\ \A b \in B \ {e} : CodeLexeme(s, b, b + 1) => \E k \in 1..Len(t) : at[k] = b
    /\ \A k, l \in 1..Len(t) :
        l = k + 1 /\ t[k] \in Ident /\ t[l] \in Ident => at[l] = at[k] + 1

\* A skeleton that mirrors the whole statement is judged as the statement is.
LEMMA VerdictRight ==
    ASSUME NEW s, Len(s) \in Nat, NEW t, Len(t) \in Nat, NEW B, NEW at,
           RowTo(s, B, Len(s) + 1), Mirrors(s, t, B, at, Len(s) + 1)
    PROVE  (Verdict(t) = "ok") <=> ReadOnly(s)
  <1> DEFINE code == Code(s)
             N == 1..Len(t)
  <1>1. code = {b \in B \ {Len(s) + 1} : CodeLexeme(s, b, b + 1)}
    BY CodeIs
  <1>2. \A b \in B : b \in Nat
    BY DEF RowTo
  <1> HIDE DEF code
  <1>3. /\ \A k \in N : at[k] \in B \ {Len(s) + 1} /\ at[k] \in Nat /\ k \in Nat
        /\ \A k, l \in N : k < l => at[k] < at[l]
        /\ \A k \in N : t[k] = Shown(s, at[k])
        /\ \A c \in code : c \in Nat /\ \E k \in N : at[k] = c
        /\ \A k, l \in N : l = k + 1 /\ t[k] \in Ident /\ t[l] \in Ident => at[l] = at[k] + 1
    BY <1>1, <1>2 DEF Mirrors
  <1>4. \A k \in N : at[k] \in code => t[k] = s[at[k]]
    BY <1>1, <1>3 DEF Shown
  <1>5. \A k \in N : t[k] # " " => at[k] \in code
    BY <1>1, <1>3 DEF Shown
  <1>6. \A k, l \in N : at[k] < at[l] => k < l
    <2> SUFFICES ASSUME NEW k \in N, NEW l \in N, at[k] < at[l], ~(k < l) PROVE FALSE
      OBVIOUS
    <2>1. at[k] \in Nat /\ at[l] \in Nat /\ k \in Nat /\ l \in Nat
      BY <1>3
    <2>2. l < k \/ l = k
      BY <2>1
    <2> QED
      BY <1>3, <2>1, <2>2
  <1>7. \A k, l \in N : at[l] = at[k] + 1 => l = k + 1
    <2> SUFFICES ASSUME NEW k \in N, NEW l \in N, at[l] = at[k] + 1, l # k + 1 PROVE FALSE
      OBVIOUS
    <2>1. at[k] \in Nat /\ at[l] \in Nat /\ k \in Nat /\ l \in Nat
      BY <1>3
    <2>2. k < l
      BY <1>6, <2>1
    <2>3. k + 1 \in N /\ k < k + 1 /\ k + 1 < l
      BY <2>1, <2>2
    <2>4. at[k + 1] \in Nat /\ at[k] < at[k + 1] /\ at[k + 1] < at[l]
      BY <1>3, <2>3
    <2> QED
      BY <2>1, <2>4
  <1>0. \A x : x \in N <=> x \in Nat /\ 1 <= x /\ x <= Len(t)
    OBVIOUS
  <1>8. " " \notin Ident /\ ";" # " " /\ " " \in Blank
    BY DEF Ident, Blank
  <1> HIDE DEF N
  <1>9. ASSUME NEW x \in N, t[x] \in Ident
        PROVE  Alone(t, x) <=> \A j \in {at[x] - 1, at[x] + 1} \cap code : s[j] \notin Ident
    <2>0. x \in Nat /\ x >= 1 /\ x <= Len(t) /\ at[x] \in Nat /\ at[x] \in code
      <3>1. at[x] \in Nat /\ at[x] \in code
        BY <1>3, <1>5, <1>8, <1>9
      <3>2. x \in Nat /\ x >= 1 /\ x <= Len(t)
        BY DEF N
      <3> QED
        BY <3>1, <3>2
    <2>1. ASSUME Alone(t, x), NEW j \in {at[x] - 1, at[x] + 1} \cap code, s[j] \in Ident
          PROVE  FALSE
      <3>1. PICK y \in N : at[y] = j
        BY <1>3
      <3>2. t[y] \in Ident
        BY <1>4, <2>1, <3>1
      <3>3. CASE j = at[x] + 1
        <4>1. y = x + 1
          BY <1>7, <3>1, <3>3
        <4>2. x # Len(t)
          BY <2>0, <4>1 DEF N
        <4> QED
          BY <2>1, <3>2, <4>1, <4>2 DEF Alone
      <3>4. CASE j = at[x] - 1
        <4>1. at[x] = at[y] + 1
          BY <2>0, <3>1, <3>4
        <4>2. x = y + 1 /\ y \in Nat /\ y >= 1
          BY <1>7, <4>1 DEF N
        <4>3. x # 1 /\ x - 1 = y
          BY <4>2
        <4> QED
          BY <2>1, <3>2, <4>3 DEF Alone
      <3> QED
        BY <2>1, <3>3, <3>4
    <2>2. ASSUME \A j \in {at[x] - 1, at[x] + 1} \cap code : s[j] \notin Ident, x # 1,
                 t[x - 1] \in Ident
          PROVE  FALSE
      <3>1. x - 1 \in N /\ x = (x - 1) + 1
        BY <2>0, <2>2 DEF N
      <3>2. at[x] = at[x - 1] + 1 /\ at[x - 1] \in Nat /\ at[x - 1] \in code
        BY <1>3, <1>5, <1>8, <1>9, <2>2, <3>1
      <3>3. at[x - 1] = at[x] - 1
        BY <3>2
      <3>4. s[at[x - 1]] \in Ident
        BY <1>4, <2>2, <3>1, <3>2
      <3> QED
        BY <2>2, <3>2, <3>3, <3>4
    <2>3. ASSUME \A j \in {at[x] - 1, at[x] + 1} \cap code : s[j] \notin Ident, x # Len(t),
                 t[x + 1] \in Ident
          PROVE  FALSE
      <3>1. x + 1 \in N
        BY <2>0, <2>3 DEF N
      <3>2. at[x + 1] = at[x] + 1 /\ at[x + 1] \in code
        BY <1>3, <1>5, <1>8, <1>9, <2>3, <3>1
      <3>3. s[at[x + 1]] \in Ident
        BY <1>4, <2>3, <3>1, <3>2
      <3> QED
        BY <2>3, <3>2, <3>3
    <2> QED
      BY <2>1, <2>2, <2>3 DEF Alone
  <1>10. ASSUME NEW c \in Ident, NEW x \in N, t[x] = c, Alone(t, x)
         PROVE  at[x] \in code /\ Word(s, code, at[x], c)
    <2>1. t[x] \in Ident /\ at[x] \in code
      BY <1>5, <1>8, <1>10
    <2> QED
      BY <1>4, <1>9, <1>10, <2>1 DEF Word
  <1>11. ASSUME NEW c \in Ident, NEW k \in code, Word(s, code, k, c)
         PROVE  \E x \in N : at[x] = k /\ t[x] = c /\ Alone(t, x)
    <2>1. PICK x \in N : at[x] = k
      BY <1>3
    <2>2. t[x] = c
      BY <1>4, <1>11, <2>1 DEF Word
    <2> QED
      BY <1>9, <1>11, <2>1, <2>2 DEF Word
  <1>12. "S" \in Ident /\ "W" \in Ident
    BY DEF Ident
  <1>13. Writes(t) <=> \E k \in code : Word(s, code, k, "W")
    <2>1. Writes(t) <=> \E x \in N : t[x] = "W" /\ Alone(t, x)
      BY WritesIs DEF N
    <2> QED
      BY <1>10, <1>11, <1>12, <2>1
  <1>14. Leads(t) <=> \E k \in code : /\ Word(s, code, k, "S")
                                      /\ \A j \in code : j < k => s[j] \notin Ident
    <2>1. Leads(t) <=> \E x \in N : /\ t[x] = "S" /\ Alone(t, x)
                                    /\ \A y \in 1..(x - 1) : t[y] \notin Ident
      BY LeadsIs DEF N
    <2>2. ASSUME NEW x \in N, t[x] = "S", Alone(t, x), \A y \in 1..(x - 1) : t[y] \notin Ident,
                 NEW j \in code, j < at[x], s[j] \in Ident
          PROVE  FALSE
      <3>1. PICK y \in N : at[y] = j
        BY <1>3
      <3>2. y < x /\ t[y] \in Ident
        BY <1>4, <1>6, <2>2, <3>1
      <3>3. y \in 1..(x - 1)
        BY <3>2 DEF N
      <3> QED
        BY <2>2, <3>2, <3>3
    <2>3. ASSUME NEW k \in code, NEW x \in N, at[x] = k, \A j \in code : j < k => s[j] \notin Ident,
                 NEW y \in 1..(x - 1), t[y] \in Ident
          PROVE  FALSE
      <3>1. y \in N /\ y < x
        BY DEF N
      <3>2. at[y] < k /\ at[y] \in code
        BY <1>3, <1>5, <1>8, <2>3, <3>1
      <3> QED
        BY <1>4, <2>3, <3>1, <3>2
    <2>4. ASSUME NEW x \in N, t[x] = "S", Alone(t, x), \A y \in 1..(x - 1) : t[y] \notin Ident
          PROVE  \E k \in code : /\ Word(s, code, k, "S")
                                 /\ \A j \in code : j < k => s[j] \notin Ident
      BY <1>10, <1>12, <2>2, <2>4
    <2>5. ASSUME NEW k \in code, Word(s, code, k, "S"), \A j \in code : j < k => s[j] \notin Ident
          PROVE  \E x \in N : /\ t[x] = "S" /\ Alone(t, x)
                              /\ \A y \in 1..(x - 1) : t[y] \notin Ident
      BY <1>11, <1>12, <2>3, <2>5
    <2> QED
      BY <2>1, <2>4, <2>5
  <1>15. Stacked(t) <=> \E k, j \in code : s[k] = ";" /\ k < j /\ s[j] \notin Blank
    <2>1. ASSUME NEW x \in N, NEW y \in (x + 1)..Len(t), t[x] = ";", t[y] \notin Blank
          PROVE  \E k, j \in code : s[k] = ";" /\ k < j /\ s[j] \notin Blank
      <3>1. y \in N /\ x < y
        BY DEF N
      <3>2. at[x] \in code /\ at[y] \in code
        BY <1>5, <1>8, <2>1, <3>1
      <3>3. at[x] < at[y] /\ t[x] = s[at[x]] /\ t[y] = s[at[y]]
        BY <1>3, <1>4, <3>1, <3>2
      <3> QED
        BY <2>1, <3>2, <3>3
    <2>2. ASSUME NEW k \in code, NEW j \in code, s[k] = ";", k < j, s[j] \notin Blank
          PROVE  Stacked(t)
      <3>1. PICK x \in N : at[x] = k
        BY <1>3
      <3>2. PICK y \in N : at[y] = j
        BY <1>3
      <3>3. x < y /\ t[x] = ";" /\ t[y] \notin Blank
        BY <1>4, <1>6, <2>2, <3>1, <3>2
      <3> DEFINE T == {h \in N : t[h] = ";"}
      <3>4. PICK z \in T : \A n \in T : z <= n
        <4>1. T \in SUBSET Nat
          BY <1>0
        <4>2. x \in T
          BY <3>3
        <4> QED
          BY <4>1, <4>2, Least
      <3>0. y \in Nat /\ y <= Len(t) /\ x \in Nat /\ x <= Len(t)
        BY <1>0, <3>1, <3>2
      <3>5. z \in N /\ t[z] = ";" /\ z <= x
        BY <3>3, <3>4
      <3> HIDE DEF T
      <3>8. z \in Nat /\ 1 <= z /\ z <= Len(t) /\ z \in 1..Len(t)
        <4>1. z \in N
          BY <3>5
        <4>2. z \in Nat
          BY <1>0, <4>1
        <4>3. 1 <= z
          BY <1>0, <4>1
        <4>4. z <= Len(t)
          BY <1>0, <4>1
        <4> QED
          BY <4>2, <4>3, <4>4
      <3>6. ASSUME NEW n \in 1..(z - 1), t[n] = ";" PROVE FALSE
        <4>1. n \in N /\ ~(z <= n)
          <5>1. n \in Nat /\ 1 <= n /\ n < z /\ z <= Len(t) /\ z \in Nat
            BY <3>8
          <5> QED
            BY <1>0, <5>1
        <4> QED
          BY <3>4, <3>6, <4>1 DEF T
      <3>7. y \in (z + 1)..Len(t)
        <4>1. z \in Nat /\ z < y
          <5>1. z <= x /\ x < y
            BY <3>3, <3>5, Zenon
          <5> QED
            BY <3>0, <3>8, <5>1
        <4> QED
          BY <3>0, <4>1
      <3> QED
        BY <3>3, <3>5, <3>6, <3>7, <3>8 DEF Stacked
    <2> QED
      BY <2>1, <2>2 DEF Stacked, N
  <1>16. Leads(t) => ~Empty(t)
    BY LeadsIs DEF Empty, Blank
  <1>17. (Verdict(t) = "ok") <=> ~Stacked(t) /\ Leads(t) /\ ~Writes(t)
    BY <1>16 DEF Verdict
  <1>18. ReadOnly(s) <=>
            /\ \E k \in code : Word(s, code, k, "S") /\ \A j \in code : j < k => s[j] \notin Ident
            /\ ~\E k \in code : Word(s, code, k, "W")
            /\ \A k, j \in code : s[k] = ";" /\ k < j => s[j] \in Blank
    BY DEF ReadOnly, code
  <1> QED
    BY <1>13, <1>14, <1>15, <1>17, <1>18

-----------------------------------------------------------------------------
(* The scan *)

\* A row goes on with one more lexeme.
LEMMA RowMore ==
    ASSUME NEW s, NEW B, NEW b \in Nat, NEW a \in Nat, b < a, RowTo(s, B, b), Lexeme(s, b, a)
    PROVE  RowTo(s, B \cup {a}, a)
  <1> DEFINE C == B \cup {a}
  <1>1. /\ B \subseteq 1..b /\ 1 \in B /\ b \in B
        /\ \A c \in B \ {b} : \E d \in B :
            c < d /\ (\A e \in B : ~(c < e /\ e < d)) /\ Lexeme(s, c, d)
    BY DEF RowTo
  <1>2. \A c \in B : c \in Nat /\ 1 <= c /\ c <= b /\ c < a
    BY <1>1
  <1>3. \A c \in C : c \in 1..a
    BY <1>1, <1>2
  <1>4. ASSUME NEW c \in C \ {a}
        PROVE  \E d \in C : c < d /\ (\A e \in C : ~(c < e /\ e < d)) /\ Lexeme(s, c, d)
    <2>1. CASE c = b
      <3>1. \A e \in C : ~(b < e /\ e < a)
        BY <1>2
      <3> QED
        BY <2>1, <3>1
    <2>2. CASE c # b
      <3>1. c \in B \ {b}
        BY <2>2
      <3>2. PICK d \in B : c < d /\ (\A e \in B : ~(c < e /\ e < d)) /\ Lexeme(s, c, d)
        BY <1>1, <3>1
      <3>3. ~(a < d)
        BY <1>2
      <3> QED
        BY <3>2, <3>3
    <2> QED
      BY <2>1, <2>2
  <1> HIDE DEF C
  <1>5. 1 \in C /\ a \in C
    BY <1>1 DEF C
  <1>6. RowTo(s, C, a)
    BY <1>3, <1>4, <1>5 DEF RowTo
  <1> QED
    BY <1>6 DEF C

\* A lexeme that leaves nothing and is not code changes no mirror.
LEMMA MirrorsSkip ==
    ASSUME NEW s, NEW t, NEW B, NEW at, NEW b \in Nat, NEW a \in Nat, b < a, RowTo(s, B, b),
           Mirrors(s, t, B, at, b), ~CodeLexeme(s, b, b + 1)
    PROVE  Mirrors(s, t, B \cup {a}, at, a)
  <1>1. a \notin B
    BY DEF RowTo
  <1>2. (B \cup {a}) \ {a} = B
    BY <1>1
  <1>3. at \in [1..Len(t) -> B]
    BY DEF Mirrors
  <1> QED
    BY <1>2, <1>3 DEF Mirrors

\* What the skeleton gets next is not a continuation of a name, or it is one
\* in the statement too.
Fits(t, at, b, c) ==
    \/ Len(t) = 0 \/ t[Len(t)] \notin Ident \/ c \notin Ident
    \/ b = at[Len(t)] + 1

\* at, with b as the place of one more character.
Placed(at, n, b) == [k \in 1..(n + 1) |-> IF k = n + 1 THEN b ELSE at[k]]

\* A lexeme that leaves a character extends it.
LEMMA MirrorsPush ==
    ASSUME NEW s, NEW S, NEW t \in Seq(S), NEW B, NEW at, NEW b \in Nat, NEW a \in Nat, b < a,
           RowTo(s, B, b), Mirrors(s, t, B, at, b), NEW c \in S, c = Shown(s, b), Fits(t, at, b, c)
    PROVE  Mirrors(s, Append(t, c), B \cup {a}, Placed(at, Len(t), b), a)
  <1> DEFINE n == Len(t)
             more == [k \in 1..(n + 1) |-> IF k = n + 1 THEN b ELSE at[k]]
             u == Append(t, c)
             C == B \cup {a}
  <1>1. /\ n \in Nat /\ Len(u) = n + 1 /\ u[n + 1] = c
        /\ \A k \in 1..n : u[k] = t[k]
    OBVIOUS
  <1>2. B \subseteq 1..b /\ b \in B
    BY DEF RowTo
  <1>3. \A d \in B : d \in Nat /\ d <= b /\ d < a
    BY <1>2
  <1>4. C \ {a} = B
    BY <1>3
  <1>5. /\ \A k \in 1..n : at[k] \in B /\ at[k] # b
        /\ \A k, l \in 1..n : k < l => at[k] < at[l]
        /\ \A k \in 1..n : t[k] = Shown(s, at[k])
        /\ \A d \in B \ {b} : CodeLexeme(s, d, d + 1) => \E k \in 1..n : at[k] = d
        /\ \A k, l \in 1..n :
            l = k + 1 /\ t[k] \in Ident /\ t[l] \in Ident => at[l] = at[k] + 1
    BY DEF Mirrors
  <1>6. \A k \in 1..(n + 1) : k \in Nat /\ (k = n + 1 \/ (k \in 1..n /\ k # n + 1 /\ k < n + 1))
    BY <1>1
  <1>7. n + 1 \in 1..(n + 1) /\ \A k \in 1..n : k \in 1..(n + 1) /\ k # n + 1 /\ k \in Nat
    BY <1>1
  <1>8. /\ more[n + 1] = b /\ \A k \in 1..n : more[k] = at[k]
        /\ DOMAIN more = 1..(n + 1)
    BY <1>7
  <1> HIDE DEF u, C
  <1>9. more \in [1..(n + 1) -> C \ {a}]
    BY <1>2, <1>4, <1>5, <1>6
  <1> HIDE DEF more, n
  <1>10. ASSUME NEW k \in 1..(n + 1), NEW l \in 1..(n + 1), k < l PROVE more[k] < more[l]
    <2>1. k \in 1..n
      BY <1>1, <1>6, <1>10
    <2>2. CASE l = n + 1
      <3>1. at[k] \in Nat /\ at[k] <= b /\ at[k] # b
        BY <1>3, <1>5, <2>1
      <3> QED
        BY <1>8, <2>1, <2>2, <3>1
    <2>3. CASE l \in 1..n
      BY <1>5, <1>8, <1>10, <2>1, <2>3
    <2> QED
      BY <1>6, <2>2, <2>3
  <1>11. \A k \in 1..(n + 1) : u[k] = Shown(s, more[k])
    BY <1>1, <1>5, <1>6, <1>8
  <1>12. ASSUME NEW d \in B, CodeLexeme(s, d, d + 1) PROVE \E k \in 1..(n + 1) : more[k] = d
    <2>1. CASE d = b
      BY <1>7, <1>8, <2>1
    <2>2. CASE d # b
      BY <1>5, <1>7, <1>8, <1>12, <2>2
    <2> QED
      BY <2>1, <2>2
  <1>13. ASSUME NEW k \in 1..(n + 1), NEW l \in 1..(n + 1), l = k + 1, u[k] \in Ident,
                u[l] \in Ident
         PROVE  more[l] = more[k] + 1
    <2>1. k \in 1..n
      BY <1>1, <1>6, <1>13
    <2>2. CASE l = n + 1
      <3>1. k = n /\ n # 0
        BY <1>1, <1>13, <2>1, <2>2
      <3>2. t[n] \in Ident /\ c \in Ident
        BY <1>1, <1>13, <2>1, <2>2, <3>1
      <3>3. b = at[n] + 1
        BY <3>1, <3>2 DEF Fits, n
      <3> QED
        BY <1>8, <2>1, <2>2, <3>1, <3>3
    <2>3. CASE l \in 1..n
      BY <1>1, <1>5, <1>8, <1>13, <2>1, <2>3
    <2> QED
      BY <1>6, <2>2, <2>3
  <1>14. Mirrors(s, u, C, more, a)
    BY <1>1, <1>4, <1>9, <1>10, <1>11, <1>12, <1>13 DEF Mirrors
  <1> QED
    BY <1>14 DEF u, C, more, n, Placed

\* The comment or quoted text that opens at b goes on up to e.
Region(m, s, b, e) ==
    \/ /\ m = "line" /\ b + 2 <= e /\ s[b] = "-" /\ s[b + 1] = "-"
       /\ \A k \in b..(e - 1) : s[k] # "nl"
    \/ /\ m = "block" /\ b + 2 <= e /\ s[b] = "/" /\ s[b + 1] = "*"
       /\ \A k \in (b + 2)..(e - 1) : ~(s[k] = "*" /\ s[k + 1] = "/")
    \/ /\ m \in Quote /\ b + 1 <= e /\ s[b] = m /\ Doubled(s, m, b + 1, e - 1)

\* A name that the skeleton ends in goes on at e, or nothing does but a line's
\* end.
Resumes(s, t, at, e) ==
    \/ Len(t) = 0 \/ t[Len(t)] \notin Ident \/ e = at[Len(t)] + 1
    \/ e <= Len(s) => s[e] = "nl"

Chars == (UNION {sc.chars : sc \in Scopes}) \cup {" "}

SqlTypeOK ==
    /\ statement \in Seq(Chars) /\ out \in Seq(Chars)
    /\ i \in 1..(Len(statement) + 1)
    /\ mode \in {"code", "line", "block"} \cup Quote

\* The scan is at the lexeme that begins at b: the row before it is cut into
\* lexemes and the skeleton mirrors it.
Reaches(s, t, m, e, B, at, b) ==
    /\ RowTo(s, B, b) /\ Mirrors(s, t, B, at, b)
    /\ \/ m = "code" /\ b = e /\ Resumes(s, t, at, e)
       \/ b \in 1..Len(s) /\ Region(m, s, b, e)

Scanned == \E B, at, b : Reaches(statement, out, mode, i, B, at, b)

Judged == verdict # "none" =>
    mode = "code" /\ i = Len(statement) + 1 /\ verdict = Verdict(out)

\* A character other than the quote keeps every run even.
LEMMA DoubledOne ==
    ASSUME NEW s, NEW q, NEW x \in Nat, NEW y \in Nat, x <= y, Doubled(s, q, x, y - 1), s[y] # q
    PROVE  Doubled(s, q, x, y)
  <1> SUFFICES ASSUME NEW k \in x..y, NEW l \in x..y, k <= l, \A j \in k..l : s[j] = q,
                      k = x \/ s[k - 1] # q, l = y \/ s[l + 1] # q
               PROVE  (l - k) % 2 = 1
    BY DEF Doubled
  <1>1. l # y
    <2>1. l \in k..l
      OBVIOUS
    <2> QED
      BY <2>1
  <1>2. k \in x..(y - 1) /\ l \in x..(y - 1) /\ (l = y - 1 \/ s[l + 1] # q)
    BY <1>1
  <1> QED
    BY <1>2 DEF Doubled

\* So does an escape.
LEMMA DoubledTwo ==
    ASSUME NEW s, NEW q, NEW x \in Nat, NEW y \in Nat, x <= y, Doubled(s, q, x, y - 1),
           s[y] = q, s[y + 1] = q
    PROVE  Doubled(s, q, x, y + 1)
  <1> SUFFICES ASSUME NEW k \in x..(y + 1), NEW l \in x..(y + 1), k <= l,
                      \A j \in k..l : s[j] = q,
                      k = x \/ s[k - 1] # q, l = y + 1 \/ s[l + 1] # q
               PROVE  (l - k) % 2 = 1
    BY DEF Doubled
  <1>0. k \in Nat /\ l \in Nat /\ x <= k /\ l <= y + 1
    OBVIOUS
  <1>1. l # y
    <2>1. y # y + 1
      OBVIOUS
    <2> QED
      BY <2>1
  <1>2. CASE l = y + 1
    <2>1. k # y + 1
      <3>1. k = y + 1 => k # x /\ k - 1 = y
        OBVIOUS
      <3> QED
        BY <3>1
    <2>2. CASE k = y
      <3>1. l - k = 1
        BY <1>2, <2>2
      <3> QED
        BY <3>1, Parity
    <2>3. CASE k < y
      <3>1. k \in x..(y - 1) /\ y - 1 \in x..(y - 1) /\ k <= y - 1
        BY <1>0, <2>3
      <3>2. \A j \in k..(y - 1) : s[j] = q
        <4>1. \A j \in k..(y - 1) : j \in k..l
          BY <1>0, <1>2
        <4> QED
          BY <4>1
      <3>3. ((y - 1) - k) % 2 = 1
        BY <3>1, <3>2 DEF Doubled
      <3>4. (y - 1) - k \in Int /\ ((y - 1) - k) + 2 = l - k
        BY <1>0, <1>2
      <3> QED
        BY <3>3, <3>4, Parity
    <2> QED
      BY <1>0, <2>1, <2>2, <2>3
  <1>3. CASE l < y
    <2>1. k \in x..(y - 1) /\ l \in x..(y - 1) /\ s[l + 1] # q
      <3>1. l # y + 1
        BY <1>0, <1>3
      <3> QED
        BY <1>0, <1>3, <3>1
    <2> QED
      BY <2>1 DEF Doubled
  <1> QED
    BY <1>0, <1>1, <1>2, <1>3

\* InLine stops at the end of the line comment.
LEMMA LineEnds ==
    ASSUME NEW s, Len(s) \in Nat, NEW b \in 1..Len(s), NEW e \in 1..(Len(s) + 1),
           Region("line", s, b, e), e = Len(s) + 1 \/ s[e] = "nl"
    PROVE  b < e /\ Lexeme(s, b, e) /\ ~CodeLexeme(s, b, b + 1)
  <1>1. /\ b + 2 <= e /\ s[b] = "-" /\ s[b + 1] = "-"
        /\ \A k \in b..(e - 1) : s[k] # "nl"
    BY DEF Region, Quote
  <1>2. b \in Nat /\ e \in Nat /\ b < e /\ e >= b + 2 /\ b + 1 <= Len(s)
    BY <1>1
  <1>3. LineLexeme(s, b, e)
    BY <1>1, <1>2 DEF LineLexeme
  <1>4. ~CodeLexeme(s, b, b + 1)
    BY <1>1, <1>2 DEF CodeLexeme
  <1> QED
    BY <1>2, <1>3, <1>4 DEF Lexeme

\* InBlock stops behind the block comment.
LEMMA BlockEnds ==
    ASSUME NEW s, Len(s) \in Nat, NEW b \in 1..Len(s), NEW e \in 1..(Len(s) + 1),
           Region("block", s, b, e), NEW a,
           \/ e < Len(s) /\ s[e] = "*" /\ s[e + 1] = "/" /\ a = e + 2
           \/ ~(e < Len(s)) /\ a = Len(s) + 1
    PROVE  /\ a \in 1..(Len(s) + 1) /\ b < a /\ Lexeme(s, b, a) /\ ~CodeLexeme(s, b, b + 1)
  <1>1. /\ b + 2 <= e /\ s[b] = "/" /\ s[b + 1] = "*"
        /\ \A k \in (b + 2)..(e - 1) : ~(s[k] = "*" /\ s[k + 1] = "/")
    BY DEF Region, Quote
  <1>2. b \in Nat /\ b >= 1 /\ e \in Nat /\ b + 1 <= Len(s) /\ b <= Len(s) /\ e <= Len(s) + 1
    BY <1>1
  <1>3. ~CodeLexeme(s, b, b + 1)
    BY <1>1, <1>2 DEF CodeLexeme
  <1>4. CASE e < Len(s) /\ s[e] = "*" /\ s[e + 1] = "/" /\ a = e + 2
    <2>1. /\ a \in 1..(Len(s) + 1) /\ b < a /\ a >= b + 2 /\ a >= b + 4 /\ a - 2 = e /\ a - 1 = e + 1
          /\ a - 3 = e - 1
      BY <1>1, <1>2, <1>4
    <2>2. BlockLexeme(s, b, a)
      BY <1>1, <1>4, <2>1 DEF BlockLexeme
    <2> QED
      BY <1>3, <2>1, <2>2 DEF Lexeme
  <1>5. CASE ~(e < Len(s)) /\ a = Len(s) + 1
    <2>1. a \in 1..(Len(s) + 1) /\ b < a /\ a >= b + 2
      BY <1>1, <1>2, <1>5
    <2>2. \A k \in (b + 2)..(a - 3) : k \in (b + 2)..(e - 1)
      BY <1>2, <1>5
    <2>3. ~(a >= b + 4 /\ s[a - 2] = "*" /\ s[a - 1] = "/")
      <3>1. a >= b + 4 => a - 2 \in (b + 2)..(e - 1) /\ (a - 2) + 1 = a - 1
        BY <1>2, <1>5
      <3> QED
        BY <1>1, <3>1
    <2>4. BlockLexeme(s, b, a)
      BY <1>1, <1>5, <2>1, <2>2, <2>3 DEF BlockLexeme
    <2> QED
      BY <1>3, <2>1, <2>4 DEF Lexeme
  <1> QED
    BY <1>4, <1>5

\* InQuoted stops behind the quoted text.
LEMMA QuoteEnds ==
    ASSUME NEW s, Len(s) \in Nat, NEW b \in 1..Len(s), NEW e \in 1..(Len(s) + 1), NEW m \in Quote,
           Region(m, s, b, e), NEW a,
           \/ e <= Len(s) /\ s[e] = m /\ (e + 1 <= Len(s) => s[e + 1] # m) /\ a = e + 1
           \/ e = Len(s) + 1 /\ a = e
    PROVE  /\ a \in 1..(Len(s) + 1) /\ b < a /\ Lexeme(s, b, a) /\ ~CodeLexeme(s, b, b + 1)
  <1>1. b + 1 <= e /\ s[b] = m /\ Doubled(s, m, b + 1, e - 1)
    BY DEF Region, Quote
  <1>2. b \in Nat /\ e \in Nat /\ e >= 1
    OBVIOUS
  <1>3. ~CodeLexeme(s, b, b + 1)
    BY <1>1 DEF CodeLexeme
  <1>4. CASE e <= Len(s) /\ s[e] = m /\ (e + 1 <= Len(s) => s[e + 1] # m) /\ a = e + 1
    <2>1. /\ a \in 1..(Len(s) + 1) /\ b < a /\ a >= b + 2 /\ a - 1 = e /\ a - 2 = e - 1
          /\ a = Len(s) + 1 \/ e + 1 <= Len(s)
      BY <1>1, <1>2, <1>4
    <2>2. QuotedLexeme(s, b, a)
      BY <1>1, <1>4, <2>1 DEF QuotedLexeme
    <2> QED
      BY <1>3, <2>1, <2>2 DEF Lexeme
  <1>5. CASE e = Len(s) + 1 /\ a = e
    <2>1. a \in 1..(Len(s) + 1) /\ b < a
      BY <1>1, <1>2, <1>5
    <2>2. QuotedLexeme(s, b, a)
      BY <1>1, <1>5 DEF QuotedLexeme
    <2> QED
      BY <1>3, <2>1, <2>2 DEF Lexeme
  <1> QED
    BY <1>4, <1>5

\* A comment or quoted text has come to its end and leaves a space.
LEMMA Blanked ==
    ASSUME NEW s, NEW t \in Seq(Chars), NEW B, NEW at, NEW b \in Nat, NEW a \in Nat, b < a,
           RowTo(s, B, b), Mirrors(s, t, B, at, b), Lexeme(s, b, a), ~CodeLexeme(s, b, b + 1)
    PROVE  \E C, more, c : Reaches(s, Append(t, " "), "code", a, C, more, c)
  <1> DEFINE c == " "
             n == Len(t)
             more == Placed(at, n, b)
             u == Append(t, c)
  <1>1. RowTo(s, B \cup {a}, a)
    BY RowMore
  <1>2. c \in Chars
    BY DEF Chars
  <1>3. c = Shown(s, b)
    BY DEF Shown
  <1>4. c \notin Ident
    BY DEF Ident
  <1> HIDE DEF c
  <1>5. Fits(t, at, b, c)
    BY <1>4 DEF Fits
  <1>6. Mirrors(s, u, B \cup {a}, more, a)
    BY <1>2, <1>3, <1>5, MirrorsPush
  <1>7. Len(u) = n + 1 /\ u[n + 1] = c
    BY <1>2
  <1> HIDE DEF more, n, u
  <1>8. Resumes(s, u, more, a)
    BY <1>4, <1>7 DEF Resumes
  <1>9. Reaches(s, u, "code", a, B \cup {a}, more, a)
    BY <1>1, <1>6, <1>8 DEF Reaches
  <1> QED
    BY <1>9 DEF u, c

\* Outside of the inner loops the scan is at a cut.
LEMMA InCode ==
    ASSUME NEW s, NEW t, NEW e, NEW B, NEW at, NEW b, Reaches(s, t, "code", e, B, at, b)
    PROVE  b = e /\ RowTo(s, B, e) /\ Mirrors(s, t, B, at, e) /\ Resumes(s, t, at, e)
  <1>1. ~Region("code", s, b, e)
    BY DEF Region, Quote
  <1> QED
    BY <1>1 DEF Reaches

\* Inside of one it is in the region that opened at the last cut.
LEMMA InRegion ==
    ASSUME NEW s, NEW t, NEW m, m # "code", NEW e, NEW B, NEW at, NEW b,
           Reaches(s, t, m, e, B, at, b)
    PROVE  b \in 1..Len(s) /\ Region(m, s, b, e) /\ RowTo(s, B, b) /\ Mirrors(s, t, B, at, b)
  BY DEF Reaches

\* A comment or quoted text opens at e.
LEMMA Opens ==
    ASSUME NEW s, NEW t, NEW e \in 1..Len(s), NEW B, NEW at, NEW b,
           Reaches(s, t, "code", e, B, at, b), NEW m, NEW a, Region(m, s, e, a)
    PROVE  Reaches(s, t, m, a, B, at, e)
  BY InCode DEF Reaches

\* A character that is code is read.
LEMMA CodeTaken ==
    ASSUME NEW s \in Seq(Chars), NEW t \in Seq(Chars), NEW e \in 1..Len(s), NEW B, NEW at, NEW b,
           Reaches(s, t, "code", e, B, at, b), CodeLexeme(s, e, e + 1)
    PROVE  \E C, more, c : Reaches(s, Append(t, s[e]), "code", e + 1, C, more, c)
  <1> DEFINE c == s[e]
             n == Len(t)
             more == Placed(at, n, e)
             u == Append(t, c)
             a == e + 1
  <1>1. RowTo(s, B, e) /\ Mirrors(s, t, B, at, e) /\ Resumes(s, t, at, e)
    BY InCode
  <1>2. e \in Nat /\ a \in Nat /\ e < a /\ c \in Chars /\ n \in Nat
    OBVIOUS
  <1>3. Lexeme(s, e, a)
    BY DEF Lexeme
  <1>4. c = Shown(s, e)
    BY DEF Shown
  <1>5. Fits(t, at, e, c)
    <2>1. e <= Len(s) /\ "nl" \notin Ident
      BY DEF Ident
    <2> QED
      BY <1>1, <2>1 DEF Resumes, Fits
  <1>6. Len(u) = n + 1 /\ n + 1 \in 1..(n + 1)
    BY <1>2
  <1>7. more[n + 1] = e
    BY <1>6 DEF Placed
  <1> HIDE DEF c, a
  <1>8. RowTo(s, B \cup {a}, a)
    BY <1>1, <1>2, <1>3, RowMore
  <1>9. Mirrors(s, u, B \cup {a}, more, a)
    BY <1>1, <1>2, <1>4, <1>5, MirrorsPush
  <1> HIDE DEF more, u, n
  <1>10. Resumes(s, u, more, a)
    BY <1>6, <1>7 DEF Resumes, a
  <1>11. Reaches(s, u, "code", a, B \cup {a}, more, a)
    BY <1>8, <1>9, <1>10 DEF Reaches
  <1> QED
    BY <1>11 DEF u, c, a

SqlInv == SqlTypeOK /\ Scanned /\ Judged

\* Nothing has been read at first.
LEMMA SqlStarts == SqlInit => SqlInv
  <1> SUFFICES ASSUME SqlInit PROVE SqlInv
    OBVIOUS
  <1>1. PICK sc \in Scopes : statement \in [1..sc.length -> sc.chars]
    BY DEF SqlInit, Statements
  <1>2. sc.length \in Nat
    BY ScopesAssumption
  <1>3. statement \in Seq(Chars)
    <2>1. sc.chars \subseteq Chars
      BY DEF Chars
    <2>2. statement \in [1..sc.length -> Chars]
      BY <1>1, <2>1
    <2> QED
      BY <1>2, <2>2
  <1>4. i = 1 /\ mode = "code" /\ out = <<>> /\ verdict = "none"
    BY DEF SqlInit
  <1>5. SqlTypeOK
    <2>1. out \in Seq(Chars)
      BY <1>4
    <2>2. i \in 1..(Len(statement) + 1)
      BY <1>3, <1>4
    <2> QED
      BY <1>3, <1>4, <2>1, <2>2 DEF SqlTypeOK
  <1>6. Scanned
    <2> DEFINE at == [k \in 1..0 |-> 1]
    <2>1. RowTo(statement, {1}, 1)
      BY DEF RowTo
    <2>2. Len(<<>>) = 0 /\ 1..0 = {}
      OBVIOUS
    <2>3. Mirrors(statement, <<>>, {1}, at, 1)
      BY <2>2 DEF Mirrors
    <2>4. Resumes(statement, <<>>, at, 1)
      BY <2>2 DEF Resumes
    <2> HIDE DEF at
    <2>5. Reaches(statement, <<>>, "code", 1, {1}, at, 1)
      BY <2>1, <2>3, <2>4 DEF Reaches
    <2> QED
      BY <1>4, <2>5 DEF Scanned
  <1>7. Judged
    BY <1>4 DEF Judged
  <1> QED
    BY <1>5, <1>6, <1>7 DEF SqlInv

\* A step inside a comment or quoted text.
LEMMA Goes ==
    ASSUME NEW s, NEW t, NEW m, m # "code", NEW e, NEW a, NEW B, NEW at, NEW b,
           Reaches(s, t, m, e, B, at, b), Region(m, s, b, a)
    PROVE  Reaches(s, t, m, a, B, at, b)
  BY InRegion DEF Reaches

\* A step of the loop of a line comment ...
LEMMA LineGoes ==
    ASSUME NEW s, NEW b \in Nat, NEW e \in Nat, Region("line", s, b, e), s[e] # "nl"
    PROVE  Region("line", s, b, e + 1)
  <1>1. /\ b + 2 <= e /\ s[b] = "-" /\ s[b + 1] = "-"
        /\ \A k \in b..(e - 1) : s[k] # "nl"
    BY DEF Region, Quote
  <1>2. b + 2 <= e + 1 /\ (e + 1) - 1 = e
    BY <1>1
  <1>3. \A k \in b..((e + 1) - 1) : k \in b..(e - 1) \/ k = e
    OBVIOUS
  <1>4. \A k \in b..((e + 1) - 1) : s[k] # "nl"
    BY <1>1, <1>3
  <1> QED
    BY <1>1, <1>2, <1>4 DEF Region

\* ... of a block comment ...
LEMMA BlockGoes ==
    ASSUME NEW s, NEW b \in Nat, NEW e \in Nat, Region("block", s, b, e),
           ~(s[e] = "*" /\ s[e + 1] = "/")
    PROVE  Region("block", s, b, e + 1)
  <1>1. /\ b + 2 <= e /\ s[b] = "/" /\ s[b + 1] = "*"
        /\ \A k \in (b + 2)..(e - 1) : ~(s[k] = "*" /\ s[k + 1] = "/")
    BY DEF Region, Quote
  <1>2. b + 2 <= e + 1
    BY <1>1
  <1>3. \A k \in (b + 2)..((e + 1) - 1) : k \in (b + 2)..(e - 1) \/ k = e
    OBVIOUS
  <1>4. \A k \in (b + 2)..((e + 1) - 1) : ~(s[k] = "*" /\ s[k + 1] = "/")
    BY <1>1, <1>3
  <1> QED
    BY <1>1, <1>2, <1>4 DEF Region

\* ... and of quoted text stays in the region.
LEMMA QuoteGoes ==
    ASSUME NEW s, NEW b \in Nat, NEW e \in Nat, NEW m \in Quote, Region(m, s, b, e), NEW a \in Nat,
           \/ s[e] = m /\ s[e + 1] = m /\ a = e + 2
           \/ s[e] # m /\ a = e + 1
    PROVE  Region(m, s, b, a)
  <1>1. b + 1 <= e /\ s[b] = m /\ Doubled(s, m, b + 1, e - 1)
    BY DEF Region, Quote
  <1>2. b + 1 \in Nat /\ b + 1 <= a
    BY <1>1
  <1>3. Doubled(s, m, b + 1, a - 1)
    <2>1. CASE s[e] = m /\ s[e + 1] = m /\ a = e + 2
      <3>1. a - 1 = e + 1
        BY <2>1
      <3> QED
        BY <1>1, <1>2, <2>1, <3>1, DoubledTwo
    <2>2. CASE s[e] # m /\ a = e + 1
      <3>1. a - 1 = e
        BY <2>2
      <3> QED
        BY <1>1, <1>2, <2>2, <3>1, DoubledOne
    <2> QED
      BY <2>1, <2>2
  <1> QED
    BY <1>1, <1>2, <1>3 DEF Region

\* The region has just opened.
LEMMA RegionOpens ==
    ASSUME NEW s, NEW e \in Nat
    PROVE  /\ s[e] = "-" /\ s[e + 1] = "-" => Region("line", s, e, e + 2)
           /\ s[e] = "/" /\ s[e + 1] = "*" => Region("block", s, e, e + 2)
           /\ s[e] \in Quote => Region(s[e], s, e, e + 1)
  <1>1. ASSUME s[e] = "-", s[e + 1] = "-" PROVE Region("line", s, e, e + 2)
    <2>1. \A k \in e..((e + 2) - 1) : k = e \/ k = e + 1
      OBVIOUS
    <2>2. \A k \in e..((e + 2) - 1) : s[k] # "nl"
      BY <1>1, <2>1
    <2> QED
      BY <1>1, <2>2 DEF Region
  <1>2. ASSUME s[e] = "/", s[e + 1] = "*" PROVE Region("block", s, e, e + 2)
    <2>1. (e + 2)..((e + 2) - 1) = {}
      OBVIOUS
    <2> QED
      BY <1>2, <2>1 DEF Region
  <1>3. ASSUME s[e] \in Quote PROVE Region(s[e], s, e, e + 1)
    <2>1. (e + 1)..((e + 1) - 1) = {}
      OBVIOUS
    <2>2. Doubled(s, s[e], e + 1, (e + 1) - 1)
      BY <2>1 DEF Doubled
    <2> QED
      BY <1>3, <2>2 DEF Region
  <1> QED
    BY <1>1, <1>2, <1>3

\* The scan keeps the invariant, one case per action.
LEMMA SqlSteps == SqlInv /\ [SqlNext]_sqlVars => SqlInv'
  <1> SUFFICES ASSUME SqlInv, [SqlNext]_sqlVars PROVE SqlInv'
    OBVIOUS
  <1> DEFINE L == Len(statement)
  <1>1. /\ statement \in Seq(Chars) /\ out \in Seq(Chars) /\ i \in 1..(L + 1)
        /\ mode \in {"code", "line", "block"} \cup Quote
    BY DEF SqlInv, SqlTypeOK
  <1>2. PICK B, at, b : Reaches(statement, out, mode, i, B, at, b)
    BY DEF SqlInv, Scanned
  <1>3. L \in Nat /\ DOMAIN statement = 1..L /\ i \in Nat
    BY <1>1
  <1>4. Judged
    BY DEF SqlInv
  <1>5. " " \in Chars
    BY DEF Chars
  <1>6. Append(out, " ") \in Seq(Chars)
    <2>1. \A c \in Chars : Append(out, c) \in Seq(Chars)
      BY <1>1
    <2> QED
      BY <1>5, <2>1, Zenon
  <1>7. verdict # "none" => mode = "code" /\ i = L + 1 /\ verdict = Verdict(out)
    BY <1>4 DEF Judged
  <1>8. verdict # "none" => mode = "code" /\ i \notin DOMAIN statement
    BY <1>3, <1>7
  \* What a step of the scan has to show.
  <1>9. ASSUME statement' = statement, verdict' = verdict, verdict = "none",
               out' \in Seq(Chars), i' \in 1..(L + 1),
               mode' \in {"code", "line", "block"} \cup Quote,
               \E C, more, c : Reaches(statement, out', mode', i', C, more, c)
        PROVE  SqlInv'
    <2>1. SqlTypeOK'
      BY <1>1, <1>9 DEF SqlTypeOK
    <2>2. Scanned'
      BY <1>9 DEF Scanned
    <2>3. Judged'
      BY <1>9 DEF Judged
    <2> QED
      BY <2>1, <2>2, <2>3 DEF SqlInv
  <1>10. \A m : m # "code" => (m = mode => verdict = "none")
    BY <1>8
  <1>11. "line" # "code" /\ "block" # "code" /\ "code" \notin Quote
    BY DEF Quote
  <1> HIDE DEF L
  <1>12. CASE LineComment
    <2>1. /\ mode = "code" /\ i \in 1..L /\ i + 1 \in 1..L
          /\ statement[i] = "-" /\ statement[i + 1] = "-"
          /\ i' = i + 2 /\ mode' = "line" /\ statement' = statement /\ out' = out
          /\ verdict' = verdict
      BY <1>3, <1>12 DEF LineComment, Scanning, OpensLine, At
    <2>2. Reaches(statement, out, "line", i + 2, B, at, i)
      <3>1. Region("line", statement, i, i + 2)
        BY <1>3, <2>1, RegionOpens
      <3> QED
        BY <1>2, <2>1, <3>1, Opens DEF L
    <2>3. i' \in 1..(L + 1)
      BY <1>3, <2>1
    <2> QED
      BY <1>1, <1>3, <1>8, <1>9, <2>1, <2>2, <2>3
  <1>13. CASE BlockComment
    <2>1. /\ mode = "code" /\ i \in 1..L /\ i + 1 \in 1..L
          /\ statement[i] = "/" /\ statement[i + 1] = "*"
          /\ i' = i + 2 /\ mode' = "block" /\ statement' = statement /\ out' = out
          /\ verdict' = verdict
      BY <1>3, <1>13 DEF BlockComment, Scanning, OpensBlock, At
    <2>2. Reaches(statement, out, "block", i + 2, B, at, i)
      <3>1. Region("block", statement, i, i + 2)
        BY <1>3, <2>1, RegionOpens
      <3> QED
        BY <1>2, <2>1, <3>1, Opens DEF L
    <2>3. i' \in 1..(L + 1)
      BY <1>3, <2>1
    <2> QED
      BY <1>1, <1>3, <1>8, <1>9, <2>1, <2>2, <2>3
  <1>14. CASE Quoted
    <2>1. /\ mode = "code" /\ i \in 1..L /\ statement[i] \in Quote
          /\ i' = i + 1 /\ mode' = statement[i] /\ statement' = statement /\ out' = out
          /\ verdict' = verdict
      BY <1>3, <1>14 DEF Quoted, Scanning
    <2>2. Reaches(statement, out, statement[i], i + 1, B, at, i)
      <3>1. Region(statement[i], statement, i, i + 1)
        BY <1>3, <2>1, RegionOpens
      <3> QED
        BY <1>2, <2>1, <3>1, Opens DEF L
    <2>3. i' \in 1..(L + 1)
      BY <1>3, <2>1
    <2> QED
      BY <1>1, <1>3, <1>8, <1>9, <2>1, <2>2, <2>3
  <1>15. CASE Plain
    <2>1. /\ mode = "code" /\ i \in 1..L /\ ~OpensLine /\ ~OpensBlock
          /\ statement[i] \notin Quote
          /\ i' = i + 1 /\ mode' = mode /\ statement' = statement /\ verdict' = verdict
          /\ out' = Append(out, statement[i])
      BY <1>3, <1>15 DEF Plain, Scanning
    <2>2. CodeLexeme(statement, i, i + 1)
      <3>1. i + 1 <= L => i + 1 \in 1..L
        BY <1>3
      <3> QED
        BY <1>3, <2>1, <3>1 DEF CodeLexeme, OpensLine, OpensBlock, At, L
    <2>3. \E C, more, c : Reaches(statement, Append(out, statement[i]), "code", i + 1, C, more, c)
      BY <1>1, <1>2, <2>1, <2>2, CodeTaken DEF L
    <2>4. i' \in 1..(L + 1)
      BY <1>3, <2>1
    <2>5. Append(out, statement[i]) \in Seq(Chars)
      BY <1>1, <2>1 DEF L
    <2> QED
      BY <1>1, <1>3, <1>8, <1>9, <2>1, <2>3, <2>4, <2>5
  <1>16. CASE InLine
    <2>1. mode = "line" /\ statement' = statement /\ out' = out /\ verdict' = verdict
      BY <1>16 DEF InLine
    <2>2. b \in 1..L /\ Region("line", statement, b, i) /\ RowTo(statement, B, b)
          /\ Mirrors(statement, out, B, at, b) /\ b \in Nat
      BY <1>2, <1>3, <1>11, <2>1, InRegion DEF L
    <2>3. CASE i \in 1..L /\ statement[i] # "nl"
      <3>1. i' = i + 1 /\ mode' = mode
        BY <1>3, <1>16, <2>3 DEF InLine
      <3>2. Reaches(statement, out, "line", i + 1, B, at, b)
        BY <1>2, <1>3, <1>11, <2>1, <2>2, <2>3, Goes, LineGoes
      <3>3. i' \in 1..(L + 1)
        BY <1>3, <2>3, <3>1
      <3> QED
        BY <1>1, <1>9, <1>10, <1>11, <2>1, <3>1, <3>2, <3>3
    <2>4. CASE ~(i \in 1..L /\ statement[i] # "nl")
      <3>1. i' = i /\ mode' = "code"
        BY <1>3, <1>16, <2>4 DEF InLine
      <3>2. i = L + 1 \/ statement[i] = "nl"
        BY <1>1, <1>3, <2>4
      <3>3. b < i /\ Lexeme(statement, b, i) /\ ~CodeLexeme(statement, b, b + 1)
        BY <1>1, <1>3, <2>2, <3>2, LineEnds DEF L
      <3>4. RowTo(statement, B \cup {i}, i) /\ Mirrors(statement, out, B \cup {i}, at, i)
        BY <1>3, <2>2, <3>3, RowMore, MirrorsSkip
      <3>5. Resumes(statement, out, at, i)
        <4>1. i <= L => statement[i] = "nl"
          BY <1>3, <3>2
        <4> QED
          BY <4>1 DEF Resumes, L
      <3>6. Reaches(statement, out, "code", i, B \cup {i}, at, i)
        BY <3>4, <3>5 DEF Reaches
      <3> QED
        BY <1>1, <1>9, <1>10, <1>11, <2>1, <3>1, <3>6
    <2> QED
      BY <2>3, <2>4
  <1>17. CASE InBlock
    <2> DEFINE a == IF i < L THEN i + 2 ELSE L + 1
               Inside == i < L /\ ~(statement[i] = "*" /\ statement[i + 1] = "/")
    <2>1. mode = "block" /\ statement' = statement /\ verdict' = verdict
      BY <1>17 DEF InBlock
    <2>2. b \in 1..L /\ Region("block", statement, b, i) /\ RowTo(statement, B, b)
          /\ Mirrors(statement, out, B, at, b) /\ b \in Nat
      BY <1>2, <1>3, <1>11, <2>1, InRegion DEF L
    <2>3. i < L => i \in 1..L /\ i + 1 \in 1..L
      BY <1>1, <1>3
    <2>4. (i < L /\ ~(At(i, "*") /\ At(i + 1, "/"))) <=> Inside
      BY <1>3, <2>3 DEF At
    <2>5. CASE Inside
      <3>1. i' = i + 1 /\ mode' = mode /\ out' = out
        BY <1>17, <2>4, <2>5 DEF InBlock, L
      <3>2. Reaches(statement, out, "block", i + 1, B, at, b)
        BY <1>2, <1>3, <1>11, <2>1, <2>2, <2>5, Goes, BlockGoes
      <3>3. i' \in 1..(L + 1)
        BY <1>3, <2>5, <3>1
      <3> QED
        BY <1>1, <1>9, <1>10, <1>11, <2>1, <3>1, <3>2, <3>3
    <2>6. CASE ~Inside
      <3>1. i' = a /\ mode' = "code" /\ out' = Append(out, " ")
        BY <1>17, <2>4, <2>6 DEF InBlock, L
      <3>2. \/ i < L /\ statement[i] = "*" /\ statement[i + 1] = "/" /\ a = i + 2
            \/ ~(i < L) /\ a = L + 1
        BY <2>6
      <3> HIDE DEF a
      <3>3. /\ a \in 1..(L + 1) /\ b < a /\ Lexeme(statement, b, a)
            /\ ~CodeLexeme(statement, b, b + 1)
        BY <1>1, <1>3, <2>2, <3>2, BlockEnds DEF L
      <3>4. a \in Nat
        BY <1>3, <3>3
      <3>5. \E C, more, c : Reaches(statement, Append(out, " "), "code", a, C, more, c)
        BY <1>1, <2>2, <3>3, <3>4, Blanked
      <3> QED
        BY <1>6, <1>9, <1>10, <1>11, <2>1, <3>1, <3>3, <3>5
    <2> QED
      BY <2>5, <2>6
  <1>18. CASE InQuoted
    <2>1. mode \in Quote /\ mode # "code" /\ statement' = statement /\ verdict' = verdict
      BY <1>11, <1>18 DEF InQuoted
    <2>2. b \in 1..L /\ Region(mode, statement, b, i) /\ RowTo(statement, B, b)
          /\ Mirrors(statement, out, B, at, b) /\ b \in Nat
      BY <1>2, <1>3, <2>1, InRegion DEF L
    <2>3. /\ i \in DOMAIN statement <=> i <= L
          /\ i + 1 \in DOMAIN statement <=> i + 1 <= L
      BY <1>1, <1>3
    <2>4. \/ /\ i + 1 <= L /\ statement[i] = mode /\ statement[i + 1] = mode
             /\ i' = i + 2 /\ mode' = mode /\ out' = out
          \/ /\ i <= L /\ statement[i] # mode
             /\ i' = i + 1 /\ mode' = mode /\ out' = out
          \/ /\ i <= L /\ statement[i] = mode /\ (i + 1 <= L => statement[i + 1] # mode)
             /\ i' = i + 1 /\ mode' = "code" /\ out' = Append(out, " ")
          \/ /\ ~(i <= L) /\ i' = i /\ mode' = "code" /\ out' = Append(out, " ")
      BY <1>18, <2>3 DEF InQuoted, At
    <2>5. ASSUME i' \in 1..(L + 1), mode' = mode, out' = out,
                 \/ statement[i] = mode /\ statement[i + 1] = mode /\ i' = i + 2
                 \/ statement[i] # mode /\ i' = i + 1
          PROVE  SqlInv'
      <3>1. Reaches(statement, out, mode, i', B, at, b)
        BY <1>2, <1>3, <2>1, <2>2, <2>5, Goes, QuoteGoes
      <3> QED
        BY <1>1, <1>9, <1>10, <2>1, <2>5, <3>1
    <2>6. ASSUME mode' = "code", out' = Append(out, " "),
                 \/ /\ i <= L /\ statement[i] = mode /\ (i + 1 <= L => statement[i + 1] # mode)
                    /\ i' = i + 1
                 \/ i = L + 1 /\ i' = i
          PROVE  SqlInv'
      <3>1. /\ i' \in 1..(L + 1) /\ b < i' /\ Lexeme(statement, b, i')
            /\ ~CodeLexeme(statement, b, b + 1)
        BY <1>1, <1>3, <2>1, <2>2, <2>6, QuoteEnds DEF L
      <3>2. i' \in Nat
        BY <1>3, <3>1
      <3>3. \E C, more, c : Reaches(statement, Append(out, " "), "code", i', C, more, c)
        BY <1>1, <2>2, <3>1, <3>2, Blanked
      <3> QED
        BY <1>6, <1>9, <1>10, <2>1, <2>6, <3>1, <3>3
    <2>7. /\ i + 1 <= L => i + 2 \in 1..(L + 1)
          /\ i <= L => i + 1 \in 1..(L + 1)
          /\ ~(i <= L) => i = L + 1
      BY <1>1, <1>3
    <2> QED
      BY <2>4, <2>5, <2>6, <2>7
  <1>19. CASE Judge
    <2>1. /\ mode = "code" /\ i > L /\ verdict' = Verdict(out)
          /\ statement' = statement /\ i' = i /\ mode' = mode /\ out' = out
      BY <1>19 DEF Judge, L
    <2>2. i = L + 1
      BY <1>1, <1>3, <2>1
    <2>3. SqlTypeOK'
      BY <1>1, <2>1 DEF SqlTypeOK, L
    <2>4. Scanned'
      BY <1>2, <2>1 DEF Scanned
    <2>5. Judged'
      BY <2>1, <2>2 DEF Judged, L
    <2> QED
      BY <2>3, <2>4, <2>5 DEF SqlInv
  <1>20. CASE UNCHANGED sqlVars
    BY <1>20 DEF sqlVars, SqlInv, SqlTypeOK, Scanned, Judged
  <1> QED
    BY <1>12, <1>13, <1>14, <1>15, <1>16, <1>17, <1>18, <1>19, <1>20 DEF SqlNext

\* Whatever the characters and the length of a statement, the scan stays in
\* it, is always in one of its loops, and makes a sequence of characters.
THEOREM SqlTyped == SqlSpec => []SqlTypeOK
  <1>1. SqlInv => SqlTypeOK
    BY DEF SqlInv
  <1> QED
    BY <1>1, SqlStarts, SqlSteps, PTL DEF SqlSpec

\* Every statement of every length over any characters is judged by the
\* skeleton exactly as the dialect's definition judges the statement itself.
THEOREM VerdictAgreement == SqlSpec => []VerdictAgrees
  <1>1. SqlInv => VerdictAgrees
    <2> SUFFICES ASSUME SqlInv, verdict # "none"
                 PROVE  (verdict = "ok") = ReadOnly(statement)
      BY DEF VerdictAgrees
    <2>1. mode = "code" /\ i = Len(statement) + 1 /\ verdict = Verdict(out)
      BY DEF SqlInv, Judged
    <2>2. Len(statement) \in Nat /\ Len(out) \in Nat
      BY DEF SqlInv, SqlTypeOK
    <2>3. PICK B, at, b : Reaches(statement, out, mode, i, B, at, b)
      BY DEF SqlInv, Scanned
    <2>4. /\ RowTo(statement, B, Len(statement) + 1)
          /\ Mirrors(statement, out, B, at, Len(statement) + 1)
      BY <2>1, <2>3, InCode
    <2>5. (Verdict(out) = "ok") <=> ReadOnly(statement)
      BY <2>2, <2>4, VerdictRight
    <2>6. ReadOnly(statement) \in BOOLEAN
      BY DEF ReadOnly
    <2> QED
      BY <2>1, <2>5, <2>6
  <1> QED
    BY <1>1, SqlStarts, SqlSteps, PTL DEF SqlSpec

-----------------------------------------------------------------------------
(* KvPages *)

(* The inductive invariant.  While there is room, what is listed lies at or  *)
(* before the cursor and contains the steady keys there, so that a page adds *)
(* what lies behind it.                                                      *)

KTyped ==
    /\ store \subseteq Keys /\ steady \subseteq store
    /\ limit \in Nat /\ cursor \in 0..MaxKey
    /\ listed \in Seq(Keys) /\ Len(listed) <= limit
    /\ Ordered(listed)

KCaughtUp ==
    pc = "listing" =>
        \/ Len(listed) = limit
        \/ /\ \A k \in DOMAIN listed : listed[k] <= cursor
           /\ \A s \in steady : s <= cursor => s \in Members(listed)

KDone ==
    pc = "done" => Len(listed) = limit \/ faulty \/ steady \subseteq Members(listed)

KInv == KTyped /\ KCaughtUp /\ KDone

-----------------------------------------------------------------------------
\* What take(room) leaves of a page: its first rows, all of them if they fit.
LEMMA TakenRows ==
    ASSUME KTyped, NEW e \in Seq(Keys), Ordered(e)
    PROVE  /\ Taken(e) \in Seq(Keys)
           /\ Len(Taken(e)) <= Len(e)
           /\ Len(listed) + Len(Taken(e)) <= limit
           /\ \A k \in DOMAIN Taken(e) : k \in DOMAIN e /\ Taken(e)[k] = e[k]
           /\ Taken(e) = e \/ Len(listed) + Len(Taken(e)) = limit
  <1>1. Room \in Nat /\ Room = limit - Len(listed) /\ Len(listed) \in Nat
    BY DEF Room, KTyped
  <1>2. CASE Len(e) <= Room
    <2>1. Taken(e) = e
      BY <1>2 DEF Taken
    <2> QED
      BY <1>1, <1>2, <2>1 DEF KTyped
  <1>3. CASE ~(Len(e) <= Room)
    <2>1. Taken(e) = SubSeq(e, 1, Room)
      BY <1>3 DEF Taken
    <2>2. /\ SubSeq(e, 1, Room) \in Seq(Keys)
          /\ Len(SubSeq(e, 1, Room)) = Room
          /\ \A k \in 1..Room : SubSeq(e, 1, Room)[k] = e[k]
      BY <1>1, <1>3
    <2> QED
      BY <1>1, <1>3, <2>1, <2>2 DEF KTyped
  <1> QED
    BY <1>2, <1>3

\* Rows behind the cursor go behind what is listed, in order.
LEMMA AppendedRows ==
    ASSUME KTyped, NEW t \in Seq(Keys), Ordered(t),
           \A k \in DOMAIN listed : listed[k] <= cursor,
           \A k \in DOMAIN t : cursor < t[k]
    PROVE  /\ listed \o t \in Seq(Keys)
           /\ Len(listed \o t) = Len(listed) + Len(t)
           /\ Ordered(listed \o t)
           /\ \A k \in DOMAIN (listed \o t) :
                \/ k \in DOMAIN listed /\ (listed \o t)[k] = listed[k]
                \/ k - Len(listed) \in DOMAIN t /\ (listed \o t)[k] = t[k - Len(listed)]
           /\ Members(listed) \subseteq Members(listed \o t)
           /\ Members(t) \subseteq Members(listed \o t)
  <1> DEFINE u == listed \o t
  <1>0. /\ listed \in Seq(Keys) /\ Len(listed) \in Nat /\ Len(t) \in Nat
        /\ cursor \in Nat /\ MaxKey \in Nat
    BY KvAssumption DEF KTyped
  <1>1. u \in Seq(Keys) /\ Len(u) = Len(listed) + Len(t)
    BY <1>0
  <1>2. \A k \in DOMAIN u :
            \/ k \in DOMAIN listed /\ u[k] = listed[k]
            \/ k - Len(listed) \in DOMAIN t /\ u[k] = t[k - Len(listed)]
    BY <1>0
  <1>2a. \A k \in DOMAIN u : k > Len(listed) => k - Len(listed) \in DOMAIN t /\ u[k] = t[k - Len(listed)]
    BY <1>0
  <1>2b. \A k \in DOMAIN u : k <= Len(listed) => k \in DOMAIN listed /\ u[k] = listed[k]
    BY <1>0
  <1>3. Ordered(u)
    <2> SUFFICES ASSUME NEW k \in DOMAIN u, NEW l \in DOMAIN u, k < l
                 PROVE  u[k] < u[l]
      BY DEF Ordered
    <2>0. k \in Nat /\ l \in Nat
      BY <1>1
    <2>1. CASE l <= Len(listed)
      BY <1>0, <1>2b, <2>0, <2>1 DEF KTyped, Ordered
    <2>2. CASE k > Len(listed)
      <3>1. k - Len(listed) \in DOMAIN t /\ u[k] = t[k - Len(listed)]
        BY <1>2a, <2>2
      <3>2. l - Len(listed) \in DOMAIN t /\ u[l] = t[l - Len(listed)]
        BY <1>0, <1>2a, <2>0, <2>2
      <3>3. k - Len(listed) < l - Len(listed)
        BY <1>0, <2>0
      <3> QED
        BY <3>1, <3>2, <3>3 DEF Ordered
    <2>3. CASE k <= Len(listed) /\ l > Len(listed)
      <3>1. u[k] \in Nat /\ u[k] <= cursor
        BY <1>0, <1>2b, <2>3 DEF Keys
      <3>2. u[l] \in Nat /\ cursor < u[l]
        BY <1>0, <1>2a, <2>3 DEF Keys
      <3> QED
        BY <1>0, <3>1, <3>2
    <2> QED
      BY <1>0, <2>0, <2>1, <2>2, <2>3
  <1>4. Members(listed) \subseteq Members(u)
    <2> SUFFICES ASSUME NEW k \in DOMAIN listed
                 PROVE  \E j \in DOMAIN u : u[j] = listed[k]
      BY DEF Members
    <2> QED
      BY <1>0
  <1>5. Members(t) \subseteq Members(u)
    <2> SUFFICES ASSUME NEW k \in DOMAIN t
                 PROVE  \E j \in DOMAIN u : u[j] = t[k]
      BY DEF Members
    <2>1. k + Len(listed) \in DOMAIN u /\ u[k + Len(listed)] = t[k]
      BY <1>0
    <2> QED
      BY <2>1
  <1> QED
    BY <1>1, <1>2, <1>3, <1>4, <1>5

-----------------------------------------------------------------------------
\* A turn of collect_pages keeps the invariant: the page begins behind the
\* cursor, and either fills the listing or brings every key up to its end.
LEMMA NextPageKeeps == KInv /\ NextPage => KInv'
  <1> SUFFICES ASSUME KInv, NextPage PROVE KInv'
    OBVIOUS
  <1> USE DEF KInv
  <1>1. PICK e \in Rows, upto \in 0..MaxKey :
            /\ Page(e, upto)
            /\ listed' = listed \o Taken(e)
            /\ \/ upto # cursor /\ cursor' = upto /\ UNCHANGED <<pc, faulty>>
               \/ (\A k \in store : k <= upto) /\ pc' = "done" /\ UNCHANGED <<cursor, faulty>>
               \/ cursor # NoCursor /\ pc' = "done" /\ faulty' = TRUE /\ UNCHANGED cursor
    BY DEF NextPage
  <1>2. /\ pc = "listing" /\ Len(listed) < limit
        /\ store' = store /\ steady' = steady /\ limit' = limit
    BY DEF NextPage
  <1>3. e \in Seq(Keys) /\ Ordered(e)
    BY KvAssumption DEF Rows, Keys
  <1>4. /\ \A k \in DOMAIN listed : listed[k] <= cursor
        /\ \A s \in steady : s <= cursor => s \in Members(listed)
    <2>1. Len(listed) # limit
      BY <1>2 DEF KTyped
    <2> QED
      BY <1>2, <2>1 DEF KCaughtUp
  <1>5. upto \in cursor..MaxKey /\ \A k \in DOMAIN e : e[k] \in store /\ cursor < e[k] /\ e[k] <= upto
    BY <1>1 DEF Page, Members
  <1>6. \A k \in store : cursor < k /\ k <= upto => k \in Members(e)
    BY <1>1 DEF Page
  <1> DEFINE t == Taken(e)
  <1>7. /\ t \in Seq(Keys) /\ Len(t) <= Len(e)
        /\ Len(listed) + Len(t) <= limit
        /\ \A k \in DOMAIN t : k \in DOMAIN e /\ t[k] = e[k]
        /\ t = e \/ Len(listed) + Len(t) = limit
    BY <1>3, TakenRows
  <1> HIDE DEF t
  <1>8. Ordered(t)
    BY <1>3, <1>7 DEF Ordered
  <1>9. \A k \in DOMAIN t : cursor < t[k] /\ t[k] <= upto
    BY <1>5, <1>7
  <1>10. /\ listed' \in Seq(Keys) /\ Len(listed') = Len(listed) + Len(t) /\ Ordered(listed')
         /\ \A k \in DOMAIN listed' :
                \/ k \in DOMAIN listed /\ listed'[k] = listed[k]
                \/ k - Len(listed) \in DOMAIN t /\ listed'[k] = t[k - Len(listed)]
         /\ Members(listed) \subseteq Members(listed') /\ Members(t) \subseteq Members(listed')
    <2>1. listed' = listed \o t
      BY <1>1 DEF t
    <2> QED
      BY <1>4, <1>7, <1>8, <1>9, <2>1, AppendedRows
  <1>11. Ordered(listed)' = Ordered(listed')
    BY DEF Ordered
  <1>12. Members(listed)' = Members(listed')
    BY DEF Members
  <1>13. KTyped'
    <2>1. cursor' \in 0..MaxKey
      BY <1>1 DEF KTyped
    <2> QED
      BY <1>2, <1>7, <1>10, <1>11, <2>1 DEF KTyped, Keys
  <1>14. \A s \in steady : s <= upto => Len(listed') = limit \/ s \in Members(listed')
    <2> SUFFICES ASSUME NEW s \in steady, s <= upto, Len(listed') # limit
                 PROVE  s \in Members(listed')
      OBVIOUS
    <2>1. t = e
      BY <1>7, <1>10
    <2>2. s \in store /\ s \in Nat /\ cursor \in Nat
      BY KvAssumption DEF KTyped, Keys
    <2>3. CASE s <= cursor
      BY <1>4, <1>10, <2>3
    <2>4. CASE cursor < s
      BY <1>6, <1>10, <2>1, <2>2, <2>4
    <2> QED
      BY <2>2, <2>3, <2>4
  <1>15. \A k \in DOMAIN listed' : listed'[k] <= upto
    <2> SUFFICES ASSUME NEW k \in DOMAIN listed' PROVE listed'[k] <= upto
      OBVIOUS
    <2>0. cursor \in Nat /\ upto \in Nat /\ cursor <= upto
      BY <1>5, KvAssumption DEF KTyped
    <2>1. CASE k \in DOMAIN listed /\ listed'[k] = listed[k]
      <3>1. listed[k] \in Nat /\ listed[k] <= cursor
        <4>1. listed \in Seq(Keys) /\ Keys \subseteq Nat
          BY KvAssumption DEF KTyped, Keys
        <4>2. k \in DOMAIN listed
          BY <2>1
        <4>3. listed[k] \in Keys
          BY <4>1, <4>2
        <4>4. listed[k] <= cursor
          BY <1>4, <4>2, Zenon
        <4> QED
          BY <4>1, <4>3, <4>4
      <3> QED
        BY <2>0, <2>1, <3>1
    <2>2. CASE k - Len(listed) \in DOMAIN t /\ listed'[k] = t[k - Len(listed)]
      BY <1>9, <2>2
    <2> QED
      BY <1>10, <2>1, <2>2
  <1>16. CASE upto # cursor /\ cursor' = upto /\ UNCHANGED <<pc, faulty>>
    <2>1. KCaughtUp'
      BY <1>2, <1>12, <1>14, <1>15, <1>16 DEF KCaughtUp
    <2> QED
      BY <1>2, <1>13, <1>16, <2>1 DEF KDone
  <1>17. CASE (\A k \in store : k <= upto) /\ pc' = "done" /\ UNCHANGED <<cursor, faulty>>
    <2>1. Len(listed') = limit \/ steady \subseteq Members(listed')
      BY <1>14, <1>17 DEF KTyped
    <2> QED
      BY <1>2, <1>12, <1>13, <1>17, <2>1 DEF KCaughtUp, KDone
  <1>18. CASE cursor # NoCursor /\ pc' = "done" /\ faulty' = TRUE /\ UNCHANGED cursor
    BY <1>13, <1>18 DEF KCaughtUp, KDone
  <1> QED
    BY <1>1, <1>16, <1>17, <1>18

\* The inductive invariant of a listing.
THEOREM ListingInvariant == KvSpec => []KInv
  <1>1. KvInit => KInv
    <2> SUFFICES ASSUME KvInit PROVE KInv
      OBVIOUS
    <2>1. KTyped
      BY KvAssumption DEF KvInit, KTyped, Ordered, Keys, NoCursor
    <2>2. KCaughtUp /\ KDone
      BY DEF KvInit, KCaughtUp, KDone, NoCursor, Keys
    <2> QED
      BY <2>1, <2>2 DEF KInv
  <1>2. KInv /\ [KvNext]_kvVars => KInv'
    <2> SUFFICES ASSUME KInv, [KvNext]_kvVars PROVE KInv'
      OBVIOUS
    <2>1. CASE KvChange
      <3>1. /\ pc = "listing" /\ store' \subseteq Keys /\ steady' \subseteq store' /\ steady' \subseteq steady
            /\ UNCHANGED <<limit, cursor, listed, pc, faulty>>
        BY <2>1 DEF KvChange, KInv, KTyped
      <3>2. KTyped'
        BY <3>1 DEF KInv, KTyped, Ordered
      <3> QED
        BY <3>1, <3>2 DEF KInv, KCaughtUp, KDone, Members
    <2>2. CASE NextPage
      BY <2>2, NextPageKeeps
    <2>3. CASE PageFails
      BY <2>3 DEF PageFails, KInv, KTyped, Ordered, KCaughtUp, KDone
    <2>4. CASE LimitReached
      BY <2>4 DEF LimitReached, KInv, KTyped, Ordered, KCaughtUp, KDone
    <2>5. CASE UNCHANGED kvVars
      BY <2>5 DEF kvVars, KInv, KTyped, Ordered, KCaughtUp, KDone, Members
    <2> QED
      BY <2>1, <2>2, <2>3, <2>4, <2>5 DEF KvNext
  <1> QED
    BY <1>1, <1>2, PTL DEF KvSpec

\* A listing that returns is complete: collect_pages misses no key that was in
\* the store throughout, repeats none and stays within the limit, for any store,
\* any pages and any changes between them.
THEOREM ListingsComplete == KvSpec => []ListingComplete
  <1>1. KInv => ListingComplete
    BY DEF KInv, KTyped, KDone, ListingComplete
  <1> QED
    BY <1>1, ListingInvariant, PTL

-----------------------------------------------------------------------------
(* MockGateway: paths *)

\* What is before the slashes at a path's end ...
LEMMA LastInPath ==
    ASSUME NEW p \in Paths
    PROVE  /\ LastIn(p) \in 0..Len(p)
           /\ LastIn(p) = 0 \/ p[LastIn(p)] # "/"
           /\ \A j \in (LastIn(p) + 1)..Len(p) : p[j] = "/"
  <1> DEFINE T == {k \in 0..Len(p) : k = 0 \/ p[k] # "/"}
  <1>1. Len(p) \in Nat
    BY DEF Paths
  <1>2. PICK m \in T : \A n \in T : n <= m
    <2>1. T \in SUBSET Nat /\ 0 \in T /\ \A n \in T : n <= Len(p)
      BY <1>1
    <2> QED
      BY <1>1, <2>1, Greatest
  <1>3. \A j \in (m + 1)..Len(p) : p[j] = "/"
    BY <1>1, <1>2
  <1> QED
    BY <1>2, <1>3, Zenon DEF LastIn

\* ... and where those at its beginning end.
LEMMA FirstInPath ==
    ASSUME NEW p \in Paths
    PROVE  /\ FirstIn(p) \in 1..(Len(p) + 1)
           /\ FirstIn(p) = Len(p) + 1 \/ p[FirstIn(p)] # "/"
           /\ \A j \in 1..(FirstIn(p) - 1) : p[j] = "/"
  <1> DEFINE T == {k \in 1..(Len(p) + 1) : k = Len(p) + 1 \/ p[k] # "/"}
  <1>1. Len(p) \in Nat
    BY DEF Paths
  <1>2. PICK m \in T : \A n \in T : m <= n
    <2>1. T \in SUBSET Nat /\ Len(p) + 1 \in T
      BY <1>1
    <2> QED
      BY <2>1, Least
  <1>3. \A j \in 1..(m - 1) : p[j] = "/"
    BY <1>1, <1>2
  <1> QED
    BY <1>2, <1>3, Zenon DEF FirstIn

\* ends_with, said of characters.
LEMMA Suffix ==
    ASSUME NEW s \in Paths, NEW t \in Paths
    PROVE  IsSuffix(s, t) <=> /\ Len(s) <= Len(t)
                              /\ \A g \in 1..Len(s) : s[g] = t[Len(t) - Len(s) + g]
  <1>1. Len(s) \in Nat /\ Len(t) \in Nat
    BY DEF Paths
  <1>2. /\ Reverse(s) \in Paths /\ Len(Reverse(s)) = Len(s)
        /\ \A g \in 1..Len(s) : Reverse(s)[g] = s[Len(s) - g + 1]
    BY <1>1 DEF Reverse, Paths
  <1>3. /\ Reverse(t) \in Paths /\ Len(Reverse(t)) = Len(t)
        /\ \A g \in 1..Len(t) : Reverse(t)[g] = t[Len(t) - g + 1]
    BY <1>1 DEF Reverse, Paths
  <1>4. IsSuffix(s, t) <=> /\ Len(s) <= Len(t)
                           /\ \A g \in 1..Len(s) : Reverse(s)[g] = Reverse(t)[g]
    BY <1>1, <1>2, <1>3 DEF IsSuffix, IsPrefix, Paths
  <1>5. ASSUME Len(s) <= Len(t), \A g \in 1..Len(s) : Reverse(s)[g] = Reverse(t)[g],
               NEW g \in 1..Len(s)
        PROVE  s[g] = t[Len(t) - Len(s) + g]
    <2>1. Len(s) - g + 1 \in 1..Len(s) /\ Len(s) - g + 1 \in 1..Len(t)
      BY <1>1, <1>5
    <2>2. Reverse(s)[Len(s) - g + 1] = s[g]
      BY <1>1, <1>2, <2>1
    <2>3. Reverse(t)[Len(s) - g + 1] = t[Len(t) - Len(s) + g]
      BY <1>1, <1>3, <2>1
    <2> QED
      BY <1>5, <2>1, <2>2, <2>3
  <1>6. ASSUME Len(s) <= Len(t), \A g \in 1..Len(s) : s[g] = t[Len(t) - Len(s) + g],
               NEW g \in 1..Len(s)
        PROVE  Reverse(s)[g] = Reverse(t)[g]
    <2>1. Len(s) - g + 1 \in 1..Len(s) /\ g \in 1..Len(t)
      BY <1>1, <1>6
    <2>2. s[Len(s) - g + 1] = t[Len(t) - Len(s) + (Len(s) - g + 1)]
      BY <1>6, <2>1
    <2> QED
      BY <1>1, <1>2, <1>3, <2>1, <2>2
  <1> QED
    BY <1>4, <1>5, <1>6

\* The path that is a single slash.
LEMMA Slash == <<"/">> \in Paths /\ Len(<<"/">>) = 1 /\ <<"/">>[1] = "/"
  <1>1. "/" \in GwChars
    BY GatewayAssumption
  <1> QED
    BY <1>1 DEF Paths

\* The characters of two paths in one.
LEMMA Concat ==
    ASSUME NEW s \in Paths, NEW t \in Paths
    PROVE  /\ s \o t \in Paths /\ Len(s \o t) = Len(s) + Len(t)
           /\ \A g \in 1..Len(s) : (s \o t)[g] = s[g]
           /\ \A g \in 1..Len(t) : (s \o t)[g + Len(s)] = t[g]
  BY DEF Paths

\* What normalise returns: a path without slashes at its end and with one at
\* its beginning.
LEMMA Normalised ==
    ASSUME NEW p \in Paths, NEW e, e = LastIn(p)
    PROVE  /\ Normalise(p) \in Paths
           /\ e = 0 => Normalise(p) = <<"/">>
           /\ e > 0 /\ p[1] = "/" =>
                Len(Normalise(p)) = e /\ \A g \in 1..e : Normalise(p)[g] = p[g]
           /\ e > 0 /\ p[1] # "/" =>
                /\ Len(Normalise(p)) = e + 1 /\ Normalise(p)[1] = "/"
                /\ \A g \in 1..e : Normalise(p)[g + 1] = p[g]
  <1> DEFINE t == TrimEnd(p)
  <1>1. Len(p) \in Nat /\ e \in 0..Len(p)
    BY LastInPath DEF Paths
  <1>2. t \in Paths /\ Len(t) = e /\ \A g \in 1..e : t[g] = p[g]
    BY <1>1 DEF TrimEnd, Paths
  <1>3. Normalise(p) = IF t = <<>> THEN <<"/">> ELSE IF t[1] = "/" THEN t ELSE <<"/">> \o t
    BY DEF Normalise
  <1> HIDE DEF t
  <1>4. CASE e = 0
    <2>1. t = <<>>
      BY <1>2, <1>4 DEF Paths
    <2> QED
      BY <1>3, <1>4, <2>1, Slash
  <1>5. CASE e > 0 /\ p[1] = "/"
    <2>1. t # <<>> /\ t[1] = "/"
      BY <1>1, <1>2, <1>5 DEF Paths
    <2> QED
      BY <1>2, <1>3, <1>5, <2>1
  <1>6. CASE e > 0 /\ p[1] # "/"
    <2>1. t # <<>> /\ t[1] # "/"
      BY <1>1, <1>2, <1>6 DEF Paths
    <2>2. /\ <<"/">> \o t \in Paths /\ Len(<<"/">> \o t) = e + 1 /\ (<<"/">> \o t)[1] = "/"
          /\ \A g \in 1..e : (<<"/">> \o t)[g + 1] = t[g]
      BY <1>1, <1>2, Slash, Concat
    <2> QED
      BY <1>2, <1>3, <1>6, <2>1, <2>2
  <1> QED
    BY <1>1, <1>4, <1>5, <1>6

\* The spec's path without the slashes around it.
LEMMA Bare ==
    ASSUME NEW p \in Paths, LastIn(p) > 0, NEW x, x = FirstIn(p), NEW y, y = LastIn(p)
    PROVE  LET w == TrimStart(Normalise(p))
           IN  /\ 1 <= x /\ x <= y /\ y <= Len(p) /\ p[x] # "/" /\ p[y] # "/"
               /\ w \in Paths /\ Len(w) = y - x + 1
               /\ \A g \in 1..(y - x + 1) : w[g] = p[x + g - 1]
               /\ Len(Normalise(p)) > Len(w)
               /\ \A g \in 1..Len(w) :
                    w[g] = Normalise(p)[Len(Normalise(p)) - Len(w) + g]
               /\ Normalise(p)[Len(Normalise(p)) - Len(w)] = "/"
  <1> DEFINE n == Normalise(p)
             f == FirstIn(n)
             w == TrimStart(n)
  <1>1. Len(p) \in Nat
    BY DEF Paths
  <1>2. /\ x \in 1..(Len(p) + 1) /\ (x = Len(p) + 1 \/ p[x] # "/")
        /\ \A j \in 1..(x - 1) : p[j] = "/"
    BY FirstInPath
  <1>3. y \in 1..Len(p) /\ p[y] # "/"
    BY <1>1, LastInPath
  <1>4. x <= y /\ p[x] # "/"
    BY <1>1, <1>2, <1>3
  <1>5. n \in Paths /\ Len(n) \in Nat
    BY Normalised DEF Paths
  <1>6. /\ f \in 1..(Len(n) + 1) /\ (f = Len(n) + 1 \/ n[f] # "/")
        /\ \A j \in 1..(f - 1) : n[j] = "/"
    BY <1>5, FirstInPath
  <1>7. /\ Len(n) \in {y, y + 1}
        /\ \A g \in 1..y : n[g + Len(n) - y] = p[g]
        /\ n[1] = "/"
    BY <1>1, <1>3, Normalised
  <1> HIDE DEF n, f
  <1>8. f = x + Len(n) - y
    <2> DEFINE d == Len(n) - y
    <2>1. d \in 0..1 /\ Len(n) = y + d /\ \A g \in 1..y : n[g + d] = p[g]
      BY <1>1, <1>3, <1>7
    <2> HIDE DEF d
    <2>2. n[x + d] # "/"
      BY <1>2, <1>4, <2>1
    <2>3. \A j \in 1..(x + d - 1) : n[j] = "/"
      <3> SUFFICES ASSUME NEW j \in 1..(x + d - 1) PROVE n[j] = "/"
        OBVIOUS
      <3>1. CASE j = 1
        BY <1>7, <3>1
      <3>2. CASE j > 1
        <4>1. j - d \in 1..(x - 1) /\ j - d \in 1..y
          BY <1>2, <1>3, <1>4, <2>1, <3>2
        <4>2. n[j - d + d] = p[j - d]
          BY <2>1, <4>1
        <4> QED
          BY <1>2, <2>1, <4>1, <4>2
      <3> QED
        BY <1>2, <2>1, <3>1, <3>2
    <2>4. x + d \in 1..Len(n)
      BY <1>2, <1>3, <1>4, <1>5, <2>1
    <2>5. f = x + d
      BY <1>2, <1>5, <1>6, <2>1, <2>2, <2>3, <2>4
    <2> QED
      BY <1>2, <1>3, <1>5, <2>5 DEF d
  <1>9. x > 1 \/ Len(n) = y + 1
    <2> SUFFICES ASSUME Len(n) = y PROVE x # 1
      BY <1>1, <1>2, <1>3, <1>7
    <2>1. n[1 + Len(n) - y] = p[1]
      BY <1>3, <1>7
    <2>2. 1 + Len(n) - y = 1
      BY <1>3
    <2> QED
      BY <1>4, <1>7, <2>1, <2>2
  <1>10. /\ w \in Paths /\ Len(w) = Len(n) - f + 1
         /\ \A g \in 1..Len(w) : w[g] = n[f + g - 1]
    BY <1>5, <1>6 DEF TrimStart, Paths, f
  <1> HIDE DEF w
  <1>11. Len(w) = y - x + 1 /\ Len(n) > Len(w) /\ f = Len(n) - Len(w) + 1
    <2>1. Len(w) = y - x + 1
      BY <1>2, <1>3, <1>4, <1>5, <1>8, <1>10
    <2>2. Len(n) > y - x + 1
      <3>1. x \in Nat /\ y \in Nat /\ Len(n) \in Nat /\ x >= 1 /\ (Len(n) = y \/ Len(n) = y + 1)
        BY <1>1, <1>2, <1>3, <1>5, <1>7
      <3> QED
        BY <1>9, <3>1
    <2> QED
      BY <1>2, <1>3, <1>5, <1>8, <2>1, <2>2
  <1>12. ASSUME NEW g \in 1..(y - x + 1) PROVE w[g] = p[x + g - 1]
    <2>1. x + g - 1 \in 1..y
      BY <1>2, <1>3, <1>4
    <2>2. n[x + g - 1 + Len(n) - y] = p[x + g - 1]
      BY <1>7, <2>1
    <2>3. x + g - 1 + Len(n) - y = f + g - 1
      BY <1>2, <1>3, <1>5, <1>8
    <2> QED
      BY <1>10, <1>11, <2>2, <2>3
  <1>13. \A g \in 1..Len(w) : w[g] = n[Len(n) - Len(w) + g]
    <2> SUFFICES ASSUME NEW g \in 1..Len(w) PROVE w[g] = n[Len(n) - Len(w) + g]
      OBVIOUS
    <2>1. f + g - 1 = Len(n) - Len(w) + g
      BY <1>2, <1>3, <1>5, <1>11
    <2> QED
      BY <1>10, <2>1
  <1>14. n[Len(n) - Len(w)] = "/"
    <2>1. Len(n) - Len(w) \in 1..(f - 1)
      <3>1. Len(w) \in Nat /\ Len(n) \in Nat
        BY <1>5, <1>10 DEF Paths
      <3> QED
        BY <1>11, <3>1
    <2> QED
      BY <1>6, <2>1
  <1> QED
    BY <1>2, <1>3, <1>4, <1>10, <1>11, <1>12, <1>13, <1>14 DEF n, w


\* Only slashes: the last character of what normalise returns tells.
LEMMA SlashesAgree ==
    ASSUME NEW path \in Paths, NEW incoming, incoming = Normalise(path)
    PROVE  /\ LastIn(path) = 0 <=> \A k \in 1..Len(path) : path[k] = "/"
           /\ Len(incoming) \in Nat \ {0}
           /\ LastIn(path) = 0 <=> incoming[Len(incoming)] = "/"
  <1> DEFINE e == LastIn(path)
  <1>1. /\ Len(path) \in Nat /\ e \in 0..Len(path) /\ (e = 0 \/ path[e] # "/")
        /\ \A j \in (e + 1)..Len(path) : path[j] = "/"
    BY LastInPath DEF Paths
  <1> HIDE DEF e
  <1>2. CASE e = 0
    <2>1. incoming = <<"/">>
      BY <1>2, Normalised DEF e
    <2>2. Len(incoming) = 1 /\ incoming[1] = "/"
      BY <2>1, Slash
    <2> QED
      BY <1>1, <1>2, <2>2 DEF e
  <1>3. CASE e > 0
    <2>1. /\ path[1] = "/" => Len(incoming) = e /\ incoming[e] = path[e]
          /\ path[1] # "/" => Len(incoming) = e + 1 /\ incoming[e + 1] = path[e]
      <3>1. e \in 1..e
        BY <1>1, <1>3
      <3> QED
        BY <1>3, <3>1, Normalised DEF e
    <2> QED
      BY <1>1, <1>3, <2>1 DEF e
  <1> QED
    BY <1>1, <1>2, <1>3

\* The test of spec_matches on normalised paths is what PathOf says of paths.
LEMMA PathAgrees ==
    ASSUME NEW spec \in Paths, NEW path \in Paths,
           NEW suffix, suffix = Normalise(spec), NEW incoming, incoming = Normalise(path)
    PROVE  incoming = suffix \/ IsSuffix(<<"/">> \o TrimStart(suffix), incoming)
                <=> PathOf(spec, path)
  <1> DEFINE w == TrimStart(suffix)
             v == <<"/">> \o w
             e == LastIn(path)
             d == Len(incoming) - e
  <1>1. Len(spec) \in Nat /\ Len(path) \in Nat
    BY DEF Paths
  <1>2. suffix \in Paths /\ incoming \in Paths
    BY Normalised
  <1>3. /\ e \in 0..Len(path) /\ (e = 0 \/ path[e] # "/")
        /\ \A j \in (e + 1)..Len(path) : path[j] = "/"
    BY LastInPath
  <1>4. CASE LastIn(spec) = 0
    <2>1. suffix = <<"/">>
      BY <1>4, Normalised
    <2>2. w = <<>>
      <3>1. FirstIn(<<"/">>) = 2
        <4> DEFINE s == <<"/">>
                   f == FirstIn(s)
        <4>1. s \in Paths /\ Len(s) = 1 /\ s[1] = "/"
          BY Slash
        <4> HIDE DEF s
        <4>2. f \in 1..(Len(s) + 1) /\ (f = Len(s) + 1 \/ s[f] # "/")
          BY <4>1, FirstInPath
        <4> QED
          BY <4>1, <4>2 DEF s
      <3> QED
        BY <2>1, <3>1, Slash DEF TrimStart, Paths
    <2>3. v = <<"/">>
      BY <2>2, Slash DEF Paths
    <2>4. IsSuffix(<<"/">>, incoming) <=> incoming[Len(incoming)] = "/"
      <3>1. Len(incoming) \in Nat \ {0}
        BY SlashesAgree
      <3> QED
        <4> DEFINE s == <<"/">>
        <4>1. s \in Paths /\ Len(s) = 1 /\ s[1] = "/"
          BY Slash
        <4> HIDE DEF s
        <4>2. IsSuffix(s, incoming) <=> /\ Len(s) <= Len(incoming)
                                        /\ \A g \in 1..Len(s) : s[g] = incoming[Len(incoming) - Len(s) + g]
          BY <1>2, <4>1, Suffix
        <4>3. Len(incoming) - Len(s) + 1 = Len(incoming) /\ 1..Len(s) = {1}
          BY <3>1, <4>1
        <4> QED
          BY <3>1, <4>1, <4>2, <4>3 DEF s
    <2>5. incoming = <<"/">> => incoming[Len(incoming)] = "/"
      BY Slash
    <2>6. \A k \in 1..Len(spec) : spec[k] = "/"
      BY <1>4, SlashesAgree
    <2>7. PathOf(spec, path) <=> \A k \in 1..Len(path) : path[k] = "/"
      BY <2>6 DEF PathOf
    <2> QED
      BY <2>1, <2>3, <2>4, <2>5, <2>7, SlashesAgree
  <1>5. CASE LastIn(spec) > 0
    <2> DEFINE x == FirstIn(spec)
               y == LastIn(spec)
    <2>1. /\ 1 <= x /\ x <= y /\ y <= Len(spec) /\ spec[x] # "/" /\ spec[y] # "/"
          /\ w \in Paths /\ Len(w) = y - x + 1
          /\ \A g \in 1..(y - x + 1) : w[g] = spec[x + g - 1]
          /\ Len(suffix) > Len(w)
          /\ \A g \in 1..Len(w) : w[g] = suffix[Len(suffix) - Len(w) + g]
          /\ suffix[Len(suffix) - Len(w)] = "/"
      BY <1>5, Bare
    <2>2. /\ x \in Nat /\ y \in Nat
          /\ \A j \in 1..(x - 1) : spec[j] = "/"
          /\ \A j \in (y + 1)..Len(spec) : spec[j] = "/"
      BY <1>1, FirstInPath, LastInPath
    <2>3. /\ v \in Paths /\ Len(v) = Len(w) + 1 /\ v[1] = "/"
          /\ \A g \in 1..Len(w) : v[g + 1] = w[g]
      BY <2>1, Slash, Concat
    <2>4. Len(w) \in Nat /\ Len(v) \in Nat /\ Len(incoming) \in Nat /\ Len(suffix) \in Nat
      BY <1>2, <2>1, <2>3 DEF Paths
    <2>5. e > 0 => /\ d \in {0, 1} /\ (d = 1 => incoming[1] = "/")
                   /\ path[1] # "/" => d = 1
                   /\ \A g \in 1..e : incoming[g + d] = path[g]
      <3> SUFFICES ASSUME e > 0
                   PROVE  /\ d \in {0, 1} /\ (d = 1 => incoming[1] = "/")
                          /\ path[1] # "/" => d = 1
                          /\ \A g \in 1..e : incoming[g + d] = path[g]
        OBVIOUS
      <3>1. CASE path[1] = "/"
        <4>1. Len(incoming) = e /\ \A g \in 1..e : incoming[g] = path[g]
          BY <3>1, Normalised
        <4>2. d = 0 /\ e \in Nat
          BY <1>1, <1>3, <4>1
        <4> QED
          BY <3>1, <4>1, <4>2
      <3>2. CASE path[1] # "/"
        <4>1. /\ Len(incoming) = e + 1 /\ incoming[1] = "/"
              /\ \A g \in 1..e : incoming[g + 1] = path[g]
          BY <3>2, Normalised
        <4>2. d = 1 /\ e \in Nat
          BY <1>1, <1>3, <4>1
        <4> QED
          BY <3>2, <4>1, <4>2
      <3> QED
        BY <3>1, <3>2
    <2>6. IsSuffix(v, incoming) <=>
            /\ Len(v) <= Len(incoming)
            /\ \A g \in 1..Len(v) : v[g] = incoming[Len(incoming) - Len(v) + g]
      BY <1>2, <2>3, Suffix
    <2> HIDE DEF w, v, e, d, x, y
    <2>7. incoming = suffix => IsSuffix(v, incoming)
      <3> SUFFICES ASSUME incoming = suffix, NEW g \in 1..Len(v)
                   PROVE  v[g] = incoming[Len(incoming) - Len(v) + g]
        BY <2>1, <2>3, <2>4, <2>6
      <3>1. CASE g = 1
        <4>1. Len(incoming) - Len(v) + g = Len(suffix) - Len(w)
          BY <2>3, <2>4, <3>1
        <4> QED
          BY <2>1, <2>3, <3>1, <4>1
      <3>2. CASE g > 1
        <4>1. g - 1 \in 1..Len(w) /\ (g - 1) + 1 = g
          BY <2>3, <2>4, <3>2
        <4>2. v[g] = w[g - 1]
          BY <2>3, <4>1
        <4>3. w[g - 1] = suffix[Len(suffix) - Len(w) + (g - 1)]
          BY <2>1, <4>1
        <4>4. Len(suffix) - Len(w) + (g - 1) = Len(incoming) - Len(v) + g
          BY <2>3, <2>4
        <4> QED
          BY <4>2, <4>3, <4>4
      <3> QED
        BY <2>4, <3>1, <3>2
    <2>8. e > 0 => Len(incoming) = e + d
      BY <1>3, <2>4, <2>5 DEF d
    <2>9. ASSUME IsSuffix(v, incoming) PROVE PathOf(spec, path)
      <3> DEFINE b == e - Len(w) + 1
      <3>1. /\ Len(v) <= Len(incoming)
            /\ \A g \in 1..Len(v) : v[g] = incoming[Len(incoming) - Len(v) + g]
        BY <2>6, <2>9
      <3>2. e > 0
        <4>1. CASE e = 0
          <5>1. Len(incoming) = 1
            BY <4>1, Normalised, Slash DEF e
          <5> QED
            BY <2>1, <2>2, <2>3, <2>4, <3>1, <5>1
        <4> QED
          BY <1>3, <4>1
      <3>3. e \in Nat /\ d \in {0, 1} /\ Len(incoming) = e + d
        BY <1>1, <1>3, <2>5, <2>8, <3>2
      <3>4. b \in 1..Len(path) /\ b + (y - x) = e
        BY <1>1, <1>3, <2>1, <2>2, <2>3, <2>4, <3>1, <3>3
      <3>5. ASSUME NEW k \in x..y PROVE path[b + k - x] = spec[k]
        <4>1. k - x + 1 \in 1..(y - x + 1) /\ k - x + 1 \in 1..Len(w) /\ x + (k - x + 1) - 1 = k
          BY <2>1, <2>2
        <4>2. w[k - x + 1] = spec[k]
          BY <2>1, <4>1
        <4>3. v[k - x + 1 + 1] = w[k - x + 1]
          BY <2>3, <4>1
        <4>4. k - x + 1 + 1 \in 1..Len(v)
          BY <2>3, <2>4, <4>1
        <4>5. v[k - x + 1 + 1] = incoming[Len(incoming) - Len(v) + (k - x + 1 + 1)]
          BY <3>1, <4>4
        <4>6. Len(incoming) - Len(v) + (k - x + 1 + 1) = (b + k - x) + d
          BY <2>2, <2>3, <2>4, <3>3
        <4>7. b + k - x \in 1..e
          BY <2>2, <3>3, <3>4
        <4>8. incoming[(b + k - x) + d] = path[b + k - x]
          BY <2>5, <3>2, <4>7
        <4> QED
          BY <4>2, <4>3, <4>5, <4>6, <4>8
      <3>6. b = 1 \/ path[b - 1] = "/"
        <4> SUFFICES ASSUME b > 1 PROVE path[b - 1] = "/"
          BY <3>4
        <4>1. 1 \in 1..Len(v) /\ Len(incoming) - Len(v) + 1 = (b - 1) + d
          BY <2>3, <2>4, <3>3
        <4>2. b - 1 \in 1..e
          BY <2>2, <2>4, <3>3, <3>4
        <4>3. incoming[(b - 1) + d] = path[b - 1]
          BY <2>5, <3>2, <4>2
        <4>4. v[1] = incoming[Len(incoming) - Len(v) + 1]
          BY <3>1, <4>1
        <4> QED
          BY <2>3, <4>1, <4>3, <4>4
      <3>7. \A j \in (b + (y - x) + 1)..Len(path) : path[j] = "/"
        BY <1>3, <3>4
      <3>8. x \in 1..Len(spec) /\ y \in 1..Len(spec) /\ b + (y - x) <= Len(path)
        BY <1>1, <1>3, <2>1, <2>2, <3>4
      <3> HIDE DEF b
      <3>9. ~(\A k \in 1..Len(spec) : spec[k] = "/")
        BY <2>1, <3>8
      <3> QED
        BY <2>1, <2>2, <3>4, <3>5, <3>6, <3>7, <3>8, <3>9 DEF PathOf
    <2>10. ASSUME PathOf(spec, path) PROVE IsSuffix(v, incoming)
      <3>1. ~(\A k \in 1..Len(spec) : spec[k] = "/")
        BY <1>1, <2>1, <2>2
      <3>2. PICK x1, y1 \in 1..Len(spec), b \in 1..Len(path) :
                /\ x1 <= y1 /\ spec[x1] # "/" /\ spec[y1] # "/"
                /\ \A k \in 1..(x1 - 1) : spec[k] = "/"
                /\ \A k \in (y1 + 1)..Len(spec) : spec[k] = "/"
                /\ b + (y1 - x1) <= Len(path)
                /\ \A k \in x1..y1 : path[b + k - x1] = spec[k]
                /\ \A k \in (b + (y1 - x1) + 1)..Len(path) : path[k] = "/"
                /\ b = 1 \/ path[b - 1] = "/"
        BY <2>10, <3>1 DEF PathOf
      <3>0. x1 \in Nat /\ y1 \in Nat /\ b \in Nat /\ Len(spec) \in Nat /\ Len(path) \in Nat
        BY <1>1, <3>2
      <3>3. x1 = x /\ y1 = y
        <4>1. x \in 1..Len(spec) /\ y \in 1..Len(spec)
          BY <2>1, <2>2, <3>0
        <4>2. ~(x1 < x)
          <5>1. x1 < x => x1 \in 1..(x - 1)
            BY <2>2, <3>0, <3>2
          <5> QED
            BY <2>2, <3>2, <5>1
        <4>3. ~(x < x1)
          <5>1. x < x1 => x \in 1..(x1 - 1)
            BY <2>2, <3>0, <4>1
          <5> QED
            BY <2>1, <3>2, <5>1
        <4>4. ~(y1 < y)
          <5>1. y1 < y => y \in (y1 + 1)..Len(spec)
            BY <2>2, <3>0, <4>1
          <5> QED
            BY <2>1, <3>2, <5>1
        <4>5. ~(y < y1)
          <5>1. y < y1 => y1 \in (y + 1)..Len(spec)
            BY <2>2, <3>0, <3>2
          <5> QED
            BY <2>2, <3>2, <5>1
        <4> QED
          BY <2>2, <3>0, <4>2, <4>3, <4>4, <4>5
      <3>4. e = b + (y - x)
        <4>1. path[b + y - x] # "/" /\ b + y - x \in 1..Len(path)
          BY <1>1, <2>1, <2>2, <3>2, <3>3
        <4> QED
          BY <1>1, <1>3, <2>2, <3>2, <3>3, <4>1
      <3>5. e > 0 /\ e \in Nat /\ d \in {0, 1} /\ Len(incoming) = e + d
        BY <1>1, <1>3, <2>1, <2>2, <2>5, <2>8, <3>2, <3>4
      <3>6. b + d >= 2 /\ incoming[b + d - 1] = "/"
        <4>1. CASE b = 1
          <5>1. path[1] # "/"
            <6>1. x \in x..y /\ b + x - x = 1
              BY <2>1, <2>2, <4>1
            <6> QED
              BY <2>1, <3>2, <3>3, <6>1
          <5> QED
            BY <2>5, <3>5, <4>1, <5>1
        <4>2. CASE b > 1
          <5>0. x <= y /\ d \in Nat
            BY <2>1, <3>5
          <5>1. b - 1 \in 1..e /\ b + d - 1 = (b - 1) + d
            BY <2>2, <3>0, <3>4, <3>5, <4>2, <5>0
          <5> QED
            BY <2>5, <3>2, <3>5, <4>2, <5>1
        <4> QED
          BY <3>2, <4>1, <4>2
      <3>7. Len(v) <= Len(incoming) /\ Len(incoming) - Len(v) = b + d - 2
        BY <1>1, <2>1, <2>2, <2>3, <2>4, <3>2, <3>4, <3>5, <3>6
      <3>8. ASSUME NEW g \in 1..Len(v) PROVE v[g] = incoming[Len(incoming) - Len(v) + g]
        <4>1. CASE g = 1
          <5>1. Len(incoming) - Len(v) + g = b + d - 1
            BY <3>2, <3>5, <3>7, <4>1
          <5> QED
            BY <2>3, <3>6, <4>1, <5>1
        <4>2. CASE g > 1
          <5> DEFINE k == x + g - 2
          <5>1. /\ k \in x..y /\ g - 1 \in 1..Len(w) /\ g - 1 \in 1..(y - x + 1)
                /\ x + (g - 1) - 1 = k /\ (g - 1) + 1 = g
            BY <2>1, <2>2, <2>3, <2>4, <4>2
          <5>2. v[g] = spec[k]
            BY <2>1, <2>3, <5>1
          <5>3. path[b + k - x] = spec[k]
            BY <3>2, <3>3, <5>1
          <5>4. b + k - x \in 1..e /\ (b + k - x) + d = Len(incoming) - Len(v) + g
            <6>1. b >= 1 /\ d \in Nat /\ g \in Nat /\ b \in Nat
              BY <2>4, <3>0, <3>2, <3>5
            <6>2. b + k - x = b + g - 2
              BY <2>2, <6>1
            <6>3. b + g - 2 \in 1..e
              BY <2>2, <3>4, <3>5, <4>2, <5>1, <6>1
            <6>4. (b + g - 2) + d = Len(incoming) - Len(v) + g
              BY <3>7, <6>1
            <6> QED
              BY <6>2, <6>3, <6>4
          <5>5. incoming[(b + k - x) + d] = path[b + k - x]
            BY <2>5, <3>5, <5>4
          <5> QED
            BY <5>2, <5>3, <5>4, <5>5
        <4> QED
          BY <2>4, <4>1, <4>2
      <3> QED
        BY <2>6, <3>7, <3>8
    <2> QED
      BY <2>7, <2>9, <2>10 DEF v, w
  <1> QED
    BY <1>4, <1>5, LastInPath

-----------------------------------------------------------------------------
(* What every state of a gateway is made of. *)

ToolPhases == {"PreDispatchGate", "PreDispatchTransform", "PostDispatchTransform",
               "PostDispatchGate"}
Open == ToolPhases \cup {"identity", "emit"}
Phases == Open \cup {"none", "http", "replied", "panicked"}
Answers == Decisions \cup {"Unchanged", "Modified", "Error", "None", "Resolved", "Invalid",
                           "ok", "failed"}
Verdicts == [phase : Open \cup {"none", "http", "Complete"},
             why : Answers \cup {"none", "handled", "404"}]
Results == [echo : Seq(GwPlugins) \cup {"none", "error"}, by : Seq(GwPlugins)]
Visits == [phase : Open, who : GwPlugins, args : Seq(GwPlugins), result : Results,
           answer : Answers]
Calls == [phase : Phases, next : Nat, sink : Sinks, args : Seq(GwPlugins),
          result : Results, seen : Seq(Visits), decision : Verdicts,
          request : {NoRequest} \cup gwScene.requests]
Bindings == [table : Supported \cup Named, key : GwKeys, plugin : GwPlugins]

GwTypeOK ==
    /\ gwScene \in GwScenes
    /\ gates \in Seq(GwPlugins) /\ transforms \in Seq(GwPlugins) /\ identities \in Seq(GwPlugins)
    /\ sinks \in [Sinks -> Seq(GwPlugins)]
    /\ routes \in Seq([name : GwKeys, specs : gwScene.offers])
    /\ bound \in [Supported \cup Named -> [GwKeys -> GwPlugins \cup {NoPlugin}]]
    /\ history \in Seq(Bindings)
    /\ call \in Calls

\* Whom the loop of a phase asks.
Asked(phase) ==
    CASE phase \in {"PreDispatchGate", "PostDispatchGate"} -> gates
      [] phase \in {"PreDispatchTransform", "PostDispatchTransform"} -> transforms
      [] phase = "identity" -> identities
      [] OTHER -> sinks[call.sink]

\* The operation a phase belongs to, and the place in its loop.
Coherent ==
    /\ call.phase \in Open => call.next \in 1..(Len(Asked(call.phase)) + 1)
    /\ call.phase \in ToolPhases => gwScene.op = "tool"
    /\ call.phase = "identity" => gwScene.op = "identity"
    /\ call.phase = "emit" => gwScene.op = "emit"
    /\ call.phase = "http" => gwScene.op = "http" /\ call.request \in gwScene.requests
    /\ call.phase = "panicked" => gwScene.op = "table"

\* A call that was stopped has replied.
LEMMA StoppedType ==
    ASSUME GwTypeOK, NEW phase, NEW d, [phase |-> phase, why |-> d] \in Verdicts,
           NEW seen \in Seq(Visits)
    PROVE  /\ Stopped(phase, d, seen) \in Calls
           /\ Stopped(phase, d, seen).phase = "replied"
           /\ Stopped(phase, d, seen).next = 0
           /\ Stopped(phase, d, seen).sink = call.sink
           /\ Stopped(phase, d, seen).request = call.request
           /\ Stopped(phase, d, seen).seen = seen
           /\ Stopped(phase, d, seen).decision = [phase |-> phase, why |-> d]
  <1>1. ErrorResult \in Results
    BY DEF ErrorResult, Results
  <1>2. call \in Calls /\ "replied" \in Phases
    BY DEF GwTypeOK, Phases
  <1> QED
    BY <1>1, <1>2 DEF Calls, Stopped

\* A visit is a visit of a plugin.
LEMMA SawType ==
    ASSUME GwTypeOK, NEW phase \in Open, NEW p \in GwPlugins, NEW a \in Answers
    PROVE  Saw(phase, p, a) \in Seq(Visits)
  <1>1. [phase |-> phase, who |-> p, args |-> call.args, result |-> call.result,
         answer |-> a] \in Visits
    BY DEF GwTypeOK, Calls, Visits
  <1>2. call.seen \in Seq(Visits)
    BY DEF GwTypeOK, Calls
  <1> QED
    BY <1>1, <1>2 DEF Saw

\* No call is a call.
LEMMA NoCallType == NoCall \in Calls
  <1>1. NoResult \in Results /\ <<>> \in Seq(Visits) /\ <<>> \in Seq(GwPlugins)
    BY DEF NoResult, Results
  <1>2. NoDecision \in Verdicts /\ "audit" \in Sinks /\ "none" \in Phases
    BY DEF NoDecision, Verdicts, Sinks, Phases
  <1> QED
    BY <1>1, <1>2 DEF NoCall, Calls

\* An empty gateway is well formed.
LEMMA ShapeInit == GwInit => GwTypeOK /\ Coherent
  <1> SUFFICES ASSUME GwInit PROVE GwTypeOK /\ Coherent
    OBVIOUS
  <1>1. NoCall \in Calls /\ NoCall.phase = "none"
    BY NoCallType DEF NoCall
  <1> QED
    BY <1>1 DEF GwInit, GwNew, GwTypeOK, Coherent, ToolPhases, Open

\* A step of an operation keeps the shape if its call does.
LEMMA ShapeOfStep ==
    ASSUME GwTypeOK, Coherent, UNCHANGED gwConfig, call' \in Calls,
           \/ call'.phase \in {call.phase, "replied"}
           \/ call.phase \in ToolPhases /\ call'.phase \in ToolPhases,
           call'.phase \in Open => call'.next \in 1..(Len(Asked(call'.phase)) + 1),
           call'.request = call.request, call'.sink = call.sink
    PROVE  GwTypeOK' /\ Coherent'
  <1>1. UNCHANGED <<gwScene, gates, transforms, identities, sinks, routes, bound, history>>
    BY DEF gwConfig
  <1>2. call' \in Calls'
    BY <1>1 DEF Calls
  <1>3. GwTypeOK'
    BY <1>1, <1>2 DEF GwTypeOK
  <1>4. \A phase : Asked(phase)' = Asked(phase)
    BY <1>1 DEF Asked
  <1>5. Coherent'
    BY <1>1, <1>4 DEF Coherent, ToolPhases
  <1> QED
    BY <1>3, <1>5

\* Building it keeps that.
LEMMA ShapeBuild ==
    ASSUME GwTypeOK, Coherent, GwBuild
    PROVE  GwTypeOK' /\ Coherent'
  <1> USE DEF Building
  <1>0. ASSUME UNCHANGED <<gwScene, call>>, call = NoCall PROVE Calls' = Calls /\ Coherent'
    <2>1. call.phase = "none"
      BY <1>0 DEF NoCall
    <2> QED
      BY <1>0, <2>1 DEF Calls, Coherent, ToolPhases, Open
  <1>1. ASSUME NEW p \in GwPlugins, WithToolGate(p) PROVE GwTypeOK' /\ Coherent'
    BY <1>0, <1>1 DEF WithToolGate, GwTypeOK
  <1>2. ASSUME NEW p \in GwPlugins, WithTransform(p) PROVE GwTypeOK' /\ Coherent'
    BY <1>0, <1>2 DEF WithTransform, GwTypeOK
  <1>3. ASSUME NEW p \in GwPlugins, WithIdentity(p) PROVE GwTypeOK' /\ Coherent'
    BY <1>0, <1>3 DEF WithIdentity, GwTypeOK
  <1>4. ASSUME NEW p \in GwPlugins, NEW k \in Sinks, WithSink(k, p) PROVE GwTypeOK' /\ Coherent'
    BY <1>0, <1>4 DEF WithSink, GwTypeOK
  <1>5. ASSUME NEW p \in GwPlugins, NEW t \in Supported \cup Named, NEW k \in GwKeys,
               NEW valid \in BOOLEAN, Bind(t, k, p, valid)
        PROVE  GwTypeOK' /\ Coherent'
    <2>1. CASE Accepts(t, k, valid)
      <3>1. bound' = [bound EXCEPT ![t][k] = p]
        BY <1>5, <2>1 DEF Bind
      <3>2. bound' \in [Supported \cup Named -> [GwKeys -> GwPlugins \cup {NoPlugin}]]
        BY <3>1 DEF GwTypeOK
      <3>3. [table |-> t, key |-> k, plugin |-> p] \in Bindings
        BY DEF Bindings
      <3>4. history' \in Seq(Bindings)
        <4>1. /\ history' = Append(history, [table |-> t, key |-> k, plugin |-> p])
              /\ history \in Seq(Bindings)
          BY <1>5, <2>1 DEF Bind, GwTypeOK
        <4> QED
          BY <3>3, <4>1
      <3> QED
        BY <1>0, <1>5, <2>1, <3>2, <3>4 DEF Bind, GwTypeOK
    <2>2. CASE ~Accepts(t, k, valid)
      <3>1. call' = [NoCall EXCEPT !.phase = "panicked"]
        BY <1>5, <2>2 DEF Bind
      <3>2. call' \in Calls /\ call'.phase = "panicked"
        BY <3>1, NoCallType DEF Calls, Phases
      <3>3. call' \in Calls'
        BY <1>5, <3>2 DEF Bind, Calls
      <3>4. gwScene' = gwScene /\ gwScene.op = "table"
        BY <1>5 DEF Bind
      <3>5. Coherent'
        BY <3>2, <3>4 DEF Coherent, ToolPhases, Open
      <3> QED
        BY <1>5, <2>2, <3>3, <3>5 DEF Bind, GwTypeOK
    <2> QED
      BY <2>1, <2>2
  <1>6. ASSUME NEW k \in GwKeys, NEW specs \in gwScene.offers, WithHttpRoute(k, specs)
        PROVE  GwTypeOK' /\ Coherent'
    <2>1. [name |-> k, specs |-> specs] \in [name : GwKeys, specs : gwScene.offers]
      OBVIOUS
    <2>2. routes' \in Seq([name : GwKeys, specs : gwScene'.offers])
      BY <1>6, <2>1 DEF WithHttpRoute, GwTypeOK
    <2> QED
      BY <1>0, <1>6, <2>2 DEF WithHttpRoute, GwTypeOK
  <1> QED
    BY <1>1, <1>2, <1>3, <1>4, <1>5, <1>6 DEF GwBuild

\* A call that begins is one of its operation.
LEMMA BeginShape ==
    ASSUME GwTypeOK, NEW op, NEW phase \in Phases, NEW k \in Sinks,
           NEW request \in {NoRequest} \cup gwScene.requests,
           Begin(op, phase, k, request)
    PROVE  /\ call' \in Calls /\ call'.phase = phase /\ call'.request = request
           /\ call'.next = 1 /\ call'.sink = k /\ call'.seen = <<>> /\ call'.args = <<>>
           /\ call'.result = NoResult
           /\ gwScene.op = op /\ call = NoCall /\ UNCHANGED gwConfig
  <1>1. call' = [NoCall EXCEPT !.phase = phase, !.next = 1, !.sink = k, !.request = request]
    BY DEF Begin
  <1>2. call' \in Calls
    BY <1>1, NoCallType DEF Calls
  <1>3. /\ call'.phase = phase /\ call'.request = request
        /\ call'.next = 1 /\ call'.sink = k /\ call'.seen = <<>> /\ call'.args = <<>>
        /\ call'.result = NoResult
    BY <1>1 DEF NoCall
  <1> QED
    BY <1>2, <1>3 DEF Begin, Building

\* Beginning a call keeps the gateway well formed.
LEMMA ShapeBegin ==
    ASSUME GwTypeOK, Coherent, GwBegin
    PROVE  GwTypeOK' /\ Coherent'
  <1>1. PICK op \in {"tool", "identity", "emit", "http"}, phase \in Phases, k \in Sinks, request \in {NoRequest} \cup gwScene.requests :
            /\ Begin(op, phase, k, request)
            /\ \/ op = "tool" /\ phase = "PreDispatchGate"
               \/ op = "identity" /\ phase = "identity"
               \/ op = "emit" /\ phase = "emit"
               \/ op = "http" /\ phase = "http" /\ request \in gwScene.requests
    <2>1. /\ "PreDispatchGate" \in Phases /\ "identity" \in Phases /\ "emit" \in Phases
          /\ "http" \in Phases /\ "audit" \in Sinks
      BY DEF Phases, Open, ToolPhases, Sinks
    <2> QED
      BY <2>1, Zenon DEF GwBegin
  <1>2. call' \in Calls /\ call'.phase = phase /\ call'.request = request
        /\ call'.next = 1 /\ call'.sink = k /\ gwScene.op = op /\ UNCHANGED gwConfig
    BY <1>1, BeginShape
  <1>3. UNCHANGED <<gwScene, gates, transforms, identities, sinks, routes, bound, history>>
    BY <1>2 DEF gwConfig
  <1>4. call' \in Calls'
    BY <1>2, <1>3 DEF Calls
  <1>5. GwTypeOK'
    BY <1>3, <1>4 DEF GwTypeOK
  <1>6. Coherent'
    <2>1. Len(Asked(call.phase)') \in Nat
      <3>1. /\ gates' \in Seq(GwPlugins) /\ transforms' \in Seq(GwPlugins)
            /\ identities' \in Seq(GwPlugins) /\ sinks'[call'.sink] \in Seq(GwPlugins)
        BY <1>2, <1>5 DEF GwTypeOK
      <3>2. Asked(call.phase)' \in Seq(GwPlugins)
        BY <3>1 DEF Asked
      <3> QED
        BY <3>2
    <2>2. call'.phase \in Open => call'.next \in 1..(Len(Asked(call.phase)') + 1)
      BY <1>2, <2>1
    <2> QED
      BY <1>1, <1>2, <1>3, <2>2 DEF Coherent, ToolPhases
  <1> QED
    BY <1>5, <1>6

\* The plugins asked in a phase are registered ones.
LEMMA AskedType ==
    ASSUME GwTypeOK, NEW phase
    PROVE  Asked(phase) \in Seq(GwPlugins)
  <1>1. sinks[call.sink] \in Seq(GwPlugins)
    BY DEF GwTypeOK, Calls
  <1> QED
    BY <1>1 DEF GwTypeOK, Asked

-----------------------------------------------------------------------------
(* The three kinds of steps of an operation other than an HTTP request. *)

\* A plugin is asked and answers.
Visited(phase, a) ==
    LET p == Asked(phase)[call.next]
    IN  /\ During(phase) /\ call.next \in 1..Len(Asked(phase)) /\ p \in GwPlugins
        /\ call'.seen = Saw(phase, p, a)
        /\ IF a \in Stops
           THEN call'.phase = "replied" /\ call'.decision = [phase |-> phase, why |-> a]
           ELSE /\ call'.phase = phase /\ call'.next = call.next + 1
                /\ call'.args = IF phase = "PreDispatchTransform" /\ a = "Modified"
                                THEN Append(call.args, p) ELSE call.args
                /\ call'.result.echo = call.result.echo
                /\ call'.result.by = IF phase = "PostDispatchTransform" /\ a = "Modified"
                                     THEN Append(call.result.by, p) ELSE call.result.by

\* A loop is over and the next one begins.
After == [PreDispatchGate |-> "PreDispatchTransform",
          PreDispatchTransform |-> "PostDispatchTransform",
          PostDispatchTransform |-> "PostDispatchGate"]
Moved(phase) ==
    /\ During(phase) /\ call.next = Len(Asked(phase)) + 1
    /\ call'.phase = After[phase] /\ call'.next = 1
    /\ call'.seen = call.seen /\ call'.args = call.args
    /\ call'.result = IF phase = "PreDispatchTransform" THEN [echo |-> call.args, by |-> <<>>]
                      ELSE call.result

\* The last one is over.
Finished(phase) ==
    /\ During(phase) /\ call.next = Len(Asked(phase)) + 1
    /\ call'.phase = "replied" /\ call'.seen = call.seen
    /\ call'.decision.why \notin Stops
    /\ call'.decision.phase = IF phase = "PostDispatchGate" THEN "Complete" ELSE phase

Kept == /\ call' \in Calls /\ call'.sink = call.sink /\ call'.request = call.request
        /\ UNCHANGED gwConfig

\* A call goes on to the next plugin.
Ahead(c, seen, args, result) ==
    [c EXCEPT !.next = c.next + 1, !.seen = seen, !.args = args, !.result = result]

\* A call one place further on in its loop.
LEMMA Advanced ==
    ASSUME NEW c \in Calls, NEW seen \in Seq(Visits), NEW args \in Seq(GwPlugins),
           NEW result \in Results
    PROVE  LET d == Ahead(c, seen, args, result)
           IN
           /\ d \in Calls /\ d.sink = c.sink /\ d.request = c.request
           /\ d.phase = c.phase /\ d.next = c.next + 1 /\ d.seen = seen
           /\ d.args = args /\ d.result = result
  <1>1. c.next + 1 \in Nat
    BY DEF Calls
  <1> QED
    BY <1>1 DEF Calls, Ahead

\* Each action of an operation is of one of the three kinds: a gate ...
LEMMA GateVisits ==
    ASSUME GwTypeOK, Coherent, NEW phase \in {"PreDispatchGate", "PostDispatchGate"},
           NEW d \in Decisions, Gate(phase, d)
    PROVE  Visited(phase, d) /\ Kept
  <1> DEFINE p == gates[call.next]
             seen == Saw(phase, p, d)
  <1>1. phase \in Open /\ d \in Answers /\ [phase |-> phase, why |-> d] \in Verdicts
    BY DEF Open, ToolPhases, Answers, Verdicts
  <1>2. Asked(phase) = gates /\ call.phase = phase /\ call.next <= Len(gates)
    BY DEF Asked, Gate, During
  <1>3. call.next \in 1..Len(gates) /\ p \in GwPlugins /\ call \in Calls
    BY <1>1, <1>2 DEF Coherent, GwTypeOK
  <1>4. seen \in Seq(Visits)
    BY <1>1, <1>3, SawType
  <1> HIDE DEF seen
  <1>5. CASE d = "Allow"
    <2>1. call' = [call EXCEPT !.next = @ + 1, !.seen = seen]
      BY <1>5 DEF Gate, seen
    <2>2. /\ call' \in Calls /\ call'.sink = call.sink /\ call'.request = call.request
          /\ call'.phase = phase /\ call'.next = call.next + 1 /\ call'.seen = seen
          /\ call'.args = call.args /\ call'.result = call.result
      <3>1. call.args \in Seq(GwPlugins) /\ call.result \in Results
        BY <1>2, <1>3, <1>4 DEF Calls
      <3>2. call' = Ahead(call, seen, call.args, call.result)
        BY <1>2, <1>3, <1>4, <2>1 DEF Calls, Ahead
      <3> QED
        BY <1>2, <1>3, <1>4, <3>1, <3>2, Advanced
    <2>3. d \notin Stops
      BY <1>5 DEF Stops
    <2> QED
      BY <1>1, <1>2, <1>3, <1>5, <2>2, <2>3 DEF Visited, Kept, During, Gate, seen
  <1>6. CASE d # "Allow"
    <2>1. call' = Stopped(phase, d, seen)
      BY <1>6 DEF Gate, seen
    <2>2. d \in Stops
      BY <1>6 DEF Stops, Decisions
    <2>3. /\ call' \in Calls /\ call'.sink = call.sink /\ call'.request = call.request
          /\ call'.phase = "replied" /\ call'.seen = seen
          /\ call'.decision = [phase |-> phase, why |-> d]
      BY <1>1, <1>4, <2>1, StoppedType
    <2> QED
      BY <1>2, <1>3, <2>2, <2>3 DEF Visited, Kept, During, Gate, seen
  <1> QED
    BY <1>5, <1>6

\* ... a transform of the arguments ...
LEMMA TransformArgumentsVisits ==
    ASSUME GwTypeOK, Coherent, NEW r \in {"Unchanged", "Modified", "Error"},
           TransformArguments(r)
    PROVE  Visited("PreDispatchTransform", r) /\ Kept
  <1> DEFINE phase == "PreDispatchTransform"
             p == transforms[call.next]
             seen == Saw(phase, p, r)
  <1>1. phase \in Open /\ r \in Answers /\ [phase |-> phase, why |-> r] \in Verdicts
    BY DEF Open, ToolPhases, Answers, Verdicts
  <1>2. Asked(phase) = transforms /\ call.phase = phase /\ call.next <= Len(transforms)
    BY DEF Asked, TransformArguments, During
  <1>3. call.next \in 1..Len(transforms) /\ p \in GwPlugins /\ call \in Calls
    BY <1>1, <1>2 DEF Coherent, GwTypeOK
  <1>4. seen \in Seq(Visits)
    BY <1>1, <1>3, SawType
  <1> HIDE DEF seen
  <1>5. CASE r # "Error"
    <2> DEFINE args == IF r = "Modified" THEN Append(call.args, p) ELSE call.args
    <2>0. args \in Seq(GwPlugins)
      BY <1>3 DEF Calls
    <2>1. call' = [call EXCEPT !.next = @ + 1, !.seen = seen, !.args = args]
      BY <1>5 DEF TransformArguments, seen
    <2> HIDE DEF args
    <2>2. /\ call' \in Calls /\ call'.sink = call.sink /\ call'.request = call.request
          /\ call'.phase = phase /\ call'.next = call.next + 1 /\ call'.seen = seen
          /\ call'.args = args /\ call'.result = call.result
      <3>1. call.result \in Results
        BY <1>3 DEF Calls
      <3>2. call' = Ahead(call, seen, args, call.result)
        BY <1>3, <2>1 DEF Calls, Ahead
      <3> QED
        BY <1>2, <1>3, <1>4, <2>0, <3>1, <3>2, Advanced
    <2>3. r \notin Stops
      BY <1>5 DEF Stops
    <2> QED
      BY <1>1, <1>2, <1>3, <2>2, <2>3
        DEF Visited, Kept, During, TransformArguments, seen, args
  <1>6. CASE r = "Error"
    <2>1. call' = Stopped(phase, r, seen)
      BY <1>6 DEF TransformArguments, seen
    <2>2. r \in Stops
      BY <1>6 DEF Stops
    <2>3. /\ call' \in Calls /\ call'.sink = call.sink /\ call'.request = call.request
          /\ call'.phase = "replied" /\ call'.seen = seen
          /\ call'.decision = [phase |-> phase, why |-> r]
      BY <1>1, <1>4, <2>1, StoppedType
    <2> QED
      BY <1>2, <1>3, <2>2, <2>3 DEF Visited, Kept, During, TransformArguments, seen
  <1> QED
    BY <1>5, <1>6

\* ... a transform of the result ...
LEMMA TransformResultVisits ==
    ASSUME GwTypeOK, Coherent, NEW r \in {"Unchanged", "Modified", "Error"},
           TransformResult(r)
    PROVE  Visited("PostDispatchTransform", r) /\ Kept
  <1> DEFINE phase == "PostDispatchTransform"
             p == transforms[call.next]
             seen == Saw(phase, p, r)
  <1>1. phase \in Open /\ r \in Answers /\ [phase |-> phase, why |-> r] \in Verdicts
    BY DEF Open, ToolPhases, Answers, Verdicts
  <1>2. Asked(phase) = transforms /\ call.phase = phase /\ call.next <= Len(transforms)
    BY DEF Asked, TransformResult, During
  <1>3. call.next \in 1..Len(transforms) /\ p \in GwPlugins /\ call \in Calls
    BY <1>1, <1>2 DEF Coherent, GwTypeOK
  <1>4. seen \in Seq(Visits)
    BY <1>1, <1>3, SawType
  <1> HIDE DEF seen
  <1>5. CASE r # "Error"
    <2> DEFINE by == IF r = "Modified" THEN Append(call.result.by, p) ELSE call.result.by
    <2>0. by \in Seq(GwPlugins) /\ call.result \in Results
      BY <1>3 DEF Calls, Results
    <2>1. call' = [call EXCEPT !.next = @ + 1, !.seen = seen, !.result.by = by]
      BY <1>5 DEF TransformResult, seen
    <2> HIDE DEF by
    <2>2. /\ call'.sink = call.sink /\ call'.request = call.request
          /\ call'.phase = phase /\ call'.next = call.next + 1 /\ call'.seen = seen
          /\ call'.args = call.args /\ call'.result = [call.result EXCEPT !.by = by]
      BY <1>2, <1>3, <1>4, <2>0, <2>1 DEF Calls
    <2>3. call'.result \in Results /\ call'.result.echo = call.result.echo /\ call'.result.by = by
      BY <2>0, <2>2 DEF Results
    <2>4. /\ call' = Ahead(call, seen, call.args, call'.result)
          /\ call.args \in Seq(GwPlugins)
      BY <1>3, <2>1, <2>2 DEF Calls, Ahead
    <2>5. call' \in Calls
      BY <1>3, <1>4, <2>3, <2>4, Advanced
    <2>6. r \notin Stops
      BY <1>5 DEF Stops
    <2> QED
      BY <1>1, <1>2, <1>3, <2>2, <2>3, <2>5, <2>6
        DEF Visited, Kept, During, TransformResult, seen, by
  <1>6. CASE r = "Error"
    <2>1. call' = Stopped(phase, r, seen)
      BY <1>6 DEF TransformResult, seen
    <2>2. r \in Stops
      BY <1>6 DEF Stops
    <2>3. /\ call' \in Calls /\ call'.sink = call.sink /\ call'.request = call.request
          /\ call'.phase = "replied" /\ call'.seen = seen
          /\ call'.decision = [phase |-> phase, why |-> r]
      BY <1>1, <1>4, <2>1, StoppedType
    <2> QED
      BY <1>2, <1>3, <2>2, <2>3 DEF Visited, Kept, During, TransformResult, seen
  <1> QED
    BY <1>5, <1>6

\* ... an identity provider ...
LEMMA ResolveIdentitySteps ==
    ASSUME GwTypeOK, Coherent, NEW r \in {"None", "Resolved", "Invalid"}, ResolveIdentity(r)
    PROVE  (Visited("identity", r) \/ Finished("identity")) /\ Kept
  <1> DEFINE phase == "identity"
             p == identities[call.next]
             seen == Saw(phase, p, r)
  <1>1. phase \in Open /\ r \in Answers /\ [phase |-> phase, why |-> r] \in Verdicts
    BY DEF Open, ToolPhases, Answers, Verdicts
  <1>2. Asked(phase) = identities /\ call.phase = phase /\ call \in Calls
        /\ call.next \in 1..(Len(identities) + 1) /\ Len(identities) \in Nat
    BY <1>1 DEF Asked, ResolveIdentity, During, Coherent, GwTypeOK
  <1>3. CASE call.next > Len(identities)
    <2>1. call' = Stopped(phase, "None", call.seen) /\ r = "None"
      BY <1>3 DEF ResolveIdentity
    <2>2. call.seen \in Seq(Visits) /\ "None" \notin Stops
      BY <1>2 DEF Calls, Stops
    <2> QED
      BY <1>1, <1>2, <1>3, <2>1, <2>2, StoppedType DEF Finished, Kept, During, ResolveIdentity
  <1>4. CASE call.next <= Len(identities)
    <2>1. p \in GwPlugins
      BY <1>2, <1>4 DEF GwTypeOK
    <2>2. seen \in Seq(Visits)
      BY <1>1, <2>1, SawType
    <2> HIDE DEF seen
    <2>3. CASE r = "None"
      <3>1. call' = [call EXCEPT !.next = @ + 1, !.seen = seen]
        BY <1>2, <1>4, <2>3 DEF ResolveIdentity, seen
      <3>2. /\ call' \in Calls /\ call'.sink = call.sink /\ call'.request = call.request
            /\ call'.phase = phase /\ call'.next = call.next + 1 /\ call'.seen = seen
            /\ call'.args = call.args /\ call'.result = call.result
        <4>1. call.args \in Seq(GwPlugins) /\ call.result \in Results
          BY <1>2, <2>2 DEF Calls
        <4>2. call' = Ahead(call, seen, call.args, call.result)
          BY <1>2, <2>2, <3>1 DEF Calls, Ahead
        <4> QED
          BY <1>2, <2>2, <4>1, <4>2, Advanced
      <3>3. r \notin Stops
        BY <2>3 DEF Stops
      <3> QED
        BY <1>2, <1>4, <2>1, <2>3, <3>2, <3>3 DEF Visited, Kept, During, ResolveIdentity, seen
    <2>4. CASE r # "None"
      <3>1. call' = Stopped(phase, r, seen)
        BY <1>2, <1>4, <2>4 DEF ResolveIdentity, seen
      <3>2. r \in Stops
        BY <2>4 DEF Stops
      <3> QED
        BY <1>1, <1>2, <1>4, <2>1, <2>2, <3>1, <3>2, StoppedType
          DEF Visited, Kept, During, ResolveIdentity, seen
    <2> QED
      BY <2>3, <2>4
  <1> QED
    BY <1>2, <1>3, <1>4

\* ... a sink ...
LEMMA EmitSteps ==
    ASSUME GwTypeOK, Coherent, NEW r \in {"ok", "failed"}, Emit(r)
    PROVE  (Visited("emit", r) \/ Finished("emit")) /\ Kept
  <1> DEFINE phase == "emit"
             all == sinks[call.sink]
             p == all[call.next]
             seen == Saw(phase, p, r)
  <1>1. phase \in Open /\ r \in Answers /\ [phase |-> phase, why |-> "none"] \in Verdicts
    BY DEF Open, ToolPhases, Answers, Verdicts
  <1>2. all \in Seq(GwPlugins) /\ call \in Calls
    BY DEF GwTypeOK, Calls
  <1>3. Asked(phase) = all /\ call.phase = phase
        /\ call.next \in 1..(Len(all) + 1) /\ Len(all) \in Nat
    BY <1>1, <1>2 DEF Asked, Emit, During, Coherent
  <1>4. CASE call.next > Len(all)
    <2>1. call' = Stopped(phase, "none", call.seen)
      BY <1>4 DEF Emit
    <2>2. call.seen \in Seq(Visits) /\ "none" \notin Stops
      BY <1>2 DEF Calls, Stops
    <2> QED
      BY <1>1, <1>3, <1>4, <2>1, <2>2, StoppedType DEF Finished, Kept, During, Emit
  <1>5. CASE call.next <= Len(all)
    <2>1. p \in GwPlugins
      BY <1>2, <1>3, <1>5
    <2>2. seen \in Seq(Visits)
      BY <1>1, <2>1, SawType
    <2>3. call' = [call EXCEPT !.next = @ + 1, !.seen = seen]
      BY <1>3, <1>5 DEF Emit
    <2> HIDE DEF seen
    <2>4. /\ call' \in Calls /\ call'.sink = call.sink /\ call'.request = call.request
          /\ call'.phase = phase /\ call'.next = call.next + 1 /\ call'.seen = seen
          /\ call'.args = call.args /\ call'.result = call.result
      <3>1. call.args \in Seq(GwPlugins) /\ call.result \in Results
        BY <1>2, <1>3, <2>2 DEF Calls
      <3>2. call' = Ahead(call, seen, call.args, call.result)
        BY <1>2, <1>3, <2>2, <2>3 DEF Calls, Ahead
      <3> QED
        BY <1>2, <1>3, <2>2, <3>1, <3>2, Advanced
    <2>5. r \notin Stops
      BY DEF Stops
    <2> QED
      BY <1>3, <1>5, <2>1, <2>4, <2>5 DEF Visited, Kept, During, Emit, seen
  <1> QED
    BY <1>3, <1>4, <1>5

\* ... and the end of a loop.
LEMMA EndOfLoopSteps ==
    ASSUME GwTypeOK, Coherent, EndOfLoop
    PROVE  ((\E phase \in DOMAIN After : Moved(phase)) \/ Finished("PostDispatchGate")) /\ Kept
  <1>1. /\ call \in Calls /\ call.next \in Nat /\ UNCHANGED gwConfig
        /\ Len(gates) \in Nat /\ Len(transforms) \in Nat
    BY DEF GwTypeOK, Calls, EndOfLoop
  <1>2. /\ call.phase \in {"PreDispatchGate", "PostDispatchGate"} => call.next <= Len(gates) + 1
        /\ call.phase \in {"PreDispatchTransform", "PostDispatchTransform"} =>
                call.next <= Len(transforms) + 1
    BY <1>1 DEF Coherent, Asked, Open, ToolPhases
  <1>3. {"PreDispatchTransform", "PostDispatchTransform", "PostDispatchGate"} \subseteq Phases
    BY DEF Phases, Open, ToolPhases
  <1>4. CASE During("PreDispatchGate") /\ call.next > Len(gates)
             /\ call' = [call EXCEPT !.phase = "PreDispatchTransform", !.next = 1]
    <2>1. /\ call' \in Calls /\ call'.sink = call.sink /\ call'.request = call.request
          /\ call'.phase = "PreDispatchTransform" /\ call'.next = 1 /\ call'.seen = call.seen
          /\ call'.args = call.args /\ call'.result = call.result
      BY <1>1, <1>3, <1>4 DEF Calls
    <2>2. Asked("PreDispatchGate") = gates /\ call.next = Len(gates) + 1
      BY <1>1, <1>2, <1>4 DEF Asked, During
    <2>3. Moved("PreDispatchGate")
      BY <1>4, <2>1, <2>2 DEF Moved, After
    <2> QED
      BY <1>1, <2>1, <2>3 DEF Kept, After
  <1>5. CASE During("PreDispatchTransform") /\ call.next > Len(transforms)
             /\ call' = [call EXCEPT !.phase = "PostDispatchTransform", !.next = 1,
                                     !.result = [echo |-> call.args, by |-> <<>>]]
    <2>1. [echo |-> call.args, by |-> <<>>] \in Results
      BY <1>1 DEF Results, Calls
    <2>2. /\ call' \in Calls /\ call'.sink = call.sink /\ call'.request = call.request
          /\ call'.phase = "PostDispatchTransform" /\ call'.next = 1 /\ call'.seen = call.seen
          /\ call'.args = call.args /\ call'.result = [echo |-> call.args, by |-> <<>>]
      BY <1>1, <1>3, <1>5, <2>1 DEF Calls
    <2>3. Asked("PreDispatchTransform") = transforms /\ call.next = Len(transforms) + 1
      BY <1>1, <1>2, <1>5 DEF Asked, During
    <2>4. Moved("PreDispatchTransform")
      BY <1>5, <2>2, <2>3 DEF Moved, After
    <2> QED
      BY <1>1, <2>2, <2>4 DEF Kept, After
  <1>6. CASE During("PostDispatchTransform") /\ call.next > Len(transforms)
             /\ call' = [call EXCEPT !.phase = "PostDispatchGate", !.next = 1]
    <2>1. /\ call' \in Calls /\ call'.sink = call.sink /\ call'.request = call.request
          /\ call'.phase = "PostDispatchGate" /\ call'.next = 1 /\ call'.seen = call.seen
          /\ call'.args = call.args /\ call'.result = call.result
      BY <1>1, <1>3, <1>6 DEF Calls
    <2>2. Asked("PostDispatchTransform") = transforms /\ call.next = Len(transforms) + 1
      BY <1>1, <1>2, <1>6 DEF Asked, During
    <2>3. Moved("PostDispatchTransform")
      BY <1>6, <2>1, <2>2 DEF Moved, After
    <2> QED
      BY <1>1, <2>1, <2>3 DEF Kept, After
  <1>7. CASE During("PostDispatchGate") /\ call.next > Len(gates)
             /\ call' = Stopped("Complete", "none", call.seen)
    <2>1. /\ [phase |-> "Complete", why |-> "none"] \in Verdicts /\ "none" \notin Stops
          /\ call.seen \in Seq(Visits)
      BY <1>1 DEF Verdicts, Stops, Calls
    <2>2. Asked("PostDispatchGate") = gates /\ call.next = Len(gates) + 1
      BY <1>1, <1>2, <1>7 DEF Asked, During
    <2> QED
      BY <1>1, <1>7, <2>1, <2>2, StoppedType DEF Finished, Kept
  <1> QED
    BY <1>4, <1>5, <1>6, <1>7, Zenon DEF EndOfLoop

\* Every step of an operation is a visit, a move to the next phase or the end.
LEMMA StepKinds ==
    ASSUME GwTypeOK, Coherent, GwStep, ~CallHttpRoute
    PROVE  /\ \/ \E phase \in Open, a \in Answers : Visited(phase, a)
              \/ \E phase \in DOMAIN After : Moved(phase)
              \/ \E phase \in {"PostDispatchGate", "identity", "emit"} : Finished(phase)
           /\ Kept
  <1>1. /\ {"PreDispatchGate", "PostDispatchGate", "PreDispatchTransform",
            "PostDispatchTransform", "identity", "emit"} \subseteq Open
        /\ Decisions \subseteq Answers
        /\ {"Unchanged", "Modified", "Error", "None", "Resolved", "Invalid", "ok", "failed"}
            \subseteq Answers
    BY DEF Open, ToolPhases, Answers
  <1>2. ASSUME NEW phase \in {"PreDispatchGate", "PostDispatchGate"}, NEW d \in Decisions,
               Gate(phase, d)
        PROVE  phase \in Open /\ d \in Answers /\ Visited(phase, d) /\ Kept
    BY <1>1, <1>2, GateVisits
  <1>3. ASSUME NEW r \in {"Unchanged", "Modified", "Error"}, TransformArguments(r)
        PROVE  "PreDispatchTransform" \in Open /\ r \in Answers
               /\ Visited("PreDispatchTransform", r) /\ Kept
    BY <1>1, <1>3, TransformArgumentsVisits
  <1>4. ASSUME NEW r \in {"Unchanged", "Modified", "Error"}, TransformResult(r)
        PROVE  "PostDispatchTransform" \in Open /\ r \in Answers
               /\ Visited("PostDispatchTransform", r) /\ Kept
    BY <1>1, <1>4, TransformResultVisits
  <1>5. ASSUME NEW r \in {"None", "Resolved", "Invalid"}, ResolveIdentity(r)
        PROVE  "identity" \in Open /\ r \in Answers
               /\ (Visited("identity", r) \/ Finished("identity")) /\ Kept
    BY <1>1, <1>5, ResolveIdentitySteps
  <1>6. ASSUME NEW r \in {"ok", "failed"}, Emit(r)
        PROVE  "emit" \in Open /\ r \in Answers
               /\ (Visited("emit", r) \/ Finished("emit")) /\ Kept
    BY <1>1, <1>6, EmitSteps
  <1> QED
    BY <1>2, <1>3, <1>4, <1>5, <1>6, EndOfLoopSteps, Zenon DEF GwStep

\* find returns the first route of a name.
LEMMA RouteFirst ==
    ASSUME GwTypeOK, NEW name
    PROVE  LET k == RouteOf(name)
           IN  \/ k = 0 /\ \A l \in DOMAIN routes : routes[l].name # name
               \/ /\ k \in DOMAIN routes /\ k \in Nat \ {0} /\ routes[k].name = name
                  /\ \A l \in 1..(k - 1) : routes[l].name # name
  <1> DEFINE found == {k \in DOMAIN routes : routes[k].name = name}
  <1>1. found \in SUBSET Nat /\ DOMAIN routes = 1..Len(routes) /\ Len(routes) \in Nat
    BY DEF GwTypeOK
  <1>2. CASE found = {}
    BY <1>2, Zenon DEF RouteOf
  <1>3. CASE found # {}
    <2> DEFINE k == RouteOf(name)
    <2>1. \E m \in found : \A n \in found : m <= n
      BY <1>1, <1>3, Least
    <2>2. k \in found /\ \A n \in found : k <= n
      BY <1>3, <2>1, Zenon DEF RouteOf
    <2> HIDE DEF k
    <2>3. k \in DOMAIN routes /\ routes[k].name = name /\ k \in Nat \ {0}
      BY <1>1, <2>2
    <2>4. ASSUME NEW l \in 1..(k - 1), routes[l].name = name PROVE FALSE
      <3>1. l \in DOMAIN routes /\ ~(k <= l)
        BY <1>1, <2>3
      <3> QED
        BY <2>2, <2>4, <3>1
    <2> QED
      BY <2>3, <2>4 DEF k
  <1> QED
    BY <1>2, <1>3

\* A request is handled if that route has a spec that matches it.
LEMMA CallHttpRouteStep ==
    ASSUME GwTypeOK, Coherent, CallHttpRoute
    PROVE  /\ Kept /\ call'.phase = "replied" /\ call.phase = "http"
           /\ LET k == RouteOf(call.request.name)
                  matches == k # 0 /\ \E s \in routes[k].specs :
                                SpecMatches(s, call.request.method, call.request.path)
              IN  (call'.decision.why = "handled") = matches
  <1> DEFINE k == RouteOf(call.request.name)
             matches == k # 0 /\ \E s \in routes[k].specs :
                                SpecMatches(s, call.request.method, call.request.path)
             none == <<>>
  <1>1. k \in Nat
    BY RouteFirst
  <1>2. /\ [phase |-> "http", why |-> "handled"] \in Verdicts
        /\ [phase |-> "http", why |-> "404"] \in Verdicts
        /\ none \in Seq(Visits)
    BY DEF Verdicts
  <1>3. call.phase = "http" /\ UNCHANGED gwConfig
    BY DEF CallHttpRoute, During
  <1>4. CASE matches
    <2> DEFINE c == Stopped("http", "handled", none)
    <2>1. call' = [c EXCEPT !.next = k]
      BY <1>4 DEF CallHttpRoute
    <2> HIDE DEF none
    <2>2. /\ c \in Calls /\ c.phase = "replied" /\ c.sink = call.sink
          /\ c.request = call.request /\ c.decision.why = "handled"
      <3>1. /\ c \in Calls /\ c.phase = "replied" /\ c.sink = call.sink
            /\ c.request = call.request /\ c.decision = [phase |-> "http", why |-> "handled"]
        BY <1>2, StoppedType
      <3> QED
        BY <3>1
    <2> HIDE DEF c, k
    <2>3. /\ call' \in Calls /\ call'.phase = c.phase /\ call'.sink = c.sink
          /\ call'.request = c.request /\ call'.decision = c.decision
      BY <1>1, <2>1, <2>2 DEF Calls
    <2> QED
      BY <1>3, <1>4, <2>2, <2>3 DEF Kept, k
  <1>5. CASE ~matches
    <2> DEFINE c == Stopped("http", "404", none)
    <2>1. call' = c
      BY <1>5 DEF CallHttpRoute
    <2> HIDE DEF none
    <2>2. /\ c \in Calls /\ c.phase = "replied" /\ c.sink = call.sink
          /\ c.request = call.request /\ c.decision.why = "404"
      <3>1. /\ c \in Calls /\ c.phase = "replied" /\ c.sink = call.sink
            /\ c.request = call.request /\ c.decision = [phase |-> "http", why |-> "404"]
        BY <1>2, StoppedType
      <3> QED
        BY <3>1
    <2> QED
      BY <1>3, <1>5, <2>1, <2>2 DEF Kept
  <1> QED
    BY <1>4, <1>5

\* A step of an operation keeps the gateway well formed.
LEMMA ShapeStep ==
    ASSUME GwTypeOK, Coherent, GwStep
    PROVE  GwTypeOK' /\ Coherent'
  <1> USE DEF During
  <1>1. \A phase : Asked(phase) \in Seq(GwPlugins)
    BY AskedType
  <1>2. \A phase : Len(Asked(phase)) \in Nat
    BY <1>1
  <1>3. CASE CallHttpRoute
    <2>1. Kept /\ call'.phase = "replied"
      BY <1>3, CallHttpRouteStep
    <2>2. "replied" \notin Open
      BY DEF Open, ToolPhases
    <2> QED
      BY <2>1, <2>2, ShapeOfStep DEF Kept
  <1>4. CASE ~CallHttpRoute
    <2>1. Kept
      BY <1>4, StepKinds
    <2>2. ASSUME NEW phase \in Open, NEW a \in Answers, Visited(phase, a)
          PROVE  GwTypeOK' /\ Coherent'
      <3>1. \/ call'.phase = "replied"
            \/ call'.phase = call.phase /\ call'.next \in 1..(Len(Asked(call'.phase)) + 1)
        BY <1>2, <2>2 DEF Visited
      <3>2. "replied" \notin Open
        BY DEF Open, ToolPhases
      <3> QED
        BY <2>1, <3>1, <3>2, ShapeOfStep DEF Kept
    <2>3. ASSUME NEW phase \in DOMAIN After, Moved(phase) PROVE GwTypeOK' /\ Coherent'
      <3>1. call.phase \in ToolPhases /\ call'.phase \in ToolPhases
        BY <2>3 DEF Moved, After, ToolPhases
      <3>2. call'.next \in 1..(Len(Asked(call'.phase)) + 1)
        BY <1>2, <2>3 DEF Moved
      <3> QED
        BY <2>1, <3>1, <3>2, ShapeOfStep DEF Kept
    <2>4. ASSUME NEW phase \in {"PostDispatchGate", "identity", "emit"}, Finished(phase)
          PROVE  GwTypeOK' /\ Coherent'
      <3>1. call'.phase = "replied" /\ "replied" \notin Open
        BY <2>4 DEF Finished, Open, ToolPhases
      <3> QED
        BY <2>1, <3>1, ShapeOfStep DEF Kept
    <2> QED
      BY <1>4, <2>2, <2>3, <2>4, StepKinds
  <1> QED
    BY <1>3, <1>4

\* Every step does.
LEMMA Shape == GwTypeOK /\ Coherent /\ [GwNext]_gwVars => GwTypeOK' /\ Coherent'
  <1>1. ASSUME GwTypeOK, Coherent, UNCHANGED gwVars PROVE GwTypeOK' /\ Coherent'
    BY <1>1 DEF gwVars, GwTypeOK, Coherent, Calls, Asked
  <1> QED
    BY <1>1, ShapeBuild, ShapeBegin, ShapeStep DEF GwNext

-----------------------------------------------------------------------------
(* Lookups *)

\* The two halves of LookupAgrees.
HandledBy(request) ==
    \E k \in DOMAIN routes :
        /\ routes[k].name = request.name
        /\ \A l \in 1..(k - 1) : routes[l].name # request.name
        /\ \E s \in routes[k].specs :
            /\ SameMethod(s.method, request.method)
            /\ PathOf(s.path, request.path)
RouteAgrees == During("replied") /\ gwScene.op = "http" =>
    (call.decision.why = "handled") = HandledBy(call.request)

Bound(t, k) == {j \in DOMAIN history : history[j].table = t /\ history[j].key = k}
TableAgrees == \A t \in Supported \cup Named, k \in GwKeys :
    \/ Bound(t, k) = {} /\ bound[t][k] = NoPlugin
    \/ \E j \in Bound(t, k) :
        /\ bound[t][k] = history[j].plugin
        /\ \A l \in Bound(t, k) : IF t \in Named THEN j <= l ELSE l <= j

\* LookupAgrees is about the routes and about the tables.
LEMMA LookupHalves == LookupAgrees <=> RouteAgrees /\ TableAgrees
  BY DEF LookupAgrees, RouteAgrees, TableAgrees, HandledBy, Bound

\* spec_matches compares what PathOf says of the characters of both paths.
LEMMA MatchAgrees ==
    ASSUME GwTypeOK, NEW k \in DOMAIN routes, NEW s \in routes[k].specs,
           NEW request \in gwScene.requests
    PROVE  SpecMatches(s, request.method, request.path) <=>
                SameMethod(s.method, request.method) /\ PathOf(s.path, request.path)
  <1>1. routes[k] \in [name : GwKeys, specs : gwScene.offers] /\ gwScene \in GwScenes
    <2> DEFINE R == [name : GwKeys, specs : gwScene.offers]
    <2>1. routes \in Seq(R) /\ gwScene \in GwScenes
      BY DEF GwTypeOK
    <2> HIDE DEF R
    <2>2. routes[k] \in R
      BY <2>1
    <2> QED
      BY <2>1, <2>2 DEF R
  <1>2. s.path \in Paths /\ request.path \in Paths
    BY <1>1, GatewayAssumption
  <1> QED
    BY <1>2, PathAgrees DEF SpecMatches

\* The answer to a request is the one its reference gives.
LEMMA RouteStep ==
    ASSUME GwTypeOK, Coherent, CallHttpRoute
    PROVE  RouteAgrees'
  <1> DEFINE q == call.request
             k == RouteOf(q.name)
  <1>1. /\ UNCHANGED gwConfig /\ call'.request = q
        /\ (call'.decision.why = "handled") =
                (k # 0 /\ \E s \in routes[k].specs : SpecMatches(s, q.method, q.path))
        /\ call.phase = "http"
    BY CallHttpRouteStep DEF Kept
  <1>2. q \in gwScene.requests
    BY <1>1 DEF Coherent
  <1>3. \/ k = 0 /\ \A l \in DOMAIN routes : routes[l].name # q.name
        \/ /\ k \in DOMAIN routes /\ k \in Nat \ {0} /\ routes[k].name = q.name
           /\ \A l \in 1..(k - 1) : routes[l].name # q.name
    BY RouteFirst
  <1> HIDE DEF k, q
  <1>4. (k # 0 /\ \E s \in routes[k].specs : SpecMatches(s, q.method, q.path)) <=> HandledBy(q)
    <2>1. CASE k = 0
      BY <1>3, <2>1 DEF HandledBy
    <2>2. CASE k # 0
      <3>1. /\ k \in DOMAIN routes /\ k \in Nat \ {0} /\ routes[k].name = q.name
            /\ \A l \in 1..(k - 1) : routes[l].name # q.name
        BY <1>3, <2>2
      <3>2. \A s \in routes[k].specs : SpecMatches(s, q.method, q.path) <=>
                SameMethod(s.method, q.method) /\ PathOf(s.path, q.path)
        BY <1>2, <3>1, MatchAgrees
      <3>3. ASSUME NEW l \in DOMAIN routes, routes[l].name = q.name,
                   \A h \in 1..(l - 1) : routes[h].name # q.name
            PROVE  l = k
        <4>1. l \in Nat \ {0} /\ k \in Nat \ {0}
          BY <3>1 DEF GwTypeOK
        <4>2. ~(l < k) /\ ~(k < l)
          BY <3>1, <3>3, <4>1
        <4> QED
          BY <4>1, <4>2
      <3> QED
        BY <2>2, <3>1, <3>2, <3>3, Zenon DEF HandledBy
    <2> QED
      BY <2>1, <2>2
  <1>5. HandledBy(call.request)' <=> HandledBy(q)
    BY <1>1 DEF HandledBy, gwConfig
  <1>6. (call'.decision.why = "handled") = HandledBy(call.request)'
    BY <1>1, <1>4, <1>5, Zenon DEF HandledBy
  <1> QED
    BY <1>6 DEF RouteAgrees

\* A binding leaves every table at its last binding, or at its first.
LEMMA BindStep ==
    ASSUME GwTypeOK, TableAgrees, NEW p \in GwPlugins, NEW t \in Supported \cup Named,
           NEW k \in GwKeys, NEW valid \in BOOLEAN, Bind(t, k, p, valid)
    PROVE  TableAgrees'
  <1>1. CASE ~Accepts(t, k, valid)
    BY <1>1 DEF Bind, TableAgrees, Bound
  <1>2. CASE Accepts(t, k, valid)
    <2> DEFINE n == Len(history) + 1
               entry == [table |-> t, key |-> k, plugin |-> p]
    <2>1. /\ bound' = [bound EXCEPT ![t][k] = p]
          /\ history' = Append(history, entry)
      BY <1>2 DEF Bind
    <2>2. /\ DOMAIN history = 1..Len(history) /\ Len(history) \in Nat
          /\ DOMAIN history' = 1..n /\ n \in Nat
          /\ \A j \in DOMAIN history : history'[j] = history[j]
          /\ history'[n] = entry
      BY <2>1 DEF GwTypeOK
    <2>3. \A j \in DOMAIN history : history[j].plugin \in GwPlugins
      <3>1. history \in Seq(Bindings)
        BY DEF GwTypeOK
      <3>2. \A j \in DOMAIN history : history[j] \in Bindings
        BY <3>1
      <3> QED
        BY <3>2 DEF Bindings
    <2> SUFFICES ASSUME NEW t1 \in Supported \cup Named, NEW k1 \in GwKeys
                 PROVE  \/ Bound(t1, k1)' = {} /\ bound'[t1][k1] = NoPlugin
                        \/ \E j \in Bound(t1, k1)' :
                            /\ bound'[t1][k1] = history'[j].plugin
                            /\ \A l \in Bound(t1, k1)' : IF t1 \in Named THEN j <= l ELSE l <= j
      BY Zenon DEF TableAgrees
    <2>4. CASE t1 = t /\ k1 = k
      <3>1. n \in Bound(t1, k1)' /\ \A l \in Bound(t1, k1)' : l \in 1..n
        BY <2>2, <2>4 DEF Bound
      <3>2. bound'[t1][k1] = history'[n].plugin
        BY <2>1, <2>2, <2>4 DEF GwTypeOK
      <3>3. CASE t \in Named
        <4>1. bound[t][k] = NoPlugin
          BY <1>2, <3>3 DEF Accepts, Named, Supported
        <4>2. Bound(t, k) = {}
          <5> SUFFICES ASSUME NEW j \in Bound(t, k), bound[t][k] = history[j].plugin PROVE FALSE
            BY DEF TableAgrees
          <5> QED
            BY <2>3, <4>1, GatewayAssumption DEF Bound
        <4>3. ASSUME NEW l \in Bound(t1, k1)' PROVE n <= l
          <5>1. l = n \/ l \in Bound(t, k)
            BY <2>2, <2>4 DEF Bound
          <5> QED
            BY <2>2, <4>2, <5>1
        <4> QED
          BY <2>4, <3>1, <3>2, <3>3, <4>3
      <3>4. CASE t \notin Named
        <4>1. \A l \in Bound(t1, k1)' : l <= n
          BY <2>2, <3>1
        <4> QED
          BY <2>4, <3>1, <3>2, <3>4, <4>1
      <3> QED
        BY <3>3, <3>4
    <2>5. CASE ~(t1 = t /\ k1 = k)
      <3>1. bound'[t1][k1] = bound[t1][k1]
        BY <2>1, <2>5 DEF GwTypeOK
      <3>2. Bound(t1, k1)' = Bound(t1, k1)
        <4>1. n \notin Bound(t1, k1)'
          BY <2>2, <2>5 DEF Bound
        <4>2. \A j : j \in Bound(t1, k1)' <=> j \in Bound(t1, k1)
          <5>1. \A j \in 1..n : j = n \/ j \in 1..Len(history)
            BY <2>2
          <5>2. \A j \in 1..Len(history) : j \in 1..n
            BY <2>2
          <5> QED
            BY <2>2, <4>1, <5>1, <5>2 DEF Bound
        <4> QED
          BY <4>2
      <3>3. \A j \in Bound(t1, k1) : history'[j] = history[j]
        BY <2>2 DEF Bound
      <3> HIDE DEF n, entry
      <3>4. \/ Bound(t1, k1) = {} /\ bound[t1][k1] = NoPlugin
            \/ \E j \in Bound(t1, k1) :
                /\ bound[t1][k1] = history[j].plugin
                /\ \A l \in Bound(t1, k1) : IF t1 \in Named THEN j <= l ELSE l <= j
        BY Zenon DEF TableAgrees
      <3> QED
        BY <3>1, <3>2, <3>3, <3>4
    <2> QED
      BY <2>4, <2>5
  <1> QED
    BY <1>1, <1>2

\* A step that ends no HTTP request and binds nothing leaves what lookups find.
LEMMA LookupKept ==
    ASSUME RouteAgrees, TableAgrees, UNCHANGED <<bound, history>>,
           \/ call'.phase # "replied" \/ gwScene'.op # "http"
           \/ UNCHANGED <<gwScene, routes, call>>
    PROVE  RouteAgrees' /\ TableAgrees'
  <1>1. TableAgrees'
    BY DEF TableAgrees, Bound
  <1>2. CASE UNCHANGED <<gwScene, routes, call>>
    BY <1>1, <1>2 DEF RouteAgrees, During, HandledBy
  <1>3. CASE call'.phase # "replied" \/ gwScene'.op # "http"
    BY <1>1, <1>3 DEF RouteAgrees, During
  <1> QED
    BY <1>1, <1>2, <1>3

\* Every step keeps both halves.
LEMMA LookupStep ==
    GwTypeOK /\ Coherent /\ LookupAgrees /\ [GwNext]_gwVars => LookupAgrees'
  <1> SUFFICES ASSUME GwTypeOK, Coherent, RouteAgrees, TableAgrees, [GwNext]_gwVars
               PROVE  RouteAgrees' /\ TableAgrees'
    <2>1. LookupAgrees' <=> RouteAgrees' /\ TableAgrees'
      BY DEF LookupAgrees, RouteAgrees, TableAgrees, HandledBy, Bound
    <2> QED
      BY <2>1, LookupHalves
  <1>1. CASE UNCHANGED gwVars
    BY <1>1, LookupKept DEF gwVars
  <1>2. CASE GwBuild
    <2>1. call = NoCall /\ NoCall.phase = "none"
      BY <1>2 DEF GwBuild, WithToolGate, WithTransform, WithIdentity, WithSink, Bind,
                  WithHttpRoute, Building, NoCall
    <2>2. ASSUME UNCHANGED <<bound, history, call>> PROVE RouteAgrees' /\ TableAgrees'
      BY <2>1, <2>2, LookupKept
    <2>3. ASSUME NEW p \in GwPlugins, NEW t \in Supported \cup Named, NEW k \in GwKeys,
                 NEW valid \in BOOLEAN, Bind(t, k, p, valid)
          PROVE  RouteAgrees' /\ TableAgrees'
      <3>1. TableAgrees'
        BY <2>3, BindStep
      <3>2. call'.phase # "replied"
        BY <2>1, <2>3 DEF Bind, NoCall
      <3> QED
        BY <3>1, <3>2 DEF RouteAgrees, During
    <2> QED
      BY <1>2, <2>2, <2>3
        DEF GwBuild, WithToolGate, WithTransform, WithIdentity, WithSink, WithHttpRoute
  <1>3. CASE GwBegin
    <2>1. UNCHANGED <<bound, history>> /\ call'.phase # "replied"
      BY <1>3 DEF GwBegin, Begin, gwConfig, NoCall
    <2> QED
      BY <2>1, LookupKept
  <1>4. CASE GwStep
    <2>1. CASE CallHttpRoute
      <3>1. UNCHANGED <<bound, history>>
        BY <2>1 DEF CallHttpRoute, gwConfig
      <3>2. TableAgrees'
        BY <3>1 DEF TableAgrees, Bound
      <3> QED
        BY <2>1, <3>2, RouteStep
    <2>2. CASE ~CallHttpRoute
      <3>1. UNCHANGED gwConfig
        BY <1>4, <2>2, StepKinds DEF Kept
      <3>2. call.phase \in Open
        <4>1. /\ DOMAIN After \subseteq Open
              /\ {"PostDispatchGate", "identity", "emit"} \subseteq Open
          BY DEF After, Open, ToolPhases
        <4> QED
          BY <1>4, <2>2, <4>1, StepKinds DEF Visited, Moved, Finished, During
      <3>3. gwScene.op # "http"
        BY <3>2 DEF Coherent, Open, ToolPhases
      <3> QED
        BY <3>1, <3>3, LookupKept DEF gwConfig
    <2> QED
      BY <2>1, <2>2
  <1> QED
    BY <1>1, <1>2, <1>3, <1>4 DEF GwNext

\* GwTypeOK: every step of a gateway keeps its state well formed: the tables
\* total, the lists of plugins, the record of the call.
THEOREM GatewayTyped == GwSpec => []GwTypeOK
  <1>1. GwInit => GwTypeOK /\ Coherent
    BY ShapeInit
  <1>2. GwTypeOK /\ Coherent /\ [GwNext]_gwVars => GwTypeOK' /\ Coherent'
    BY Shape
  <1> QED
    BY <1>1, <1>2, PTL DEF GwSpec

\* LookupAgrees, of every gateway: whatever paths specs and requests have, call_http_route
\* runs the handler of the first route of the name exactly when one of its specs matches, and a
\* lookup in a table finds the binding the builder left there.
THEOREM LookupAgreement == GwSpec => []LookupAgrees
  <1>1. GwInit => GwTypeOK /\ Coherent /\ LookupAgrees
    <2> SUFFICES ASSUME GwInit PROVE RouteAgrees /\ TableAgrees
      BY ShapeInit, LookupHalves
    <2>1. call.phase = "none"
      BY DEF GwInit, GwNew, NoCall
    <2>2. history = <<>> /\ bound = [t \in Supported \cup Named |-> [k \in GwKeys |-> NoPlugin]]
      BY DEF GwInit, GwNew
    <2>3. \A t, k : Bound(t, k) = {}
      BY <2>2 DEF Bound
    <2> QED
      BY <2>1, <2>2, <2>3 DEF RouteAgrees, TableAgrees, During
  <1>2. GwTypeOK /\ Coherent /\ [GwNext]_gwVars => GwTypeOK' /\ Coherent'
    BY Shape
  <1>3. GwTypeOK /\ Coherent /\ LookupAgrees /\ [GwNext]_gwVars => LookupAgrees'
    BY LookupStep
  <1> QED
    BY <1>1, <1>2, <1>3, PTL DEF GwSpec

-----------------------------------------------------------------------------
(* The chain of plugins *)

\* How many visits come before those of a phase.
Offset(phase) ==
    CASE phase = "PreDispatchTransform" -> Len(gates)
      [] phase = "PostDispatchTransform" -> Len(gates) + Len(transforms)
      [] phase = "PostDispatchGate" -> Len(gates) + Len(transforms) + Len(transforms)
      [] OTHER -> 0

\* What ChainDecides says of the k-th visit, other than when it stops the call.
VisitOK(k) ==
    LET v == call.seen[k]
    IN  /\ [phase |-> v.phase, who |-> v.who] = Chain[k]
        /\ Lists(v.args, call.seen, "PreDispatchTransform", k)
        /\ v.phase \in {"PostDispatchTransform", "PostDispatchGate"} =>
            /\ v.result.echo = v.args
            /\ Lists(v.result.by, call.seen, "PostDispatchTransform", k)

\* Of a call that is under way: how far it is, that nobody has stopped it, and
\* what its arguments and its result are made of.
Walk ==
    LET n == Len(call.seen)
    IN  call.phase \in Open =>
        /\ n = Offset(call.phase) + call.next - 1
        /\ \A k \in 1..n : VisitOK(k) /\ call.seen[k].answer \notin Stops
        /\ Lists(call.args, call.seen, "PreDispatchTransform", n + 1)
        /\ call.phase \in {"PreDispatchGate", "PreDispatchTransform"} =>
            \A k \in 1..n : call.seen[k].phase # "PostDispatchTransform"
        /\ call.phase \in {"PostDispatchTransform", "PostDispatchGate"} =>
            /\ call.result.echo = call.args
            /\ Lists(call.result.by, call.seen, "PostDispatchTransform", n + 1)

\* The elements of two sequences in one.
LEMMA Joined ==
    ASSUME NEW S, NEW s \in Seq(S), NEW t \in Seq(S)
    PROVE  /\ s \o t \in Seq(S) /\ Len(s \o t) = Len(s) + Len(t)
           /\ \A g \in 1..Len(s) : (s \o t)[g] = s[g]
           /\ \A g \in 1..Len(t) : (s \o t)[Len(s) + g] = t[g]
  OBVIOUS

\* The visits that a loop over plugins has to make.
LEMMA VisitList ==
    ASSUME NEW phase, NEW plugins \in Seq(GwPlugins)
    PROVE  LET list == Visit(phase, plugins)
           IN  /\ list \in Seq([phase : {phase}, who : GwPlugins]) /\ Len(list) = Len(plugins)
               /\ \A g \in 1..Len(plugins) : list[g] = [phase |-> phase, who |-> plugins[g]]
  <1> DEFINE V == [phase : {phase}, who : GwPlugins]
             list == Visit(phase, plugins)
  <1>1. DOMAIN plugins = 1..Len(plugins) /\ Len(plugins) \in Nat
    OBVIOUS
  <1>2. list = [k \in 1..Len(plugins) |-> [phase |-> phase, who |-> plugins[k]]]
    BY <1>1 DEF Visit
  <1>3. \A k \in 1..Len(plugins) : [phase |-> phase, who |-> plugins[k]] \in V
    BY <1>1
  <1> HIDE DEF V, list
  <1>4. list \in [1..Len(plugins) -> V]
    BY <1>2, <1>3
  <1>5. list \in Seq(V) /\ Len(list) = Len(plugins)
    BY <1>1, <1>4
  <1> QED
    BY <1>2, <1>5 DEF V, list

\* Where the visits of the phase under way are in the chain.
LEMMA ChainAt ==
    ASSUME GwTypeOK, Coherent, call.phase \in Open
    PROVE  LET phase == call.phase
               m == Len(Asked(phase))
               o == Offset(phase)
           IN  /\ m \in Nat /\ o \in Nat /\ Len(Chain) \in Nat
               /\ \A g \in 1..m : /\ o + g <= Len(Chain)
                                  /\ Chain[o + g] = [phase |-> phase, who |-> Asked(phase)[g]]
               /\ phase \in {"PostDispatchGate", "identity", "emit"} => Len(Chain) = o + m
               /\ phase \in DOMAIN After => Offset(After[phase]) = o + m
  <1> DEFINE S == [phase : Open, who : GwPlugins]
  <1>1. ASSUME NEW phase \in Open, NEW plugins \in Seq(GwPlugins)
        PROVE  /\ Visit(phase, plugins) \in Seq(S)
               /\ Len(Visit(phase, plugins)) = Len(plugins)
               /\ \A g \in 1..Len(plugins) :
                    Visit(phase, plugins)[g] = [phase |-> phase, who |-> plugins[g]]
    <2> DEFINE V == [phase : {phase}, who : GwPlugins]
               list == Visit(phase, plugins)
    <2>1. /\ list \in Seq(V) /\ Len(list) = Len(plugins)
          /\ \A g \in 1..Len(plugins) : list[g] = [phase |-> phase, who |-> plugins[g]]
      BY VisitList
    <2>2. \A v \in V : v \in S
      OBVIOUS
    <2> HIDE DEF V, S, list
    <2>3. list \in Seq(S)
      BY <2>1, <2>2
    <2> QED
      BY <2>1, <2>3 DEF list
  <1> HIDE DEF S
  <1>2. /\ gates \in Seq(GwPlugins) /\ transforms \in Seq(GwPlugins)
        /\ identities \in Seq(GwPlugins) /\ sinks[call.sink] \in Seq(GwPlugins)
    BY DEF GwTypeOK, Calls
  <1>3. Len(gates) \in Nat /\ Len(transforms) \in Nat
    BY <1>2
  <1>4. CASE call.phase \in ToolPhases
    <2> DEFINE a == Visit("PreDispatchGate", gates)
               b == Visit("PreDispatchTransform", transforms)
               c == Visit("PostDispatchTransform", transforms)
               d == Visit("PostDispatchGate", gates)
               G == Len(gates)
               T == Len(transforms)
    <2>1. Chain = ((a \o b) \o c) \o d
      BY <1>4 DEF Coherent, Chain
    <2>2. /\ a \in Seq(S) /\ b \in Seq(S) /\ c \in Seq(S) /\ d \in Seq(S)
          /\ Len(a) = G /\ Len(b) = T /\ Len(c) = T /\ Len(d) = G
          /\ \A g \in 1..G : a[g] = [phase |-> "PreDispatchGate", who |-> gates[g]]
          /\ \A g \in 1..T : b[g] = [phase |-> "PreDispatchTransform", who |-> transforms[g]]
          /\ \A g \in 1..T : c[g] = [phase |-> "PostDispatchTransform", who |-> transforms[g]]
          /\ \A g \in 1..G : d[g] = [phase |-> "PostDispatchGate", who |-> gates[g]]
      BY <1>1, <1>2 DEF Open, ToolPhases
    <2> HIDE DEF a, b, c, d, G, T
    <2>3. /\ a \o b \in Seq(S) /\ Len(a \o b) = G + T
          /\ \A g \in 1..G : (a \o b)[g] = a[g]
          /\ \A g \in 1..T : (a \o b)[G + g] = b[g]
      BY <2>2, Joined
    <2> DEFINE ab == a \o b
    <2> HIDE DEF ab
    <2>4. /\ ab \o c \in Seq(S) /\ Len(ab \o c) = G + T + T
          /\ \A g \in 1..(G + T) : (ab \o c)[g] = ab[g]
          /\ \A g \in 1..T : (ab \o c)[G + T + g] = c[g]
      <3>0. c \in Seq(S)
        BY <2>2
      <3>1. ab \in Seq(S) /\ Len(ab) = G + T
        BY <2>3 DEF ab
      <3>2. /\ ab \o c \in Seq(S) /\ Len(ab \o c) = Len(ab) + Len(c)
            /\ \A g \in 1..Len(ab) : (ab \o c)[g] = ab[g]
            /\ \A g \in 1..Len(c) : (ab \o c)[Len(ab) + g] = c[g]
        BY <3>0, <3>1
      <3> QED
        BY <2>2, <3>1, <3>2
    <2> DEFINE abc == ab \o c
    <2> HIDE DEF abc
    <2>5. /\ abc \o d \in Seq(S) /\ Len(abc \o d) = G + T + T + G
          /\ \A g \in 1..(G + T + T) : (abc \o d)[g] = abc[g]
          /\ \A g \in 1..G : (abc \o d)[G + T + T + g] = d[g]
      <3>0. d \in Seq(S)
        BY <2>2
      <3>1. abc \in Seq(S) /\ Len(abc) = G + T + T
        BY <2>4 DEF abc
      <3>2. /\ abc \o d \in Seq(S) /\ Len(abc \o d) = Len(abc) + Len(d)
            /\ \A g \in 1..Len(abc) : (abc \o d)[g] = abc[g]
            /\ \A g \in 1..Len(d) : (abc \o d)[Len(abc) + g] = d[g]
        BY <3>0, <3>1
      <3> QED
        BY <2>2, <3>1, <3>2
    <2>6. Chain = abc \o d
      BY <2>1 DEF abc, ab
    <2>7. G \in Nat /\ T \in Nat /\ Len(Chain) = G + T + T + G
      BY <1>3, <2>5, <2>6 DEF G, T
    <2>8. \A g \in 1..G : Chain[g] = [phase |-> "PreDispatchGate", who |-> gates[g]]
      <3> SUFFICES ASSUME NEW g \in 1..G PROVE Chain[g] = a[g]
        BY <2>2
      <3>1. g \in 1..(G + T) /\ g \in 1..(G + T + T)
        BY <2>7
      <3> QED
        BY <2>3, <2>4, <2>5, <2>6, <3>1 DEF ab, abc
    <2>9. \A g \in 1..T : Chain[G + g] = [phase |-> "PreDispatchTransform", who |-> transforms[g]]
      <3> SUFFICES ASSUME NEW g \in 1..T PROVE Chain[G + g] = b[g]
        BY <2>2
      <3>1. G + g \in 1..(G + T) /\ G + g \in 1..(G + T + T)
        BY <2>7
      <3> QED
        BY <2>3, <2>4, <2>5, <2>6, <3>1 DEF ab, abc
    <2>10. \A g \in 1..T :
                Chain[G + T + g] = [phase |-> "PostDispatchTransform", who |-> transforms[g]]
      <3> SUFFICES ASSUME NEW g \in 1..T PROVE Chain[G + T + g] = c[g]
        BY <2>2
      <3>1. G + T + g \in 1..(G + T + T)
        BY <2>7
      <3> QED
        BY <2>4, <2>5, <2>6, <3>1 DEF abc
    <2>11. \A g \in 1..G :
                Chain[G + T + T + g] = [phase |-> "PostDispatchGate", who |-> gates[g]]
      BY <2>2, <2>5, <2>6
    <2>12. CASE call.phase = "PreDispatchGate"
      <3>1. /\ Asked(call.phase) = gates /\ Offset(call.phase) = 0
            /\ Offset("PreDispatchTransform") = G /\ After[call.phase] = "PreDispatchTransform"
        BY <2>12 DEF Asked, Offset, After, G
      <3>2. \A g \in 1..G : 0 + g <= Len(Chain) /\ 0 + g = g
        BY <2>7
      <3> QED
        BY <2>7, <2>8, <2>12, <3>1, <3>2 DEF G
    <2>13. CASE call.phase = "PreDispatchTransform"
      <3>1. /\ Asked(call.phase) = transforms /\ Offset(call.phase) = G
            /\ Offset("PostDispatchTransform") = G + T /\ After[call.phase] = "PostDispatchTransform"
        BY <2>13 DEF Asked, Offset, After, G, T
      <3>2. \A g \in 1..T : G + g <= Len(Chain)
        BY <2>7
      <3> QED
        BY <2>7, <2>9, <2>13, <3>1, <3>2 DEF T
    <2>14. CASE call.phase = "PostDispatchTransform"
      <3>1. /\ Asked(call.phase) = transforms /\ Offset(call.phase) = G + T
            /\ Offset("PostDispatchGate") = G + T + T /\ After[call.phase] = "PostDispatchGate"
        BY <2>14 DEF Asked, Offset, After, G, T
      <3>2. \A g \in 1..T : G + T + g <= Len(Chain)
        BY <2>7
      <3> QED
        BY <2>7, <2>10, <2>14, <3>1, <3>2 DEF T
    <2>15. CASE call.phase = "PostDispatchGate"
      <3>1. /\ Asked(call.phase) = gates /\ Offset(call.phase) = G + T + T
            /\ call.phase \notin DOMAIN After
        BY <2>15 DEF Asked, Offset, After, G, T
      <3>2. \A g \in 1..G : G + T + T + g <= Len(Chain)
        BY <2>7
      <3> QED
        BY <2>7, <2>11, <2>15, <3>1, <3>2 DEF G
    <2> QED
      BY <1>4, <2>12, <2>13, <2>14, <2>15 DEF ToolPhases
  <1>5. CASE call.phase \in {"identity", "emit"}
    <2> DEFINE list == Asked(call.phase)
    <2>1. Chain = Visit(call.phase, list) /\ Offset(call.phase) = 0 /\ list \in Seq(GwPlugins)
          /\ call.phase \notin DOMAIN After
      BY <1>2, <1>5 DEF Coherent, Chain, Asked, Offset, After
    <2> HIDE DEF list
    <2>2. /\ Len(Chain) = Len(list) /\ Len(list) \in Nat
          /\ \A g \in 1..Len(list) : Chain[g] = [phase |-> call.phase, who |-> list[g]]
      BY <1>1, <2>1
    <2>3. \A g \in 1..Len(list) : 0 + g <= Len(list) /\ 0 + g = g
      BY <2>2
    <2> QED
      BY <2>1, <2>2, <2>3 DEF list
  <1> QED
    BY <1>4, <1>5 DEF Open

\* Lists looks at the visits before the k-th alone.
LEMMA ListsSame ==
    ASSUME NEW seen \in Seq(Visits), NEW v \in Visits, NEW k \in 1..(Len(seen) + 1),
           NEW names, NEW phase
    PROVE  Lists(names, Append(seen, v), phase, k) <=> Lists(names, seen, phase, k)
  <1> DEFINE more == Append(seen, v)
  <1>1. \A j \in 1..(k - 1) : more[j] = seen[j]
    OBVIOUS
  <1>2. Modified(more, phase, k) = Modified(seen, phase, k)
    BY <1>1 DEF Modified
  <1>3. \A j \in Modified(seen, phase, k) : more[j] = seen[j]
    BY <1>1 DEF Modified
  <1> HIDE DEF more
  <1> QED
    BY <1>2, <1>3 DEF Lists, more

\* One more visit: its plugin is listed if it modified in the phase.
LEMMA ListsMore ==
    ASSUME NEW seen \in Seq(Visits), NEW v \in Visits, NEW names \in Seq(GwPlugins),
           NEW phase, Lists(names, seen, phase, Len(seen) + 1)
    PROVE  Lists(IF v.phase = phase /\ v.answer = "Modified" THEN Append(names, v.who) ELSE names,
                 Append(seen, v), phase, Len(seen) + 2)
  <1> DEFINE n == Len(seen)
             more == Append(seen, v)
             M == Modified(seen, phase, n + 1)
             N == Modified(more, phase, n + 2)
  <1>1. /\ n \in Nat /\ more[n + 1] = v /\ \A j \in 1..n : more[j] = seen[j]
        /\ (n + 1) - 1 = n /\ (n + 2) - 1 = n + 1
    OBVIOUS
  <1>2. M \subseteq 1..n /\ IsFiniteSet(M) /\ Cardinality(M) \in Nat
    <2>1. M \subseteq 1..n
      BY <1>1 DEF Modified
    <2>2. IsFiniteSet(1..n)
      BY <1>1, FS_Interval
    <2>3. IsFiniteSet(M)
      BY <2>1, <2>2, FS_Subset
    <2> QED
      BY <2>1, <2>3, FS_CardinalityType
  <1>3. /\ Len(names) = Cardinality(M)
        /\ \A j \in M : names[Cardinality({l \in M : l <= j})] = seen[j].who
    BY DEF Lists
  <1>4. \A j : j \in N <=> j \in 1..(n + 1) /\ more[j].phase = phase /\ more[j].answer = "Modified"
    BY <1>1 DEF Modified
  <1>5. \A j : j \in M <=> j \in 1..n /\ seen[j].phase = phase /\ seen[j].answer = "Modified"
    BY <1>1 DEF Modified
  <1>6. \A j \in 1..(n + 1) : j = n + 1 \/ j \in 1..n
    BY <1>1
  <1>7. \A j \in 1..n : j \in 1..(n + 1) /\ j # n + 1 /\ ~(n + 1 <= j) /\ j <= n + 1
    BY <1>1
  <1> HIDE DEF n, more, M, N
  <1>8. CASE v.phase = phase /\ v.answer = "Modified"
    <2>1. N = M \cup {n + 1}
      <3>1. n + 1 \in 1..(n + 1)
        BY <1>1
      <3> QED
        BY <1>1, <1>4, <1>5, <1>6, <1>7, <1>8, <3>1
    <2>2. n + 1 \notin M
      BY <1>2, <1>7
    <2>3. Cardinality(N) = Cardinality(M) + 1
      BY <1>2, <2>1, <2>2, FS_AddElement
    <2> DEFINE longer == Append(names, v.who)
    <2>4. /\ Len(longer) = Cardinality(N) /\ longer[Cardinality(N)] = v.who
          /\ \A g \in 1..Cardinality(M) : longer[g] = names[g]
      BY <1>2, <1>3, <2>3
    <2>5. ASSUME NEW j \in N PROVE longer[Cardinality({l \in N : l <= j})] = more[j].who
      <3>1. CASE j = n + 1
        <4>1. {l \in N : l <= j} = N
          <5>1. \A l \in N : l <= j
            BY <1>1, <1>2, <1>7, <2>1, <3>1
          <5> QED
            BY <5>1
        <4> QED
          BY <1>1, <2>4, <3>1, <4>1
      <3>2. CASE j # n + 1
        <4> DEFINE L == {l \in M : l <= j}
        <4>1. j \in M /\ j \in 1..n
          BY <1>2, <2>1, <3>2
        <4>2. {l \in N : l <= j} = L
          BY <1>7, <2>1, <4>1
        <4>3. j \in L /\ L \subseteq M
          BY <1>1, <4>1
        <4> HIDE DEF L
        <4>4. IsFiniteSet(L) /\ Cardinality(L) \in Nat /\ Cardinality(L) <= Cardinality(M)
          BY <1>2, <4>3, FS_Subset, FS_CardinalityType
        <4>5. Cardinality(L) # 0
          BY <4>3, <4>4, FS_EmptySet
        <4>6. Cardinality(L) \in 1..Cardinality(M)
          BY <1>2, <4>4, <4>5
        <4>7. names[Cardinality(L)] = seen[j].who
          BY <1>3, <4>1 DEF L
        <4> HIDE DEF longer
        <4> QED
          BY <1>1, <2>4, <4>1, <4>2, <4>6, <4>7
      <3> QED
        BY <3>1, <3>2
    <2> HIDE DEF longer
    <2> QED
      BY <1>8, <2>4, <2>5 DEF Lists, N, more, n, longer
  <1>9. CASE ~(v.phase = phase /\ v.answer = "Modified")
    <2>1. N = M
      BY <1>1, <1>4, <1>5, <1>6, <1>7, <1>9
    <2>2. \A j \in M : more[j] = seen[j]
      BY <1>1, <1>2
    <2>3. Lists(names, more, phase, n + 2)
      BY <1>3, <2>1, <2>2 DEF Lists, N, M
    <2> QED
      BY <1>9, <2>3 DEF n, more
  <1> QED
    BY <1>8, <1>9

\* Nothing was modified in a phase that nobody was visited in.
LEMMA ListsNone ==
    ASSUME NEW seen, NEW phase, NEW k, Modified(seen, phase, k) = {}
    PROVE  Lists(<<>>, seen, phase, k)
  <1>1. Cardinality({}) = 0 /\ Len(<<>>) = 0
    BY FS_EmptySet
  <1> QED
    BY <1>1 DEF Lists

\* The chain does not change during a call.
LEMMA ChainKept ==
    ASSUME UNCHANGED gwConfig, call'.sink = call.sink
    PROVE  Chain' = Chain /\ (\A phase : Asked(phase)' = Asked(phase) /\ Offset(phase)' = Offset(phase))
  <1>1. UNCHANGED <<gwScene, gates, transforms, identities, sinks>>
    BY DEF gwConfig
  <1> QED
    BY <1>1 DEF Chain, Visit, Asked, Offset

\* The visits so far and one more.
LEMMA OneMoreVisit ==
    ASSUME GwTypeOK, Coherent, Walk, NEW phase \in Open, NEW a \in Answers, Visited(phase, a), Kept
    PROVE  LET n == Len(call.seen)
               v == [phase |-> phase, who |-> Asked(phase)[call.next], args |-> call.args,
                     result |-> call.result, answer |-> a]
           IN  /\ n \in Nat /\ v \in Visits /\ call'.seen = Append(call.seen, v)
               /\ n + 1 <= Len(Chain) /\ Chain' = Chain
               /\ n + 1 = Offset(phase) + call.next
               /\ \A k \in 1..(n + 1) : VisitOK(k)'
               /\ \A k \in 1..n : call'.seen[k] = call.seen[k] /\ call.seen[k].answer \notin Stops
               /\ call'.seen[n + 1] = v
  <1> DEFINE n == Len(call.seen)
             p == Asked(phase)[call.next]
             v == [phase |-> phase, who |-> p, args |-> call.args,
                   result |-> call.result, answer |-> a]
  <1>1. /\ call.phase = phase /\ call.next \in 1..Len(Asked(phase)) /\ p \in GwPlugins
        /\ call'.seen = Append(call.seen, v)
    BY DEF Visited, During, Saw
  <1>2. call \in Calls /\ call.seen \in Seq(Visits) /\ n \in Nat
    BY DEF GwTypeOK, Calls
  <1>3. v \in Visits
    BY <1>1, <1>2 DEF Calls, Visits
  <1>4. /\ n = Offset(phase) + call.next - 1
        /\ \A k \in 1..n : VisitOK(k) /\ call.seen[k].answer \notin Stops
        /\ Lists(call.args, call.seen, "PreDispatchTransform", n + 1)
        /\ phase \in {"PostDispatchTransform", "PostDispatchGate"} =>
            /\ call.result.echo = call.args
            /\ Lists(call.result.by, call.seen, "PostDispatchTransform", n + 1)
    BY <1>1 DEF Walk
  <1>5. Chain' = Chain
    BY ChainKept DEF Kept
  <1>6. /\ Offset(phase) \in Nat /\ Offset(phase) + call.next <= Len(Chain)
        /\ Chain[Offset(phase) + call.next] = [phase |-> phase, who |-> p]
    BY <1>1, ChainAt
  <1>7. n + 1 = Offset(phase) + call.next
    BY <1>1, <1>4, <1>6
  <1>8. v.phase = phase /\ v.who = p /\ v.args = call.args /\ v.result = call.result /\ v.answer = a
    OBVIOUS
  <1> HIDE DEF v, p
  <1>9. call'.seen[n + 1] = v /\ \A k \in 1..n : call'.seen[k] = call.seen[k]
    BY <1>1, <1>2, <1>3
  <1>10. \A names, ph : \A k \in 1..(n + 1) :
            Lists(names, call'.seen, ph, k) <=> Lists(names, call.seen, ph, k)
    BY <1>1, <1>2, <1>3, ListsSame
  <1> HIDE DEF n
  <1>11. ASSUME NEW k \in 1..n PROVE VisitOK(k)'
    <2>1. k \in 1..(n + 1) /\ VisitOK(k)
      BY <1>2, <1>4
    <2> QED
      BY <1>5, <1>9, <1>10, <2>1 DEF VisitOK
  <1>12. ASSUME NEW k, k = n + 1 PROVE VisitOK(k)'
    <2>1. n + 1 \in 1..(n + 1)
      BY <1>2
    <2>2. [phase |-> v.phase, who |-> v.who] = Chain'[k]
      BY <1>5, <1>6, <1>7, <1>8, <1>12
    <2>3. Lists(v.args, call'.seen, "PreDispatchTransform", k)
      BY <1>4, <1>8, <1>10, <1>12, <2>1
    <2>4. v.phase \in {"PostDispatchTransform", "PostDispatchGate"} =>
            v.result.echo = v.args /\ Lists(v.result.by, call'.seen, "PostDispatchTransform", k)
      BY <1>4, <1>8, <1>10, <1>12, <2>1
    <2>5. call'.seen[k] = v
      BY <1>9, <1>12
    <2> QED
      BY <2>2, <2>3, <2>4, <2>5 DEF VisitOK
  <1>13. \A k \in 1..(n + 1) : VisitOK(k)'
    <2>1. \A k \in 1..(n + 1) : k \in 1..n \/ k = n + 1
      BY <1>2
    <2> QED
      BY <1>11, <1>12, <2>1
  <1> QED
    BY <1>1, <1>2, <1>3, <1>4, <1>5, <1>6, <1>7, <1>9, <1>13 DEF n, v, p

\* A visit that lets the call pass is one more place of the walk.
LEMMA WalkVisited ==
    ASSUME GwTypeOK, Coherent, Walk, NEW phase \in Open, NEW a \in Answers, Visited(phase, a), Kept,
           a \notin Stops
    PROVE  Walk'
  <1> DEFINE n == Len(call.seen)
             p == Asked(phase)[call.next]
             v == [phase |-> phase, who |-> p, args |-> call.args,
                   result |-> call.result, answer |-> a]
             pre == "PreDispatchTransform"
             post == "PostDispatchTransform"
  <1>1. /\ n \in Nat /\ v \in Visits /\ call'.seen = Append(call.seen, v)
        /\ n + 1 = Offset(phase) + call.next
        /\ \A k \in 1..(n + 1) : VisitOK(k)'
        /\ \A k \in 1..n : call'.seen[k] = call.seen[k] /\ call.seen[k].answer \notin Stops
        /\ call'.seen[n + 1] = v
    BY OneMoreVisit
  <1>2. /\ call.phase = phase /\ call'.phase = phase /\ call'.next = call.next + 1
        /\ call'.args = IF phase = pre /\ a = "Modified" THEN Append(call.args, p) ELSE call.args
        /\ call'.result.echo = call.result.echo
        /\ call'.result.by = IF phase = post /\ a = "Modified" THEN Append(call.result.by, p)
                             ELSE call.result.by
        /\ p \in GwPlugins /\ call.next \in Nat
    BY DEF Visited, During, GwTypeOK, Calls
  <1>3. /\ call.seen \in Seq(Visits) /\ call.args \in Seq(GwPlugins)
        /\ call.result.by \in Seq(GwPlugins)
    BY DEF GwTypeOK, Calls, Results
  <1>4. /\ Lists(call.args, call.seen, pre, n + 1)
        /\ phase \in {"PreDispatchGate", pre} => \A k \in 1..n : call.seen[k].phase # post
        /\ phase \in {post, "PostDispatchGate"} =>
            call.result.echo = call.args /\ Lists(call.result.by, call.seen, post, n + 1)
    BY <1>2 DEF Walk
  <1>5. v.phase = phase /\ v.who = p /\ v.answer = a
    OBVIOUS
  <1> HIDE DEF v, p
  <1>6. Len(call'.seen) = n + 1 /\ (n + 1) + 1 = n + 2
    BY <1>1, <1>3
  <1>7. Lists(call'.args, call'.seen, pre, n + 2)
    <2>1. Lists(IF v.phase = pre /\ v.answer = "Modified" THEN Append(call.args, v.who)
                ELSE call.args, Append(call.seen, v), pre, Len(call.seen) + 2)
      BY <1>1, <1>3, <1>4, ListsMore
    <2> QED
      BY <1>1, <1>2, <1>5, <2>1
  <1>8. phase \in {post, "PostDispatchGate"} => Lists(call'.result.by, call'.seen, post, n + 2)
    <2> SUFFICES ASSUME phase \in {post, "PostDispatchGate"}
                 PROVE  Lists(call'.result.by, call'.seen, post, n + 2)
      OBVIOUS
    <2>1. Lists(IF v.phase = post /\ v.answer = "Modified" THEN Append(call.result.by, v.who)
                ELSE call.result.by, Append(call.seen, v), post, Len(call.seen) + 2)
      BY <1>1, <1>3, <1>4, ListsMore
    <2> QED
      BY <1>1, <1>2, <1>5, <2>1
  <1>9. phase \in {post, "PostDispatchGate"} => call'.result.echo = call'.args
    BY <1>2, <1>4
  <1>10. \A k \in 1..(n + 1) : k \in 1..n \/ k = n + 1
    BY <1>1
  <1>11. \A k \in 1..(n + 1) : call'.seen[k].answer \notin Stops
    BY <1>1, <1>5, <1>10
  <1>12. phase \in {"PreDispatchGate", pre} => \A k \in 1..(n + 1) : call'.seen[k].phase # post
    BY <1>1, <1>4, <1>5, <1>10
  <1>13. Offset(phase)' = Offset(phase)
    BY ChainKept DEF Kept
  <1>14. n + 1 = Offset(phase)' + call'.next - 1
    <2>1. Offset(phase) \in Nat
      BY <1>2, ChainAt
    <2> QED
      BY <1>1, <1>2, <1>13, <2>1
  <1>15. Offset(call.phase)' = Offset(phase)'
    BY <1>2 DEF Offset
  <1> HIDE DEF n
  <1> QED
    BY <1>1, <1>2, <1>6, <1>7, <1>8, <1>9, <1>11, <1>12, <1>14, <1>15 DEF Walk

\* One that does not ends the walk where it stands.
LEMMA StopVisited ==
    ASSUME GwTypeOK, Coherent, Walk, NEW phase \in Open, NEW a \in Answers, Visited(phase, a), Kept,
           a \in Stops
    PROVE  ChainDecides'
  <1> DEFINE n == Len(call.seen)
             v == [phase |-> phase, who |-> Asked(phase)[call.next], args |-> call.args,
                   result |-> call.result, answer |-> a]
  <1>1. /\ n \in Nat /\ v \in Visits /\ call'.seen = Append(call.seen, v)
        /\ n + 1 <= Len(Chain) /\ Chain' = Chain
        /\ \A k \in 1..(n + 1) : VisitOK(k)'
        /\ \A k \in 1..n : call'.seen[k] = call.seen[k] /\ call.seen[k].answer \notin Stops
        /\ call'.seen[n + 1] = v
    BY OneMoreVisit
  <1>2. /\ call'.decision = [phase |-> phase, why |-> a] /\ call.seen \in Seq(Visits)
    BY DEF Visited, GwTypeOK, Calls
  <1>3. v.phase = phase /\ v.answer = a
    OBVIOUS
  <1>4. phase # "Complete"
    BY DEF Open, ToolPhases
  <1> HIDE DEF v
  <1>5. Len(call'.seen) = n + 1 /\ n + 1 > 0
    BY <1>1, <1>2
  <1>6. \A k \in 1..(n + 1) : call'.seen[k].answer \in Stops => k = n + 1
    BY <1>1
  <1>7. call'.decision.why = a /\ call'.decision.phase = phase
    BY <1>2
  <1>8. call'.seen[n + 1].answer = a /\ call'.seen[n + 1].phase = phase
    BY <1>1, <1>3
  <1> HIDE DEF n
  <1> QED
    BY <1>1, <1>4, <1>5, <1>6, <1>7, <1>8 DEF ChainDecides, VisitOK, IsAllowed, IsDenied, IsChallenged

\* The end of a loop is the next one's beginning.
LEMMA WalkMoved ==
    ASSUME GwTypeOK, Coherent, Walk, NEW phase \in DOMAIN After, Moved(phase), Kept
    PROVE  Walk'
  <1> DEFINE n == Len(call.seen)
             pre == "PreDispatchTransform"
             post == "PostDispatchTransform"
  <1>1. /\ call.phase = phase /\ call.next = Len(Asked(phase)) + 1
        /\ call'.phase = After[phase] /\ call'.next = 1
        /\ call'.seen = call.seen /\ call'.args = call.args
        /\ call'.result = IF phase = pre THEN [echo |-> call.args, by |-> <<>>] ELSE call.result
    BY DEF Moved, During
  <1>2. phase \in Open /\ n \in Nat /\ call.seen \in Seq(Visits)
    BY DEF After, Open, ToolPhases, GwTypeOK, Calls
  <1>3. /\ n = Offset(phase) + call.next - 1
        /\ \A k \in 1..n : VisitOK(k) /\ call.seen[k].answer \notin Stops
        /\ Lists(call.args, call.seen, pre, n + 1)
        /\ phase \in {"PreDispatchGate", pre} => \A k \in 1..n : call.seen[k].phase # post
        /\ phase \in {post, "PostDispatchGate"} =>
            call.result.echo = call.args /\ Lists(call.result.by, call.seen, post, n + 1)
    BY <1>1, <1>2 DEF Walk
  <1>4. Chain' = Chain /\ Offset(After[phase])' = Offset(After[phase])
    BY ChainKept DEF Kept
  <1>5. /\ Len(Asked(phase)) \in Nat /\ Offset(phase) \in Nat
        /\ Offset(After[phase]) = Offset(phase) + Len(Asked(phase))
    BY <1>1, <1>2, ChainAt
  <1>6. Offset(call.phase)' = Offset(After[phase])
    BY <1>1, <1>4 DEF Offset
  <1>7. n = Offset(call.phase)' + call'.next - 1
    BY <1>1, <1>3, <1>5, <1>6
  <1>8. \A k \in 1..n : VisitOK(k)'
    BY <1>1, <1>3, <1>4 DEF VisitOK
  <1>9. phase = pre => call'.result.echo = call'.args /\ Lists(call'.result.by, call'.seen, post, n + 1)
    <2> SUFFICES ASSUME phase = pre
                 PROVE  call'.result.echo = call'.args /\ Lists(call'.result.by, call'.seen, post, n + 1)
      OBVIOUS
    <2>1. call'.result = [echo |-> call.args, by |-> <<>>] /\ call'.seen = call.seen
      BY <1>1
    <2>2. Modified(call.seen, post, n + 1) = {}
      <3>1. (n + 1) - 1 = n
        BY <1>2
      <3> QED
        BY <1>3, <3>1 DEF Modified
    <2>3. Lists(<<>>, call.seen, post, n + 1)
      BY <2>2, ListsNone
    <2>4. call'.result.by = <<>> /\ call'.result.echo = call.args
      BY <2>1
    <2> QED
      BY <1>1, <2>1, <2>3, <2>4
  <1>10. CASE phase = "PreDispatchGate"
    <2>1. call'.phase = pre
      BY <1>1, <1>10 DEF After
    <2> HIDE DEF n
    <2> QED
      BY <1>1, <1>3, <1>7, <1>8, <1>10, <2>1 DEF Walk, n
  <1>11. CASE phase = pre
    <2>1. call'.phase = post
      BY <1>1, <1>11 DEF After
    <2> QED
      BY <1>1, <1>3, <1>7, <1>8, <1>9, <1>11, <2>1 DEF Walk
  <1>12. CASE phase = post
    <2>1. call'.phase = "PostDispatchGate" /\ call'.result = call.result
      BY <1>1, <1>12 DEF After
    <2> QED
      BY <1>1, <1>3, <1>7, <1>8, <1>12, <2>1 DEF Walk
  <1> QED
    BY <1>10, <1>11, <1>12 DEF After

\* A walk that comes to its end has visited everybody.
LEMMA ChainFinished ==
    ASSUME GwTypeOK, Coherent, Walk, NEW phase \in {"PostDispatchGate", "identity", "emit"},
           Finished(phase), Kept
    PROVE  ChainDecides'
  <1> DEFINE n == Len(call.seen)
  <1>1. /\ call.phase = phase /\ call.next = Len(Asked(phase)) + 1
        /\ call'.phase = "replied" /\ call'.seen = call.seen
        /\ call'.decision.why \notin Stops
        /\ call'.decision.phase = IF phase = "PostDispatchGate" THEN "Complete" ELSE phase
    BY DEF Finished, During
  <1>2. phase \in Open /\ n \in Nat /\ call.seen \in Seq(Visits)
    BY DEF Open, ToolPhases, GwTypeOK, Calls
  <1>3. /\ n = Offset(phase) + call.next - 1
        /\ \A k \in 1..n : VisitOK(k) /\ call.seen[k].answer \notin Stops
    BY <1>1, <1>2 DEF Walk
  <1>4. Chain' = Chain /\ gwScene' = gwScene
    BY ChainKept DEF Kept, gwConfig
  <1>5. Len(Asked(phase)) \in Nat /\ Offset(phase) \in Nat /\ Len(Chain) = Offset(phase) + Len(Asked(phase))
    BY <1>1, <1>2, ChainAt
  <1>6. n = Len(Chain)
    BY <1>1, <1>3, <1>5
  <1>7. \A k \in 1..n : VisitOK(k)'
    BY <1>1, <1>3, <1>4 DEF VisitOK
  <1>8. ~(n > 0 /\ call'.seen[n].answer \in Stops)
    BY <1>1, <1>2, <1>3
  <1>9. gwScene'.op = "tool" => call'.decision.phase = "Complete"
    BY <1>1, <1>4 DEF Coherent
  <1>10. call'.decision.why # "Deny" /\ call'.decision.why # "Challenge"
    BY <1>1 DEF Stops
  <1>11. Len(call'.seen) = n /\ n <= Len(Chain) /\ \A k \in 1..n : call'.seen[k].answer \notin Stops
    BY <1>1, <1>2, <1>3, <1>6
  <1> HIDE DEF n
  <1> QED
    BY <1>4, <1>6, <1>7, <1>8, <1>9, <1>10, <1>11
      DEF ChainDecides, VisitOK, IsAllowed, IsDenied, IsChallenged

\* Every step keeps the walk, and a reply is the chain's decision.
LEMMA ChainStep ==
    GwTypeOK /\ Coherent /\ Walk /\ ChainDecides /\ [GwNext]_gwVars => Walk' /\ ChainDecides'
  <1> SUFFICES ASSUME GwTypeOK, Coherent, Walk, ChainDecides, [GwNext]_gwVars
               PROVE  Walk' /\ ChainDecides'
    OBVIOUS
  <1> USE DEF During
  <1>1. CASE UNCHANGED gwVars
    <2>1. UNCHANGED <<gwScene, gates, transforms, identities, sinks, call>>
      BY <1>1 DEF gwVars
    <2>2. Chain' = Chain /\ Offset(call.phase)' = Offset(call.phase)
      BY <2>1 DEF Chain, Visit, Offset
    <2>3. \A k : VisitOK(k)' <=> VisitOK(k)
      BY <2>1, <2>2 DEF VisitOK
    <2>4. Walk'
      BY <2>1, <2>2, <2>3 DEF Walk
    <2>5. ChainDecides'
      BY <2>1, <2>2 DEF ChainDecides, IsAllowed, IsDenied, IsChallenged
    <2> QED
      BY <2>4, <2>5
  <1>2. CASE GwBuild
    <2>1. call = NoCall /\ (call' = NoCall \/ call' = [NoCall EXCEPT !.phase = "panicked"])
      BY <1>2 DEF GwBuild, WithToolGate, WithTransform, WithIdentity, WithSink, Bind,
                  WithHttpRoute, Building
    <2>2. call'.phase \in {"none", "panicked"}
      BY <2>1 DEF NoCall
    <2> QED
      BY <2>2 DEF Walk, ChainDecides, Open, ToolPhases
  <1>3. CASE GwBegin
    <2>1. PICK op \in {"tool", "identity", "emit", "http"}, phase \in Phases, k \in Sinks,
               request \in {NoRequest} \cup gwScene.requests :
            /\ Begin(op, phase, k, request)
            /\ phase \in {"PreDispatchGate", "identity", "emit", "http"}
      <3>1. /\ "PreDispatchGate" \in Phases /\ "identity" \in Phases /\ "emit" \in Phases
            /\ "http" \in Phases /\ "audit" \in Sinks
        BY DEF Phases, Open, ToolPhases, Sinks
      <3> QED
        BY <1>3, <3>1, Zenon DEF GwBegin
    <2>2. call'.phase = phase /\ call'.next = 1 /\ call'.seen = <<>> /\ call'.args = <<>>
      BY <2>1, BeginShape
    <2>3. Offset(call.phase)' = 0
      BY <2>1, <2>2 DEF Offset
    <2>4. Len(call'.seen) = 0
      BY <2>2
    <2>5. Lists(call'.args, call'.seen, "PreDispatchTransform", 0 + 1)
      <3>1. Modified(call'.seen, "PreDispatchTransform", 0 + 1) = {}
        BY DEF Modified
      <3> QED
        BY <2>2, <3>1, ListsNone
    <2>6. Walk'
      BY <2>1, <2>2, <2>3, <2>4, <2>5 DEF Walk
    <2> QED
      BY <2>1, <2>2, <2>6 DEF ChainDecides
  <1>4. CASE GwStep
    <2>1. CASE CallHttpRoute
      <3>1. call'.phase = "replied" /\ call.phase = "http" /\ gwScene' = gwScene
        BY <2>1, CallHttpRouteStep DEF Kept, gwConfig
      <3>2. gwScene'.op = "http" /\ "replied" \notin Open
        BY <3>1 DEF Coherent, Open, ToolPhases
      <3> QED
        BY <3>1, <3>2 DEF Walk, ChainDecides
    <2>2. CASE ~CallHttpRoute
      <3>0. Kept /\ "replied" \notin Open
        BY <1>4, <2>2, StepKinds DEF Open, ToolPhases
      <3>1. ASSUME NEW phase \in Open, NEW a \in Answers, Visited(phase, a)
            PROVE  Walk' /\ ChainDecides'
        <4>1. CASE a \in Stops
          <5>1. call'.phase = "replied"
            BY <3>1, <4>1 DEF Visited
          <5>2. ChainDecides'
            BY <3>0, <3>1, <4>1, StopVisited
          <5> QED
            BY <3>0, <5>1, <5>2 DEF Walk
        <4>2. CASE a \notin Stops
          <5>1. call'.phase # "replied"
            BY <3>0, <3>1, <4>2 DEF Visited
          <5>2. Walk'
            BY <3>0, <3>1, <4>2, WalkVisited
          <5> QED
            BY <5>1, <5>2 DEF ChainDecides
        <4> QED
          BY <4>1, <4>2
      <3>2. ASSUME NEW phase \in DOMAIN After, Moved(phase) PROVE Walk' /\ ChainDecides'
        <4>1. call'.phase # "replied"
          BY <3>2 DEF Moved, After
        <4>2. Walk'
          BY <3>0, <3>2, WalkMoved
        <4> QED
          BY <4>1, <4>2 DEF ChainDecides
      <3>3. ASSUME NEW phase \in {"PostDispatchGate", "identity", "emit"}, Finished(phase)
            PROVE  Walk' /\ ChainDecides'
        <4>1. call'.phase = "replied"
          BY <3>3 DEF Finished
        <4>2. ChainDecides'
          BY <3>0, <3>3, ChainFinished
        <4> QED
          BY <3>0, <4>1, <4>2 DEF Walk
      <3> QED
        BY <1>4, <2>2, <3>1, <3>2, <3>3, StepKinds
    <2> QED
      BY <2>1, <2>2
  <1> QED
    BY <1>1, <1>2, <1>3, <1>4 DEF GwNext

\* ChainDecides, of every gateway: however many gates, transforms, identity
\* providers and sinks are registered and whatever they answer, the operation
\* asks them in order, ends at the first answer that stops it and shows each
\* plugin what the transforms before it made of the arguments and the result.
THEOREM ChainDecision == GwSpec => []ChainDecides
  <1>1. GwInit => GwTypeOK /\ Coherent /\ Walk /\ ChainDecides
    <2> SUFFICES ASSUME GwInit PROVE Walk /\ ChainDecides
      BY ShapeInit
    <2>1. call.phase = "none"
      BY DEF GwInit, GwNew, NoCall
    <2> QED
      BY <2>1 DEF Walk, ChainDecides, During, Open, ToolPhases
  <1>2. GwTypeOK /\ Coherent /\ [GwNext]_gwVars => GwTypeOK' /\ Coherent'
    BY Shape
  <1>3. GwTypeOK /\ Coherent /\ Walk /\ ChainDecides /\ [GwNext]_gwVars => Walk' /\ ChainDecides'
    BY ChainStep
  <1> QED
    BY <1>1, <1>2, <1>3, PTL DEF GwSpec

=============================================================================
