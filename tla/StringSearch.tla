--------------------------- MODULE StringSearch ----------------------------
(***************************************************************************)
(* The substring searches: naive, hybrid and two-way of amstring           *)
(* (include/amstring/basic_string.hpp), naive, KMP and Boyer-Moore of      *)
(* String (src/container/string.cpp), and String's scans for a character   *)
(* of a set.  Positions count from 0, npos is -1.  One state is one text,  *)
(* one pattern and one position to start from.                             *)
(***************************************************************************)
EXTENDS Integers, Sequences, FiniteSets

CONSTANTS Alphabet, MaxText, MaxPattern,
          kMaxNaiveCandidates,     \* failed candidates before two-way takes over
          MinHybridPattern, MinHybridText

VARIABLE query                     \* [text, pattern, from]

npos == -1

Larger(i, j) == IF i >= j THEN i ELSE j

Smaller(i, j) == IF i <= j THEN i ELSE j

at(s, i) == s[i + 1]

LeastOf(S) == IF S = {} THEN npos ELSE CHOOSE i \in S : \A j \in S : i <= j

GreatestOf(S) == IF S = {} THEN npos ELSE CHOOSE i \in S : \A j \in S : i >= j

\* traits_type::compare(text + i, pattern, n) == 0
Matches(text, pattern, i) == SubSeq(text, i + 1, i + Len(pattern)) = pattern

\* traits_type::find over [from, to)
FindChar(text, from, to, ch) == LeastOf({i \in from .. to - 1 : at(text, i) = ch})

----------------------------------------------------------------------------
(* amstring. *)

RECURSIVE MaximalSuffix(_, _, _, _, _)
MaximalSuffix(x, reversed, ms, j, k) ==
    IF j >= Len(x) THEN [pos |-> ms, period |-> k]
    ELSE LET cur == at(x, j)
             expected == at(x, j - k)
             less == IF reversed THEN cur < expected ELSE expected < cur
         IN IF cur = expected THEN MaximalSuffix(x, reversed, ms, j + 1, k)
            ELSE IF less THEN MaximalSuffix(x, reversed, j - k + 1, j - k + 2, 1)
            ELSE MaximalSuffix(x, reversed, ms, j + 1, j + 1 - ms)

CriticalFactorization(x) ==
    LET forward == MaximalSuffix(x, FALSE, 0, 1, 1)
        reverse == MaximalSuffix(x, TRUE, 0, 1, 1)
    IN IF forward.pos > reverse.pos THEN forward ELSE reverse


HasPeriodAtCriticalPosition(x, period, critical) ==
    /\ critical <= Len(x) - period
    /\ SubSeq(x, 1, critical) = SubSeq(x, period + 1, period + critical)

\* How far the right part matches from j on, and the left part from j down to low.
MatchRight(text, x, cur, j) ==
    LeastOf({i \in j .. Len(x) : i = Len(x) \/ at(x, i) # at(text, cur + i)})

MatchLeft(text, x, cur, j, low) ==
    GreatestOf({i \in low .. j : i = low \/ at(x, i - 1) # at(text, cur + i - 1)})

RECURSIVE TwoWay(_, _, _, _, _)
TwoWay(text, x, f, cur, memory) ==
    IF cur > Len(text) - Len(x) THEN npos
    ELSE LET periodic == HasPeriodAtCriticalPosition(x, f.period, f.pos)
             low == IF periodic THEN memory ELSE 0
             right == MatchRight(text, x, cur, Larger(f.pos, low))
             left == IF f.pos <= low THEN f.pos ELSE MatchLeft(text, x, cur, f.pos, low)
             shift == Larger(f.pos, Len(x) - f.pos) + 1
         IN IF right < Len(x) THEN TwoWay(text, x, f, cur + right - f.pos + 1, 0)
            ELSE IF left <= low THEN cur
            ELSE IF periodic THEN TwoWay(text, x, f, cur + f.period, Len(x) - f.period)
            ELSE TwoWay(text, x, f, cur + shift, 0)

FindRangeTwoWay(text, x, pos) == TwoWay(text, x, CriticalFactorization(x), pos, 0)

RECURSIVE FindRangeNaive(_, _, _)
FindRangeNaive(text, x, cur) ==
    LET found == FindChar(text, cur, Len(text) - Len(x) + 1, at(x, 0)) IN
    IF found = npos THEN npos
    ELSE IF Matches(text, x, found) THEN found ELSE FindRangeNaive(text, x, found + 1)

RECURSIVE FindRangeHybrid(_, _, _, _)
FindRangeHybrid(text, x, cur, failed) ==
    LET last_start == Len(text) - Len(x)
        found == FindChar(text, cur, last_start + 1, at(x, 0))
    IN IF found = npos THEN npos
       ELSE IF at(text, found + Len(x) - 1) = at(x, Len(x) - 1) /\ Matches(text, x, found) THEN found
       ELSE IF failed + 1 = kMaxNaiveCandidates /\ found + 1 <= last_start
         THEN FindRangeTwoWay(text, x, found + 1)
       ELSE FindRangeHybrid(text, x, found + 1, failed + 1)

FindRange(text, x, pos) ==
    LET n == Len(text)
        m == Len(x)
    IN IF m = 0 THEN (IF pos <= n THEN pos ELSE npos)
       ELSE IF pos >= n \/ m > n - pos THEN npos
       ELSE IF m = 1 THEN FindChar(text, pos, n, at(x, 0))
       ELSE IF m < MinHybridPattern \/ n - pos < MinHybridText THEN FindRangeNaive(text, x, pos)
       ELSE FindRangeHybrid(text, x, pos, 0)

----------------------------------------------------------------------------
(* String: Boyer-Moore, with the jump by large past the end that marks a   *)
(* last character that fits.                                               *)

right(x, c) == GreatestOf({i \in 0 .. Len(x) - 1 : at(x, i) = c})

Delta1(text, x, i, j) ==
    LET r == right(x, at(text, i + j)) IN
    IF r = npos THEN j + 1 ELSE IF j <= r THEN 1 ELSE j - r

\* suffix[len]: the start of the last other occurrence of the suffix of length len, which
\* the loop leaves there because later values of i overwrite earlier ones; len 0 is m.
\* The run of matches that ends at i is as long as the loop's j went down.
RunBackFrom(x, i) == LET m == Len(x) IN
    LeastOf({k \in 0 .. i + 1 : k = i + 1 \/ at(x, i - k) # at(x, m - 1 - k)})

suffix(x, len) ==
    LET ends == {i \in 0 .. Len(x) - 2 : RunBackFrom(x, i) = len} IN
    IF len = 0 THEN Len(x) ELSE IF ends = {} THEN npos ELSE GreatestOf(ends) - len + 1

prefix(x, len) == len \in 1 .. Len(x) - 1 /\ RunBackFrom(x, len - 1) = len

ComputeDelta2(x, j) ==
    LET m == Len(x)
        len == m - 1 - j
        k == GreatestOf({i \in 1 .. len - 1 : prefix(x, i)})
    IN IF suffix(x, len) # npos THEN j - suffix(x, len) + 1
       ELSE IF k # npos THEN m - k ELSE m

\* The inner loop: slide until the last character fits or the text is left behind.
RECURSIVE Slide(_, _, _)
Slide(text, x, pos) ==
    LET n == Len(x) IN
    IF pos > Len(text) - n THEN pos
    ELSE Slide(text, x, pos + (IF at(text, pos + n - 1) = at(x, n - 1) THEN Len(text) + n
                               ELSE Delta1(text, x, pos, n - 1)))

RECURSIVE BoyerMooreFrom(_, _, _)
BoyerMooreFrom(text, x, pos) ==
    IF pos > Len(text) - Len(x) THEN npos
    ELSE LET slid == Slide(text, x, pos)
             here == slid - (Len(text) + Len(x))
             j == GreatestOf({i \in 0 .. Len(x) - 1 : at(text, here + i) # at(x, i)})
         IN IF slid < Len(text) + Len(x) THEN npos
            ELSE IF j = npos THEN here
            ELSE BoyerMooreFrom(text, x, here + Larger(Delta1(text, x, here, j), ComputeDelta2(x, j)))

\* The three searches of String begin alike.
Searched(text, x, pos, Search(_, _, _)) ==
    IF Len(x) = 0 THEN (IF pos <= Len(text) THEN pos ELSE npos)
    ELSE IF pos >= Len(text) \/ Len(text) - pos < Len(x) THEN npos
    ELSE Search(text, x, pos)

BoyerMooreSearch(text, x, pos) == Searched(text, x, pos, BoyerMooreFrom)

NaiveSearch(text, x, pos) == Searched(text, x, pos, FindRangeNaive)

(* KMP: the failure table, then one pass over the text. *)
RECURSIVE FailureTable(_, _, _, _)
FailureTable(x, table, i, j) ==
    IF i >= Len(x) THEN table
    ELSE IF at(x, i) = at(x, j) THEN FailureTable(x, [table EXCEPT ![i] = j + 1], i + 1, j + 1)
    ELSE IF j = 0 THEN FailureTable(x, table, i + 1, 0)
    ELSE FailureTable(x, table, i, table[j - 1])

RECURSIVE KMPFrom(_, _, _, _, _)
KMPFrom(text, x, table, i, j) ==
    IF j = Len(x) THEN i - Len(x)
    ELSE IF i >= Len(text) THEN npos
    ELSE IF at(text, i) = at(x, j) THEN KMPFrom(text, x, table, i + 1, j + 1)
    ELSE IF j = 0 THEN KMPFrom(text, x, table, i + 1, 0)
    ELSE KMPFrom(text, x, table, i, table[j - 1])

KMPSearch(text, x, pos) ==
    Searched(text, x, pos, LAMBDA t, p, i :
        KMPFrom(t, p, FailureTable(p, [k \in 0 .. Len(p) - 1 |-> 0], 1, 0), i, 0))

\* Backwards from the smaller of pos and the last place the pattern fits.
BackFrom(i, Stop(_)) == GreatestOf({k \in 0..i : Stop(k)})

rfind(text, x, pos) ==
    IF Len(x) > Len(text) THEN npos
    ELSE BackFrom(Smaller(pos, Len(text) - Len(x)), LAMBDA i : Matches(text, x, i))

In(text, i, x) == \E k \in 1..Len(x) : x[k] = at(text, i)

find_first_of(text, x, pos) ==
    IF Len(x) = 0 THEN npos ELSE LeastOf({i \in pos .. Len(text) - 1 : In(text, i, x)})

find_first_not_of(text, x, pos) ==
    IF Len(x) = 0 THEN npos ELSE LeastOf({i \in pos .. Len(text) - 1 : ~In(text, i, x)})

find_last_of(text, x, pos) ==
    IF Len(x) = 0 \/ Len(text) = 0 THEN npos
    ELSE BackFrom(Smaller(pos, Len(text) - 1), LAMBDA i : In(text, i, x))

find_last_not_of(text, x, pos) ==
    IF Len(text) = 0 THEN npos
    ELSE BackFrom(Smaller(pos, Len(text) - 1), LAMBDA i : ~In(text, i, x))

----------------------------------------------------------------------------
Init == query = [text |-> <<>>, pattern |-> <<>>, from |-> 0]

\* The texts and patterns grow one character at a time.
Next ==
    \/ \E c \in Alphabet : /\ Len(query.text) < MaxText
                           /\ query' = [query EXCEPT !.text = Append(@, c)]
    \/ \E c \in Alphabet : /\ Len(query.pattern) < MaxPattern
                           /\ query' = [query EXCEPT !.pattern = Append(@, c)]

Occurrences == {i \in 0 .. Len(query.text) - Len(query.pattern) :
                  Matches(query.text, query.pattern, i)}

=============================================================================
