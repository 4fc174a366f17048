----------------------------- MODULE PyPINames ------------------------------
(***************************************************************************)
(* normalizePyPIProject (supply/pypi.go): one step per rune of its loop,   *)
(* against what PEP 503 says.  Lower is strings.ToLower on a character.    *)
(***************************************************************************)
EXTENDS Naturals, Sequences, SequencesExt

CONSTANTS Chars, Lower, MaxLen  \* characters, their lower case, and the bound on a name's length

Separators == {"-", "_", "."}

VARIABLES name, at, out, prevSep

vars == <<name, at, out, prevSep>>

\* the first n characters of the name in lower case
Lowered(n) == [i \in 1..n |-> Lower[name[i]]]

Init ==
    /\ name \in UNION {[1..n -> Chars] : n \in 0..MaxLen}
    /\ at = 1
    /\ out = <<>>
    /\ prevSep = FALSE

\* what a rune adds to the result
Collapsed(ch) ==
    IF ch \in Separators THEN (IF prevSep THEN <<>> ELSE <<"-">>) ELSE <<ch>>

Next ==
    LET ch == Lower[name[at]] IN
    /\ at <= Len(name)
    /\ out' = out \o Collapsed(ch)
    /\ prevSep' = (ch \in Separators)
    /\ at' = at + 1
    /\ UNCHANGED name

\* strings.Trim of the dashes at both ends
Trimmed ==
    LET Kept == {i \in DOMAIN out : out[i] # "-"} IN
    IF Kept = {} THEN <<>>
    ELSE LET first == CHOOSE i \in Kept : \A j \in Kept : i <= j
             last  == CHOOSE i \in Kept : \A j \in Kept : j <= i
         IN  SubSeq(out, first, last)

\* the words of s between runs of separators: where each starts and ends
Words(s) ==
    {w \in (DOMAIN s) \X (DOMAIN s) :
        /\ w[1] <= w[2]
        /\ \A i \in w[1]..w[2] : s[i] \notin Separators
        /\ w[1] > 1 => s[w[1] - 1] \in Separators
        /\ w[2] < Len(s) => s[w[2] + 1] \in Separators}

\* ... joined with single dashes
Joined(s) ==
    LET words == SetToSortSeq(Words(s), LAMBDA v, w : v[1] < w[1])
    IN  FoldLeft(LAMBDA acc, w : IF acc = <<>> THEN SubSeq(s, w[1], w[2])
                                 ELSE acc \o <<"-">> \o SubSeq(s, w[1], w[2]),
                 <<>>, words)

\* After every rune the trimmed result is the words read so far, in lower case, joined with
\* single dashes: two names that PEP 503 calls the same have the same page.
NormalizesName == Trimmed = Joined(Lowered(at - 1))
=============================================================================
