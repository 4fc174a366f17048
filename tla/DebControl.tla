----------------------------- MODULE DebControl -----------------------------
(***************************************************************************)
(* parseRFC822 (internal/apt/deb.go), which reads the control file of a    *)
(* package: one step per line, against what a stanza means.  A line is     *)
(* blank, a field, a continuation, or junk without a colon.                *)
(***************************************************************************)
EXTENDS Naturals, Sequences

CONSTANTS Keys, Values, MaxLines    \* field names, values, and the bound on the lines of a file

Blank == [kind |-> "blank"]
Junk  == [kind |-> "junk"]
Field(k, v) == [kind |-> "field", key |-> k, val |-> v]
More(v)     == [kind |-> "more", val |-> v]

ControlLines == {Blank, Junk} \cup {Field(k, v) : k \in Keys, v \in Values} \cup {More(v) : v \in Values}

VARIABLES
    text,       \* the lines of the file
    line,       \* the line that the loop is at
    fields,     \* out: the value of a key, piece by piece
    lastKey     \* "" before the first field

parser == <<text, line, fields, lastKey>>

Init ==
    /\ text \in UNION {[1..n -> ControlLines] : n \in 0..MaxLines}
    /\ line = 1
    /\ fields = [k \in Keys |-> <<>>]
    /\ lastKey = ""

\* a blank line after a field ends the stanza
EndsStanza(l) == l.kind = "blank" /\ lastKey # ""

\* the loop has ended
Parsed == line > Len(text) \/ EndsStanza(text[line])

ParseRFC822 ==
    LET l == text[line] IN
    /\ ~Parsed
    /\ line' = line + 1
    /\ fields' = CASE l.kind = "more" /\ lastKey # "" -> [fields EXCEPT ![lastKey] = Append(@, l.val)]
                   [] l.kind = "field"                 -> [fields EXCEPT ![l.key] = <<l.val>>]
                   [] OTHER                            -> fields
    /\ lastKey' = IF l.kind = "field" THEN l.key ELSE lastKey
    /\ UNCHANGED text

Next == ParseRFC822

-----------------------------------------------------------------------------
\* the lines of the first stanza
Stanza ==
    LET Ends == {i \in DOMAIN text : text[i].kind = "blank" /\ \E j \in 1..(i - 1) : text[j].kind = "field"}
    IN  IF Ends = {} THEN text ELSE SubSeq(text, 1, (CHOOSE i \in Ends : \A j \in Ends : i <= j) - 1)

\* the value of a key: of its last field line, with the continuations up to the next field
Meaning(s, k) ==
    LET Mine == {i \in DOMAIN s : s[i].kind = "field" /\ s[i].key = k} IN
    IF Mine = {} THEN <<>>
    ELSE LET at    == CHOOSE i \in Mine : \A j \in Mine : j <= i
             After == {i \in DOMAIN s : i > at /\ s[i].kind = "field"}
             until == IF After = {} THEN Len(s) ELSE (CHOOSE i \in After : \A j \in After : i <= j) - 1
             more  == SelectSeq(SubSeq(s, at + 1, until), LAMBDA l : l.kind = "more")
         IN  <<s[at].val>> \o [i \in DOMAIN more |-> more[i].val]

\* When the loop ends the fields are those of the first stanza, continuations folded into
\* the field they follow, blank lines before the first field and lines without a colon
\* passed over (parseRFC822).
ControlRight == Parsed => fields = [k \in Keys |-> Meaning(Stanza, k)]
=============================================================================
