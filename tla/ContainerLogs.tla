--------------------------- MODULE ContainerLogs ----------------------------
(***************************************************************************)
(* parseDockerLogStream: the daemon's multiplexed log, read frame by frame *)
(* into entries of one line each.  The algorithm is checked against a      *)
(* definition of the lines of a payload by positions.                      *)
(***************************************************************************)
EXTENDS Naturals, Sequences, SequencesExt, FiniteSetsExt

CONSTANTS
    MaxFrames,      \* bound: frames of a stream
    MaxPayload      \* bound: characters of a payload

NL == "nl"
CR == "cr"

\* a frame: byte 0 of the header, the payload, and whether the stream ends before its size is read
Frame == [type : {1, 2}, payload : BoundedSeq({"a", NL, CR}, MaxPayload), cut : BOOLEAN]

VARIABLES
    stream,     \* what the daemon sends
    at,         \* frames read
    entries,    \* the entries so far
    done        \* the loop has ended

vars == <<stream, at, entries, done>>

Init ==
    /\ stream \in BoundedSeq(Frame, MaxFrames)
    /\ at = 0
    /\ entries = <<>>
    /\ done = FALSE

-----------------------------------------------------------------------------
\* strings.TrimRight
TrimRight(s, cutset) == SubSeq(s, 1, Max({0} \cup {i \in DOMAIN s : s[i] \notin cutset}))

\* strings.Split(s, "\n")
Split(s) ==
    FoldLeft(LAMBDA parts, ch : IF ch = NL THEN Append(parts, <<>>)
                                ELSE [parts EXCEPT ![Len(parts)] = Append(@, ch)],
             <<<<>>>>, s)

\* the lines of a payload: trimmed, split, trimmed again, the empty ones dropped
Lines(payload) ==
    LET parts == Split(TrimRight(payload, {NL, CR}))
    IN  SelectSeq([i \in DOMAIN parts |-> TrimRight(parts[i], {CR})], LAMBDA line : line # <<>>)

\* the stream of a frame: 2 is stderr, anything else stdout
StreamName(type) == IF type = 2 THEN "stderr" ELSE "stdout"

\* one turn of the loop: an empty frame is skipped, a cut one ends the loop
ReadFrame ==
    /\ ~done /\ at < Len(stream)
    /\ LET f == stream[at + 1]
       IN  IF f.cut /\ f.payload # <<>>
           THEN done' = TRUE /\ UNCHANGED <<at, entries>>
           ELSE /\ at' = at + 1
                /\ entries' = entries \o [i \in DOMAIN Lines(f.payload) |->
                                            [stream |-> StreamName(f.type), content |-> Lines(f.payload)[i]]]
                /\ UNCHANGED done
    /\ UNCHANGED stream

\* the header cannot be read any more
EndOfStream ==
    /\ ~done /\ at = Len(stream)
    /\ done' = TRUE
    /\ UNCHANGED <<stream, at, entries>>

Next == ReadFrame \/ EndOfStream

Spec == Init /\ [][Next]_vars

-----------------------------------------------------------------------------
\* Reference: the positions in p between two line ends.
Segment(p, i, j) ==
    /\ i <= j /\ \A k \in i..j : p[k] # NL
    /\ i = 1 \/ p[i - 1] = NL
    /\ j = Len(p) \/ p[j + 1] = NL

\* Reference: the texts of p's segments without trailing carriage returns, in order.
ReferenceLines(p) ==
    LET starts == SetToSortSeq({i \in DOMAIN p : \E j \in DOMAIN p : Segment(p, i, j)}, <)
        text(i) == LET j == CHOOSE n \in DOMAIN p : Segment(p, i, n)
                   IN  SubSeq(p, i, Max({i - 1} \cup {k \in i..j : p[k] # CR}))
        texts  == [n \in DOMAIN starts |-> text(starts[n])]
    IN  SelectSeq(texts, LAMBDA t : t # <<>>)

\* However the daemon cuts its output into frames, the entries are the
\* non-empty lines of the frames read so far, in order, each with its stream.
LogLinesRight ==
    /\ [i \in DOMAIN entries |-> entries[i].content] =
           FlattenSeq([n \in 1..at |-> ReferenceLines(stream[n].payload)])
    /\ [i \in DOMAIN entries |-> entries[i].stream] =
           FlattenSeq([n \in 1..at |-> [k \in DOMAIN ReferenceLines(stream[n].payload) |->
                                          IF stream[n].type = 2 THEN "stderr" ELSE "stdout"]])
=============================================================================
