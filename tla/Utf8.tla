-------------------------------- MODULE Utf8 --------------------------------
(***************************************************************************)
(* Bytes and characters, as make_utf8_stream of src/src/proxy/client.rs    *)
(* sees them.  A character is a record whose field `size` is the number of *)
(* its bytes; of size 0 is the one byte that is never valid.  Any byte but *)
(* the first of a character may follow any first byte.                     *)
(***************************************************************************)
EXTENDS Naturals, Sequences, SequencesExt

Encode(c) ==
    [k \in 1..(IF c.size = 0 THEN 1 ELSE c.size) |-> [char |-> c, k |-> k]]

\* Where the byte i is k bytes into a character, complete or not.
Begins(b, i) == b[i].k = 1

First(b, i) ==
    SelectLastInSubSeq(b, 1, i, LAMBDA y : y.k = 1)

Continues(b, i) ==
    LET f == First(b, i)
    IN  ~Begins(b, i) /\ f > 0 /\ i - f < b[f].char.size

\* The whole characters of b, by their first bytes.
Starts(b) ==
    {i \in DOMAIN b :
        LET n == b[i].char.size
        IN  /\ Begins(b, i) /\ n > 0 /\ i + n - 1 <= Len(b)
            /\ \A j \in (i + 1)..(i + n - 1) : ~Begins(b, j)}

\* std::str::from_utf8 and the valid_up_to of its error.
ValidUpTo(b) ==
    LET covered == UNION {i..(i + b[i].char.size - 1) : i \in Starts(b)}
    IN  IF DOMAIN b \subseteq covered THEN Len(b)
        ELSE CHOOSE n \in 0..(Len(b) - 1) :
                n + 1 \notin covered /\ 1..n \subseteq covered

\* What is decoded otherwise than it was written: U+FFFD, or a character
\* whose bytes are of two others.
Other == [part |-> "other", of |-> 0, size |-> 3]

CharAt(b, i) ==
    IF /\ i \in Starts(b)
       /\ SubSeq(b, i, i + b[i].char.size - 1) = Encode(b[i].char)
    THEN b[i].char ELSE Other

\* from_utf8_lossy: what begins a character, and the lone bytes.
Lossy(b) ==
    LET at == SelectSeq([i \in DOMAIN b |-> i], LAMBDA i : ~Continues(b, i))
    IN  [k \in DOMAIN at |-> CharAt(b, at[k])]

\* error_len of an error at the first byte; an unfinished character has
\* none, which counts as 1.
Needed(b) ==
    IF \A i \in DOMAIN b : i = 1 \/ Continues(b, i) THEN 1
    ELSE CHOOSE n \in 1..Len(b) :
            /\ \A i \in 2..n : Continues(b, i)
            /\ ~Continues(b, n + 1)

=============================================================================
