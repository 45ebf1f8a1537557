---------------------------- MODULE MessageStream ----------------------------
(***************************************************************************)
(* What a client of POST /v1/messages with `stream` can rely on up to      *)
(* message_stop, where it stops reading.  It is the sequence that docs/    *)
(* explanation/format-conversion.md:127 draws, but for the blocks of tool  *)
(* calls: the document stops each block before the next one starts, and    *)
(* all of them before message_delta; the calls of the stream converter     *)
(* stay open beside each other, and some for good.                         *)
(***************************************************************************)
EXTENDS Naturals, FiniteSets

CONSTANTS
    Kinds,       \* of content blocks
    Overlapping  \* the kinds of which several blocks may be open

VARIABLES
    phase,  \* of the message
    blocks  \* index -> the content block with that index

vars == <<phase, blocks>>

Block == [kind: Kinds, open: BOOLEAN]

Indices == {i \in DOMAIN blocks : blocks[i].open}

Init == phase = "new" /\ blocks = << >>

MessageStart ==
    /\ phase = "new"
    /\ phase' = "open"
    /\ UNCHANGED blocks

\* The blocks that are open are of kinds that others may overlap.
OnlyOverlapping == \A i \in Indices : blocks[i].kind \in Overlapping

\* The indices of the blocks are 0, 1, 2, ... in the order of their starts.
BlockStart ==
    /\ phase = "open"
    /\ OnlyOverlapping
    /\ LET n == Cardinality(DOMAIN blocks)
       IN  /\ DOMAIN blocks = 0..(n - 1)
           /\ \E k \in Kinds :
                 blocks' = [i \in 0..n |->
                               IF i = n THEN [kind |-> k, open |-> TRUE]
                                        ELSE blocks[i]]
    /\ UNCHANGED phase

BlockStop ==
    /\ phase = "open"
    /\ \E i \in Indices : blocks' = [blocks EXCEPT ![i].open = FALSE]
    /\ UNCHANGED phase

\* message_delta carries the stop reason.
MessageDelta ==
    /\ phase = "open"
    /\ OnlyOverlapping
    /\ phase' = "ending"
    /\ UNCHANGED blocks

MessageStop ==
    /\ phase = "ending"
    /\ phase' = "stopped"
    /\ UNCHANGED blocks

Next ==
    \/ MessageStart \/ BlockStart \/ BlockStop \/ MessageDelta \/ MessageStop

Spec == Init /\ [][Next]_vars

=============================================================================
