----------------------------- MODULE FifoQueue -----------------------------
(***************************************************************************)
(* What a bounded queue promises its users: a sequence of at most Size     *)
(* items; a push appends one, a pop hands out the oldest one.  A call that *)
(* times out changes nothing, so it is not a step here.                    *)
(***************************************************************************)
EXTENDS Naturals, Sequences

CONSTANTS Items, Size

VARIABLES
    contents,    \* the items in the queue, oldest first
    delivered    \* the items handed out so far, in order

FifoInit == contents = << >> /\ delivered = << >>

Put(t) ==
    /\ Len(contents) < Size
    /\ contents' = Append(contents, t)
    /\ UNCHANGED delivered

Get ==
    /\ contents # << >>
    /\ contents' = Tail(contents)
    /\ delivered' = Append(delivered, Head(contents))

FifoNext == (\E t \in Items : Put(t)) \/ Get

FifoSpec == FifoInit /\ [][FifoNext]_<<contents, delivered>>
=============================================================================
