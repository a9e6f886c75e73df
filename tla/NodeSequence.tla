---------------------------- MODULE NodeSequence ----------------------------
(***************************************************************************)
(* What the list of list.{h,c} promises: a sequence of distinct nodes that *)
(* grows and shrinks at both ends and loses nodes anywhere.  `last' tells  *)
(* which function was called last, which node it was given or returned,    *)
(* and which nodes it gave back to the allocator; so a step of the list    *)
(* is one of the function it names, with its result.                       *)
(***************************************************************************)
EXTENDS Naturals, Sequences

CONSTANTS Nodes, None
VARIABLES seq, last

seqVars == <<seq, last>>

Members    == {seq[k] : k \in DOMAIN seq}
Without(n) == LET at == CHOOSE k \in DOMAIN seq : seq[k] = n
              IN  [k \in 1 .. Len(seq) - 1 |-> seq[IF k < at THEN k ELSE k + 1]]

Called(name, n, freed) == last' = [name |-> name, node |-> n, freed |-> freed]

PushLast(n) ==
    /\ n \notin Members
    /\ seq' = Append(seq, n)
    /\ Called("list_rpush", n, {})

PushFirst(n) ==
    /\ n \notin Members
    /\ seq' = <<n>> \o seq
    /\ Called("list_lpush", n, {})

(* The node at the end in question, or none.                               *)
PopLast ==
    IF seq = <<>> THEN UNCHANGED seq /\ Called("list_rpop", None, {})
    ELSE /\ seq' = SubSeq(seq, 1, Len(seq) - 1)
         /\ Called("list_rpop", seq[Len(seq)], {})

PopFirst ==
    IF seq = <<>> THEN UNCHANGED seq /\ Called("list_lpop", None, {})
    ELSE /\ seq' = Tail(seq)
         /\ Called("list_lpop", Head(seq), {})

Remove(n) ==
    /\ n \in Members
    /\ seq' = Without(n)
    /\ Called("list_remove", n, {n})

Destroy ==
    /\ seq' = <<>>
    /\ Called("list_destroy", None, Members)

SeqInit == seq = <<>> /\ last = [name |-> "list_new", node |-> None, freed |-> {}]

SeqNext ==
    \/ PopLast \/ PopFirst \/ Destroy
    \/ \E n \in Nodes : PushLast(n) \/ PushFirst(n) \/ Remove(n)

SeqSpec == SeqInit /\ [][SeqNext]_seqVars
=============================================================================
