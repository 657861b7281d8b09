----------------------------- MODULE CommMapper -----------------------------
(* Which workers of two groups exchange which part of a batch                *)
(* (rlinf/utils/comm_mapping.py).  A batch is cut evenly among the ranks of  *)
(* either group, in rank order; a source and a destination that hold common  *)
(* indices are paired, with as many items as they have in common.            *)
EXTENDS Integers, Sequences, SequencesExt, FiniteSetsExt

\* The assertions at the head of both maps.
Divides(batch, srcSize, dstSize) ==
    batch % srcSize = 0 /\ batch % dstSize = 0

(* get_dst_ranks: from the first index of the source's part to its last, the *)
(* destination that holds the index takes what it and the source have left.  *)
DstRanks(batch, srcSize, dstSize, src) ==
    LET perSrc == batch \div srcSize
        perDst == batch \div dstSize
        end    == (src + 1) * perSrc
        from[begin \in 0..end] ==
            IF begin = end THEN <<>>
            ELSE LET dst  == begin \div perDst
                     size == Min({(dst + 1) * perDst - begin, end - begin})
                 IN  <<[rank |-> dst, size |-> size]>> \o from[begin + size]
    IN  from[src * perSrc]

\* What the map of a source says of a destination.
Named(to, src, dst) ==
    FlattenSeq([n \in DOMAIN to |-> IF to[n].rank = dst
                                    THEN <<[rank |-> src, size |-> to[n].size]>> ELSE <<>>])

\* Mutant: the sources in falling order.
SrcRanksReversedMutant(batch, srcSize, dstSize, dst) ==
    FlattenSeq([n \in 1..srcSize |->
        Named(DstRanks(batch, srcSize, dstSize, srcSize - n), srcSize - n, dst)])

(* get_src_ranks: the sources, in rank order, whose map names the            *)
(* destination, with the sizes they send it.                                 *)
SrcRanks(batch, srcSize, dstSize, dst) ==
    FlattenSeq([n \in 1..srcSize |->
        Named(DstRanks(batch, srcSize, dstSize, n - 1), n - 1, dst)])

\* The items before the n-th part.
Before(parts, n) ==
    LET sum[i \in 0..Len(parts)] == IF i = 0 THEN 0 ELSE sum[i - 1] + parts[i].size
    IN  sum[n - 1]

(* split_dict and torch.split: `items` cut into consecutive shards of the    *)
(* given sizes.                                                              *)
Split(items, parts) ==
    [n \in DOMAIN parts |-> SubSeq(items, Before(parts, n) + 1, Before(parts, n + 1))]
=============================================================================
