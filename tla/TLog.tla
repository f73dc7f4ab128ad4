-------------------------------- MODULE TLog --------------------------------
(* The transparency log's tree arithmetic and proofs (onl/tlog/tlog.go).     *)
(* SHA-256 is taken to be free of collisions: a hash is a term, flattened    *)
(* to a sequence of numbers so that any two of them can be compared.  A Go   *)
(* panic is the index or the hash Panic, which no storage holds.  A storage  *)
(* of hashes is a sequence; stored index x is its element x + 1.             *)
EXTENDS Integers, Sequences, FiniteSets, SequencesExt

Panic == -1
ZeroHash == <<0>>
PanicHash == <<Panic>>

RecordHash(data) == <<0, data>>
NodeHash(left, right) == <<1, Len(left)>> \o left \o right

\* Slip: a power of two of the size itself counts as smaller.
maxpow2Equal(n) ==
    LET l == CHOOSE l \in 0 .. n : 2 ^ (l + 1) > n /\ 2 ^ l <= n
    IN  [k |-> 2 ^ l, l |-> l]

(* maxpow2 returns k, the largest power of two below n, and its logarithm.   *)
maxpow2(n) ==
    LET l == CHOOSE l \in 0 .. n :
                /\ 2 ^ (l + 1) >= n
                /\ \A m \in 0 .. (l - 1) : 2 ^ (m + 1) < n
    IN  [k |-> 2 ^ l, l |-> l]

TrailingZeros(n) ==
    CHOOSE z \in 0 .. n : n % (2 ^ z) = 0 /\ n % (2 ^ (z + 1)) # 0

RECURSIVE HalvingSum(_)
HalvingSum(n) == IF n = 0 THEN 0 ELSE n + HalvingSum(n \div 2)

StoredHashIndex(level, n) == HalvingSum((n + 1) * (2 ^ level) - 1) + level

(* The loop of SplitStoredHashIndex: n's hashes start at indexN.             *)
RECURSIVE SplitFrom(_, _, _)
SplitFrom(index, n, indexN) ==
    LET x == indexN + 1 + TrailingZeros(n + 1)
    IN  IF x > index
        THEN [level |-> index - indexN, n |-> n \div (2 ^ (index - indexN))]
        ELSE SplitFrom(index, n + 1, x)

SplitStoredHashIndex(index) ==
    LET n == index \div 2
    IN  IF StoredHashIndex(0, n) > index
        THEN [level |-> Panic, n |-> Panic]
        ELSE SplitFrom(index, n, StoredHashIndex(0, n))

\* Slip: the subtrees the last record completes are not counted.
StoredHashCountLeaf(n) == IF n = 0 THEN 0 ELSE StoredHashIndex(0, n - 1) + 1

StoredHashCount(n) ==
    IF n = 0 THEN 0 ELSE StoredHashIndex(0, n - 1) + 1 + TrailingZeros(n)

(* ReadHashes of a storage: an index past its end panics.                    *)
ReadHashes(storage, indexes) ==
    [i \in 1 .. Len(indexes) |->
        IF indexes[i] + 1 \in 1 .. Len(storage)
        THEN storage[indexes[i] + 1] ELSE PanicHash]

(* Every trailing one bit of n completes a subtree, whose hash joins the     *)
(* stored hash of the left neighbour with the one just computed.             *)
StoredHashes(n, data, storage) ==
    LET m       == TrailingZeros(n + 1)
        indexes == [j \in 1 .. m |->
                      StoredHashIndex(m - j, n \div (2 ^ (m - j)) - 1)]
        old     == ReadHashes(storage, indexes)
        hash[i \in 0 .. m] ==
            IF i = 0 THEN RecordHash(data)
            ELSE NodeHash(old[m + 1 - i], hash[i - 1])
    IN  [i \in 1 .. (m + 1) |-> hash[i - 1]]

RECURSIVE subTreeIndex(_, _, _)
subTreeIndex(lo, hi, need) ==
    IF lo >= hi THEN need
    ELSE LET p == maxpow2(hi - lo + 1)
             x == IF lo % p.k # 0 THEN Panic
                  ELSE StoredHashIndex(p.l, lo \div p.k)
         IN  subTreeIndex(lo + p.k, hi, Append(need, x))

RECURSIVE NumTree(_, _)
NumTree(lo, hi) ==
    IF lo >= hi THEN 0 ELSE 1 + NumTree(lo + maxpow2(hi - lo + 1).k, hi)

(* Folds the first NumTree hashes from the right; the others are left over.  *)
subTreeHash(lo, hi, hashes) ==
    LET num == NumTree(lo, hi)
        h[i \in 1 .. num] ==
            IF i = num THEN hashes[num] ELSE NodeHash(hashes[i], h[i + 1])
    IN  IF num = 0 \/ Len(hashes) < num
        THEN [h |-> PanicHash, rest |-> hashes]
        ELSE [h |-> h[1], rest |-> SubSeq(hashes, num + 1, Len(hashes))]

TreeHash(n, storage) ==
    LET r == subTreeHash(0, n, ReadHashes(storage, subTreeIndex(0, n, <<>>)))
    IN  IF n = 0 THEN ZeroHash
        ELSE IF r.rest # <<>> THEN PanicHash ELSE r.h

(***************************************************************************)
(* Record proofs (Merkle audit paths)                                      *)
(***************************************************************************)
RECURSIVE leafProofIndex(_, _, _, _)
leafProofIndex(lo, hi, n, need) ==
    LET k == maxpow2(hi - lo).k
    IN  CASE ~(lo <= n /\ n < hi) -> Append(need, Panic)
          [] lo + 1 = hi -> need
          [] lo + 1 < hi /\ n < lo + k ->
                subTreeIndex(lo + k, hi, leafProofIndex(lo, lo + k, n, need))
          [] OTHER ->
                leafProofIndex(lo + k, hi, n, subTreeIndex(lo, lo + k, need))

RECURSIVE leafProof(_, _, _, _)
leafProof(lo, hi, n, hashes) ==
    IF lo + 1 = hi THEN [p |-> <<>>, rest |-> hashes]
    ELSE LET k == maxpow2(hi - lo).k
         IN  IF n < lo + k
             THEN LET l == leafProof(lo, lo + k, n, hashes)
                      t == subTreeHash(lo + k, hi, l.rest)
                  IN  [p |-> Append(l.p, t.h), rest |-> t.rest]
             ELSE LET t == subTreeHash(lo, lo + k, hashes)
                      r == leafProof(lo + k, hi, n, t.rest)
                  IN  [p |-> Append(r.p, t.h), rest |-> r.rest]

ProveRecord(t, n, storage) ==
    LET indexes == leafProofIndex(0, t, n, <<>>)
        r       == leafProof(0, t, n, ReadHashes(storage, indexes))
    IN  IF r.rest # <<>> THEN <<PanicHash>> ELSE r.p

ProofFailed == <<Panic, Panic>>

\* Slip: hashes left in the proof at the leaf are ignored.
AtLeafLenient(p, leafHash) == leafHash

AtLeaf(p, leafHash) == IF p = <<>> THEN leafHash ELSE ProofFailed

RECURSIVE runRecordProof(_, _, _, _, _)
runRecordProof(p, lo, hi, n, leafHash) ==
    IF lo + 1 = hi THEN AtLeaf(p, leafHash)
    ELSE IF p = <<>> THEN ProofFailed
    ELSE LET k  == maxpow2(hi - lo).k
             th == IF n < lo + k
                   THEN runRecordProof(Front(p), lo, lo + k, n, leafHash)
                   ELSE runRecordProof(Front(p), lo + k, hi, n, leafHash)
         IN  CASE th = ProofFailed -> ProofFailed
               [] th # ProofFailed /\ n < lo + k -> NodeHash(th, Last(p))
               [] OTHER -> NodeHash(Last(p), th)

CheckRecord(p, t, th, n, h) ==
    /\ 0 <= n /\ n < t
    /\ runRecordProof(p, 0, t, n, h) = th

(***************************************************************************)
(* Tree proofs (Merkle consistency proofs)                                 *)
(***************************************************************************)
RECURSIVE treeProofIndex(_, _, _, _)
treeProofIndex(lo, hi, n, need) ==
    LET k == maxpow2(hi - lo).k
    IN  CASE ~(lo < n /\ n <= hi) -> Append(need, Panic)
          [] n = hi -> IF lo = 0 THEN need ELSE subTreeIndex(lo, hi, need)
          [] lo < n /\ n < hi /\ n <= lo + k ->
                subTreeIndex(lo + k, hi, treeProofIndex(lo, lo + k, n, need))
          [] OTHER ->
                treeProofIndex(lo + k, hi, n, subTreeIndex(lo, lo + k, need))

RECURSIVE treeProof(_, _, _, _)
treeProof(lo, hi, n, hashes) ==
    IF n = hi
    THEN IF lo = 0 THEN [p |-> <<>>, rest |-> hashes]
         ELSE LET t == subTreeHash(lo, hi, hashes)
              IN  [p |-> <<t.h>>, rest |-> t.rest]
    ELSE LET k == maxpow2(hi - lo).k
         IN  IF n <= lo + k
             THEN LET l == treeProof(lo, lo + k, n, hashes)
                      t == subTreeHash(lo + k, hi, l.rest)
                  IN  [p |-> Append(l.p, t.h), rest |-> t.rest]
             ELSE LET t == subTreeHash(lo, lo + k, hashes)
                      r == treeProof(lo + k, hi, n, t.rest)
                  IN  [p |-> Append(r.p, t.h), rest |-> r.rest]

ProveTree(t, n, storage) ==
    LET indexes == treeProofIndex(0, t, n, <<>>)
        r       == treeProof(0, t, n, ReadHashes(storage, indexes))
    IN  IF r.rest # <<>> THEN <<PanicHash>> ELSE r.p

BothFailed == <<ProofFailed, ProofFailed>>

\* Slip: hashes left in the proof at the old tree are ignored.
CommonGroundLenient(p, lo, old) ==
    IF lo = 0 THEN <<old, old>> ELSE <<p[1], p[1]>>

CommonGround(p, lo, old) ==
    CASE lo = 0 /\ p = <<>> -> <<old, old>>
      [] lo # 0 /\ Len(p) = 1 -> <<p[1], p[1]>>
      [] OTHER -> BothFailed


(* The implied hashes <<old, new>> of the subtree [lo, hi), or BothFailed.   *)
RECURSIVE runTreeProof(_, _, _, _, _)
runTreeProof(p, lo, hi, n, old) ==
    IF n = hi THEN CommonGround(p, lo, old)
    ELSE IF p = <<>> THEN BothFailed
    ELSE LET k == maxpow2(hi - lo).k
             r == IF n <= lo + k
                  THEN runTreeProof(Front(p), lo, lo + k, n, old)
                  ELSE runTreeProof(Front(p), lo + k, hi, n, old)
         IN  CASE r = BothFailed -> BothFailed
               [] r # BothFailed /\ n <= lo + k ->
                     <<r[1], NodeHash(r[2], Last(p))>>
               [] OTHER -> <<NodeHash(Last(p), r[1]), NodeHash(Last(p), r[2])>>

CheckTree(p, t, th, n, h) ==
    /\ 1 <= n /\ n <= t
    /\ runTreeProof(p, 0, t, n, h) = <<h, th>>
=============================================================================
