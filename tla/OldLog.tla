------------------------------- MODULE OldLog --------------------------------
(* The first transparency log (onl/tlog/tlog_old/log.go, math.go): a file of   *)
(* record bytes, an index file of the offsets records start at, and one file   *)
(* of hashes for every level of the tree.  The proof it returns is unfinished  *)
(* in the code; the peaks it starts from are here.                             *)
EXTENDS Integers, SequencesExt, FiniteSetsExt

CONSTANTS Record,      \* the records appended: sequences of bytes
          MaxRecords   \* bound on their number

VARIABLES recf,    \* record bytes
          idxf,    \* offset of each record in recf
          lvlf,    \* hashes of each level
          recs     \* history: the records appended

vars == <<recf, idxf, lvlf, recs>>

(* SHA-256 as a term that spells out what was hashed.                          *)
sum256(d) == <<Len(d)>> \o d

log2(n) == CHOOSE k \in 0 .. n : 2 ^ k <= n /\ n < 2 ^ (k + 1)

\* Slip: the loop ends before the largest component.
pow2decomposeShort(x) ==
    SetToSortSeq({i \in {2 ^ k : k \in 0 .. x} : i < x /\ (x \div i) % 2 = 1}, <)

(* The powers of two that sum to x, smallest first.                            *)
pow2decompose(x) ==
    SetToSortSeq({i \in {2 ^ k : k \in 0 .. x} : (x \div i) % 2 = 1}, <)

Init == recf = <<>> /\ idxf = <<>> /\ lvlf = <<>> /\ recs = <<>>

openLvlF(files, lvl) == IF Len(files) < lvl + 1 THEN Append(files, <<>>) ELSE files

\* Slip: the first hash of a pair is taken for the second.
PairCompleteEarly(f) == Len(f) % 2 = 1 /\ Len(f) > 1

PairComplete(f) == Len(f) % 2 = 0

(* The hash of d goes to the file of the level; a second hash of a pair sends  *)
(* the hash of the pair one level up.                                          *)
RECURSIVE hashToFile(_, _, _)
hashToFile(files, d, lvl) ==
    LET opened == openLvlF(files, lvl)
        f      == Append(opened[lvl + 1], sum256(d))
        new    == [opened EXCEPT ![lvl + 1] = f]
    IN  IF PairComplete(f)
        THEN hashToFile(new, f[Len(f) - 1] \o f[Len(f)], lvl + 1)
        ELSE new

\* Slip: the offset is read after the record was written.
AppendRecAfter(r) ==
    /\ Len(recs) < MaxRecords
    /\ recf' = recf \o r
    /\ idxf' = Append(idxf, Len(recf'))
    /\ lvlf' = hashToFile(lvlf, r, 0)
    /\ recs' = Append(recs, r)

AppendRec(r) ==
    /\ Len(recs) < MaxRecords
    /\ recf' = recf \o r
    /\ idxf' = Append(idxf, Len(recf))
    /\ lvlf' = hashToFile(lvlf, r, 0)
    /\ recs' = Append(recs, r)

Next == \E r \in Record : AppendRec(r)

Spec == Init /\ [][Next]_vars

(* Read cuts a record out between two index entries, the last one at the end   *)
(* of the file; record 0 does not exist.                                       *)
ReadRec(k) ==
    IF k < 1 THEN <<>>
    ELSE SubSeq(recf, idxf[k] + 1,
                IF k + 1 <= Len(idxf) THEN idxf[k + 1] ELSE Len(recf))

lvllen(L) == Len(openLvlF(lvlf, L)[L + 1])

(* Contains: the last hash of each level in the decomposition of the size.     *)
Peaks(n) ==
    [i \in 1 .. Len(pow2decompose(n)) |->
        LET tiplvl == log2(pow2decompose(n)[i])
        IN  lvlf[tiplvl + 1][lvllen(tiplvl)]]

(* The hash of the records lo .. lo + 2^level - 1, counted from zero.          *)
RECURSIVE PerfectHash(_, _)
PerfectHash(lo, level) ==
    IF level = 0 THEN sum256(recs[lo + 1])
    ELSE sum256(PerfectHash(lo, level - 1)
                \o PerfectHash(lo + 2 ^ (level - 1), level - 1))

(* Every record ever appended is still read back whole under its number, also  *)
(* an empty one and the one at the end of the file.                            *)
ReadsBack == \A k \in 1 .. Len(recs) : ReadRec(k) = recs[k]

(* There is a level for every height a complete subtree has; its file holds    *)
(* the hash of each of them, in order, and no more.                            *)
LevelFiles ==
    /\ recs # <<>> => Len(lvlf) = log2(Len(recs)) + 1
    /\ \A l \in 1 .. Len(lvlf) :
        /\ Len(lvlf[l]) = Len(recs) \div 2 ^ (l - 1)
        /\ \A k \in 1 .. Len(lvlf[l]) :
              lvlf[l][k] = PerfectHash((k - 1) * 2 ^ (l - 1), l - 1)

(* The peaks, largest first, are the hashes of consecutive perfect subtrees    *)
(* that cover the records of the log from the first to the last.               *)
PeaksCoverLog ==
    recs # <<>> =>
        LET comps == Reverse(pow2decompose(Len(recs)))
            peaks == Reverse(Peaks(Len(recs)))
            lo[i \in 1 .. (Len(comps) + 1)] ==
                IF i = 1 THEN 0 ELSE lo[i - 1] + comps[i - 1]
        IN  /\ lo[Len(comps) + 1] = Len(recs)
            /\ \A i \in DOMAIN comps :
                  peaks[i] = PerfectHash(lo[i], log2(comps[i]))
===============================================================================
