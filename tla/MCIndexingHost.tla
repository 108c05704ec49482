--------------------------- MODULE MCIndexingHost ---------------------------
(* Small instances of IndexingHost for TLC.                                    *)
EXTENDS IndexingHost

CONSTANTS s1, s2, l1, r1

MCOneSave == {s1}
MCTwoSaves == {s1, s2}
MCLive == {l1}
MCReaders == {r1}
=============================================================================
