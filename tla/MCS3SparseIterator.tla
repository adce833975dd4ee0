------------------------- MODULE MCS3SparseIterator -------------------------
(* Small instances of S3SparseIterator.  The threshold and the read-ahead are *)
(* small enough for getNext() to meet both limits and for the version and the *)
(* ring to wrap.                                                              *)
EXTENDS S3SparseIterator
=============================================================================
