------------------------- MODULE MCS3IteratorLibsvm -------------------------
(* Files of two to four short lines and ranges that cut them everywhere, also *)
(* inside numbers of two digits, after colons and at the ends of lines; a     *)
(* file that is smaller than a range; minibatches of one and two lines.       *)
EXTENDS S3IteratorLibsvm

L(label, feats) == [label |-> label, feats |-> feats, space |-> <<" ">>]
Wide(label, feats) == [label |-> label, feats |-> feats, space |-> <<" ", " ">>]

Short == << L(<<"1">>, << <<<<"2">>, <<"3">>>> >>),
            L(<<"0">>, << <<<<"1", "2">>, <<"4", ".", "5">>>> >>),
            Wide(<<"1">>, << <<<<"4">>, <<"6">>>> >>),
            L(<<"0">>, <<>>) >>

Signed == << L(<<"1">>, <<>>), L(<<"-", "1">>, <<>>), L(<<"1">>, <<>>) >>

File(lines, newline, fetch, random, rows) ==
  [lines |-> lines, text |-> IF newline THEN Text(lines) ELSE Front(Text(lines)), fetch |-> fetch,
   random |-> random, rows |-> rows]

MCSetups ==
  { File(Short, TRUE, 16, TRUE, 1), File(Short, FALSE, 22, TRUE, 2),
    File(Short, TRUE, 16, FALSE, 1), File(Short, TRUE, 11, FALSE, 1),
    File(Short, FALSE, 40, FALSE, 2), File(Signed, TRUE, 5, TRUE, 1) }

(* Every list of minibatches that can be in the ring. *)
ListsOf(s) ==
  UNION {LET list == Parsed(s, r).got IN {SubSeq(list, 1, n) : n \in 0 .. Len(list)}
           : r \in Ranges(s)}

MCLists == UNION {ListsOf(s) : s \in MCSetups}
=============================================================================
