---------------------------- MODULE LibsvmParser ----------------------------
(* The parser of S3IteratorLibsvm.cpp: a range of bytes that may begin and    *)
(* end anywhere becomes minibatches of rows samples.  Text is a sequence of   *)
(* characters, indices start at 0, a number is the sequence of its digits.    *)
(* A result has a status: "ok", "cut" (the C++ function returns false) or     *)
(* "throw".                                                                   *)
EXTENDS Naturals, Sequences, FiniteSetsExt

Digits == {"0", "1", "2", "3", "4", "5", "6", "7", "8", "9"}

(* What a file is made of. *)
Chars == Digits \union {" ", "\n", ":", ".", "-"}

isdigit(c) == c \in Digits
isspace(c) == c \in {" ", "\n"}

(* A std::string ends in a 0 that can be read. *)
At(data, i) == IF i < Len(data) THEN data[i + 1] ELSE "nul"

(* The first index from i on whose character fails P. *)
Skip(P(_), data, from) ==
  LET skip[i \in 0 .. Len(data)] == IF P(At(data, i)) THEN skip[i + 1] ELSE i
  IN skip[from]

ignoreSpaces(data, i) == Skip(isspace, data, i)
ignoreSpacesNotNewline(data, i) == Skip(LAMBDA c : c # "\n" /\ isspace(c), data, i)

(* Where readNum ends; the numbers of values may have dots.  It throws when   *)
(* there is no digit at i.                                                    *)
NumEnd(data, i) == Skip(isdigit, data, i)
ValueEnd(data, i) == Skip(LAMBDA c : isdigit(c) \/ c = ".", data, i)
Num(data, i, end) == SubSeq(data, i + 1, end)

Ends(status, i) == [status |-> status, index |-> i, got |-> <<>>]

(* A plausible bug: the end of the text ends the sample as well. *)
NoMorePairsLenient(c) ==
  CASE c \in {"\n", "nul"} -> "ok" [] OTHER -> "throw"

(* No digit where a pair could start. *)
NoMorePairs(c) ==
  CASE c = "\n" -> "ok" [] c = "nul" -> "cut" [] OTHER -> "throw"

(* A plausible bug: an index without its colon is an error. *)
NoColonThrows(c) == "throw"

NoColon(c) == "cut"

(* One more in front of what follows it. *)
InFront(x, rest) == [rest EXCEPT !.got = <<x>> \o @]

(* A pair whose index is at j .. k - 1 and whose value ends at end. *)
ReadValue(data, j, k, end, pairs) ==
  IF ~isdigit(At(data, k + 1)) THEN Ends("throw", k + 1)
  ELSE InFront(<<Num(data, j, k), Num(data, k + 1, end)>>, pairs[end])

ReadPair(data, j, k, pairs) ==
  CASE ~isdigit(At(data, j)) -> Ends(NoMorePairs(At(data, j)), j)
    [] isdigit(At(data, j)) /\ At(data, k) # ":" -> Ends(NoColon(At(data, k)), k)
    [] OTHER -> ReadValue(data, j, k, ValueEnd(data, k + 1), pairs)

(* The pairs of a sample, from index i to the newline. *)
ReadPairs(data, from) ==
  LET pairs[i \in 0 .. Len(data)] ==
        LET j == ignoreSpacesNotNewline(data, i)
        IN ReadPair(data, j, NumEnd(data, j), pairs)
  IN pairs[from]

(* A sample whose label is at j .. k - 1, in front of the rest. *)
AddSample(data, j, k, pairs, Rest(_)) ==
  IF pairs.status # "ok" THEN pairs
  ELSE InFront([label |-> Num(data, j, k), feats |-> pairs.got], Rest(pairs.index))

ReadSample(data, j, k, Rest(_)) ==
  IF ~isdigit(At(data, j))
  THEN Ends(IF At(data, j) = "nul" THEN "cut" ELSE "throw", j)
  ELSE AddSample(data, j, k, ReadPairs(data, k), Rest)

(* rows samples from index i on; what is read of an incomplete minibatch is   *)
(* dropped with it.                                                           *)
buildDatasetLibsvm(data, from, rows) ==
  LET build[n \in 0 .. rows, i \in 0 .. Len(data)] ==
        IF n = 0 THEN Ends("ok", i)
        ELSE LET j == ignoreSpaces(data, i)
             IN ReadSample(data, j, NumEnd(data, j), LAMBDA next : build[n - 1, next])
  IN build[rows, from]

(* Past the first newline; Len(data) stands for an exception. *)
readUntilNewline(data) ==
  IF \E i \in 1 .. Len(data) : data[i] = "\n"
  THEN Min({i \in 1 .. Len(data) : data[i] = "\n"})
  ELSE Len(data)

AddMinibatch(minibatch, i, parse) ==
  CASE minibatch.status = "throw" -> Ends("throw", i)
    [] minibatch.status = "cut" -> Ends("ok", i)
    [] minibatch.status = "ok" -> InFront(minibatch.got, parse[minibatch.index])

parseObjLibsvm(data, rows) ==
  LET parse[i \in 0 .. Len(data)] ==
        AddMinibatch(buildDatasetLibsvm(data, i, rows), i, parse)
  IN IF readUntilNewline(data) >= Len(data) THEN Ends("throw", Len(data))
     ELSE parse[readUntilNewline(data)]
=============================================================================
