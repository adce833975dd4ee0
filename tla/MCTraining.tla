---------------------------- MODULE MCTraining ----------------------------
(* LR: two workers with minibatches that repeat an index and share one, for   *)
(* every optimisation method; one worker with several minibatches; two, one   *)
(* of them with a sample without features, or with more features than a       *)
(* message takes; buffers too small for a request, a gradient or the full     *)
(* model; a worker beside the error task.  MF: two workers on two objects,    *)
(* and one worker that goes around its range.                                 *)
EXTENDS Training

Sample(label, feats) == [label |-> label, feats |-> feats]

Batches == { << Sample(1, << <<0, 1>>, <<1, 2>> >>), Sample(0, << <<1, 1>> >>) >>,
             << Sample(1, << <<1, 1>>, <<1, 1>> >>) >> }

None == << Sample(1, <<>>) >>
One == << Sample(0, << <<1, 1>> >>) >>
Four == << Sample(1, << <<0, 1>>, <<1, 1>> >>), Sample(0, << <<1, 1>>, <<0, 1>> >>) >>

Default ==
  [kind |-> "lr", opt |-> "sgd", workers |-> 1, batches |-> Batches, rows |-> <<>>,
   nusers |-> 0, nitems |-> 0, first |-> 0, last |-> 0, netflix_workers |-> 0,
   test_iters |-> 0, bound |-> 1, eval |-> FALSE, reports |-> 0, buffer |-> 20,
   test |-> << << Sample(1, << <<0, 1>> >>) >>, << Sample(0, << <<1, 1>> >>) >> >>]

Row(u) == CASE u = 0 -> << <<0, 2>>, <<1, 3>> >>
            [] u = 1 -> << <<1, 1>> >>
            [] u = 2 -> << <<0, 3>> >>
            [] u = 3 -> <<>>

Ratings == [Default EXCEPT !.kind = "mf", !.batches = {}, !.rows = [u \in 0 .. 3 |-> Row(u)],
                           !.nusers = 4, !.nitems = 2]

LRSetups ==
  {[Default EXCEPT !.opt = o, !.workers = 2] : o \in {"sgd", "momentum", "nesterov", "adagrad"}}
  \union {[Default EXCEPT !.test_iters = 2, !.bound = 4, !.reports = 2],
          [Default EXCEPT !.batches = {None, One}, !.workers = 2, !.bound = 2],
          [Default EXCEPT !.batches = {Four, One}, !.workers = 2],
          [Default EXCEPT !.buffer = 3], [Default EXCEPT !.buffer = 5],
          [Default EXCEPT !.eval = TRUE, !.buffer = 2],
          [Default EXCEPT !.eval = TRUE, !.bound = 2]}

MFSetups ==
  {[Ratings EXCEPT !.workers = 2, !.netflix_workers = 2, !.last = 1],
   [Ratings EXCEPT !.netflix_workers = 2, !.last = 1, !.bound = 4],
   [Ratings EXCEPT !.bound = 3, !.test_iters = 1],
   [Ratings EXCEPT !.last = 1, !.bound = 4],
   [Ratings EXCEPT !.last = 1, !.eval = TRUE],
   [Ratings EXCEPT !.last = 1, !.eval = TRUE, !.buffer = 15],
   [Ratings EXCEPT !.bound = 2, !.buffer = 15]}

MCSetups == LRSetups \union MFSetups
=============================================================================
