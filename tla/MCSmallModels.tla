---------------------------- MODULE MCSmallModels ----------------------------
(***************************************************************************)
(* An instance of SmallModels for TLC: what the scripts are made of that   *)
(* CommandStream reads.                                                    *)
(***************************************************************************)
EXTENDS SmallModels

Line(t, v, f, n, c) ==
    [tid |-> t, verb |-> v, form |-> f, names |-> n, count |-> c, right |-> TRUE]

\* Names of one piece, and one of more than 31 characters.
p == <<"p">>
q == <<"q">>
r == <<"r">>
long == <<"p", "s">>

Row == Line(<< >>, "data", "plain", << >>, 0)

\* A data line that its command does not accept.
WrongRow == [Row EXCEPT !.right = FALSE]

\* Rows whose first field looks like an id, and rows that read as commands.
Like11 == [Row EXCEPT !.tid = <<1, 1>>]
Like21 == [Row EXCEPT !.tid = <<2, 1>>]
LikeDelete == Line(<< >>, "DE", "plain", <<<<"s">>>>, 0)
LikePrint  == Line(<< >>, "PR", "glued", <<<<"s">>>>, 0)

\* The last seven: a line between commands, an indented IN, a CR without its keys, a delete
\* written as one word, a long name, a command that announces more rows than it has, and
\* an id of three digits.
MCBlocks ==
    { <<Line(<<1, 1>>, "IN", "plain", <<p>>, 2), Like21, LikeDelete>>,
      <<Line(<<2, 1>>, "PJ", "plain", <<p, q>>, 2), WrongRow, LikePrint>>,
      <<Line(<<1, 1>>, "NJ", "plain", <<p, q, r>>, 1), LikeDelete>>,
      <<Line(<<2, 1>>, "PR", "plain", <<p>>, 0)>>,
      <<Line(<<1, 1>>, "C", "plain", << >>, 0)>>,
      <<LikeDelete>>,
      <<Line(<<1, 1>>, "IN", "indented", <<p>>, 1), LikeDelete>>,
      <<Line(<<2, 1>>, "CR", "short", <<p>>, 1), LikeDelete>>,
      <<Line(<<1, 1>>, "DE", "glued", <<p>>, 0)>>,
      <<Line(<<1, 1>>, "SL", "plain", <<p, long>>, 1), LikePrint>>,
      <<Line(<<2, 1>>, "IN", "plain", <<p>>, 2), Like11>>,
      <<Line(<<1, 1, 0>>, "DF", "plain", <<p, q, r>>, 0)>> }
=============================================================================
