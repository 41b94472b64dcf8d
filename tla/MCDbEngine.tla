----------------------------- MODULE MCDbEngine -----------------------------
(***************************************************************************)
(* Small instances of DbEngine for TLC.  The requests cover every branch:  *)
(* automatic and explicit ids, an id, a name and an age that are refused,  *)
(* and a SELECT for each kind of filter and projection.                    *)
(***************************************************************************)
EXTENDS DbEngine, TLC

CONSTANTS kim, lee

Auto(name, age) == [hasId |-> FALSE, id |-> 0, name |-> name, age |-> age]
Explicit(id, name, age) == [hasId |-> TRUE, id |-> id, name |-> name, age |-> age]

MCInserts ==
  {Auto(<<kim>>, 1), Explicit(2, <<lee>>, 0), Explicit(0, <<kim>>, 1),
   Auto(<<BadName>>, 1), Auto(<<lee>>, -1)}

\* Valid requests only, for the runs about faults and restarts.
MCGoodInserts == {Auto(<<kim>>, 1), Explicit(2, <<lee>>, 0)}

\* Explicit ids at the top of the range next to automatic ones.
MCEdgeInserts == {Auto(<<kim>>, 1), Explicit(MaxInt - 1, <<lee>>, 0)}
MCLastInserts == {Auto(<<kim>>, 1), Explicit(MaxInt, <<lee>>, 0)}

NoColumns == [columns |-> <<>>, include |-> {}]
NameAndId == [columns |-> <<"name", "id">>, include |-> {"name", "id"}]
OnlyAge == [columns |-> <<>>, include |-> {"age"}]

MCSelects ==
  {[filter |-> "all", id |-> 0, name |-> <<>>, projection |-> NameAndId],
   [filter |-> "id", id |-> 2, name |-> <<>>, projection |-> NoColumns],
   [filter |-> "name", id |-> 0, name |-> <<kim>>, projection |-> OnlyAge]}

NoSelects == {}

\* One lookup and one scan.
MCTwoSelects == {q \in MCSelects : q.filter # "name"}

\* An empty file, and one with an empty line and a row, as the demo leaves it.
MCFiles == {<<>>, <<EmptyText, RowText([id |-> 2, name |-> <<kim>>, age |-> 0])>>}

\* A hand-edited file whose second row is not one an INSERT could have made.
MCDamagedFiles ==
  {<<>>, <<RowText([id |-> 1, name |-> <<lee>>, age |-> 0]),
           RowText([id |-> 0, name |-> <<lee>>, age |-> 0])>>}

EmptyFile == {<<>>}

\* The files of both kinds.
MCAnyFiles == MCFiles \cup MCDamagedFiles

Symmetry == Permutations(Threads)
=============================================================================
