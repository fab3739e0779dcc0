---------------------------- MODULE MCCommands ----------------------------
(* Numbers with whole parts up to the limit of 30 and every fraction of up *)
(* to five digits over a few of them: one digit more than is kept.         *)
EXTENDS Commands

MCSpawn == [x |-> Normal(FALSE, -1, 2^DoubleShift), y |-> Normal(FALSE, 4, 2^DoubleShift),
            z |-> Normal(FALSE, -1, 2^DoubleShift), yaw |-> Zero, pitch |-> Zero]

Words(first, args) == [slash |-> TRUE, words |-> <<<<first>>>> \o args, len |-> 0]
Plain(n) == [slash |-> FALSE, words |-> <<>>, len |-> n]

Fractions == UNION {[1..n -> {"0", "4", "5", "8", "9"}] : n \in 1..4} \cup [1..5 -> {"0", "5", "9"}]
Wholes == {<<"0">>, <<"1", "5">>, <<"2", "9">>, <<"3", "0">>}
Numbers == {w \o <<".">> \o f : w \in Wholes, f \in Fractions}
           \cup {w \o <<".">> \o f : w \in {<<"-", "7">>, <<"+", "0", "0", "8">>},
                                     f \in UNION {[1..n -> {"0", "5", "6"}] : n \in 1..3}}
Shapes == UNION {[1..n -> {"-", ".", "0", "3", "x"}] : n \in 1..3}
          \cup {<<"3", "1">>, <<"3", "0", "0">>, <<"3", "0", "1">>, <<"0", "3", "0">>,
                <<"9", "9", "9", "9">>, <<"day">>}
Ticks == {<<"0">>, <<"2", "4", "0", "0", "0">>, <<"2", "4", "0", "0", "1">>,
          <<"0", "0", "2", "4", "0", "0", "0">>, <<"2", "4", "0", "0", "0", "0">>,
          <<"9", "9", "9", "9", "9", "9", "9", "9">>, <<"-", "1">>, <<"noon">>, <<"dusk">>}

MCOpening ==
    {Words("/tp", <<n, <<"1">>, <<"-", "0">>>>) : n \in Numbers \cup Shapes}
    \cup {Words("/tp", <<<<"1">>, s, s>>) : s \in Shapes}
    \cup {Words("/time", <<t>>) : t \in Ticks}
    \cup {Words("/time", <<>>), Words("/weather", <<<<"rain">>>>), Words("/help", <<>>), Plain(3)}
MCFollowing ==
    {Words("/pos", <<>>), Words("/spawn", <<>>), Words("/spawn", <<<<"x">>>>),
     Words("/tp", <<<<"-", "3", "0", ".", "0", "0">>, <<"2", "9", ".", "9", "9">>, <<"0">>>>),
     Words("/weather", <<<<"snow">>>>), Words("/fly", <<>>),
     Words("/pos", <<<<"1">>, <<"2">>, <<"3">>, <<"4">>, <<"5">>>>)}
    \cup {Plain(n) : n \in (TextCap - NameLen - 4)..(TextCap - NameLen - 3)}

Coordinate(v) == [x |-> v, y |-> v, z |-> v]
MCPlaces == {Coordinate(Special), Coordinate(Normal(TRUE, 5, 2^DoubleShift)),
             Coordinate(Normal(TRUE, -40, 2^DoubleShift + 1)), Coordinate(Normal(FALSE, 60, 2^DoubleShift))}
MCLooks == {[yaw |-> Normal(TRUE, 3, 2^FloatShift + 3), pitch |-> Zero],
            [yaw |-> Special, pitch |-> Special]}
=============================================================================
