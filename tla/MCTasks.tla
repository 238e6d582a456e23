------------------------------- MODULE MCTasks -------------------------------
(* Lists of up to two items, those with formats and single results that    *)
(* make a difference, and a list of three for MySQL, which keeps the       *)
(* variables of most stages from one item to the next.                     *)
EXTENDS Tasks, TLC

MCFormatIds == {"json", "jsonlines", "lines", "text"}

Plain   == [valid |-> TRUE, args |-> 0, format |-> <<"">>, post |-> FALSE]
Invalid == [Plain EXCEPT !.valid = FALSE]
With(n) == [Plain EXCEPT !.args = n]
Form(f) == [Plain EXCEPT !.format = f]
Post    == [Plain EXCEPT !.post = TRUE]

Conf(kind, items, single, show) ==
  [kind |-> kind, items |-> items, single |-> single, show |-> show]

Singles == {Unset} \cup -2..2

Lists ==
  [shell     |-> {<<>>, <<Plain>>, <<Form(<<"json", "lines">>), Form(<<"jsonlines", "", "text", "json">>)>>,
                  <<Plain, Form(<<"json", "xml">>)>>},
   http      |-> {<<>>, <<Invalid>>, <<Post, Plain>>, <<Post, Post>>,
                  <<Form(<<"json">>), Form(<<"lines", "json">>)>>},
   postgres  |-> {<<>>, <<With(0)>>, <<With(2), With(1)>>},
   mysql     |-> {<<>>, <<Invalid>>, <<With(2), With(1)>>, <<With(1), With(2), With(1)>>},
   cassandra |-> {<<>>, <<Invalid>>, <<With(2), With(1)>>},
   redis     |-> {<<>>, <<With(0), Invalid>>, <<With(2), With(1)>>},
   multi     |-> {<<>>, <<Plain>>, <<Plain, Plain>>}]

MCConfigs ==
  UNION {{Conf(k, l, s, b) : l \in Lists[k], s \in Singles, b \in BOOLEAN} : k \in Kinds}
=============================================================================
