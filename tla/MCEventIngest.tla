---------------------------- MODULE MCEventIngest ----------------------------
(* An instance of EventIngest for TLC: a meter, one with a group and of a  *)
(* type that goes on from the first one's, so that its events match both   *)
(* filters; an event of each type under one id, and one that is refused.   *)
EXTENDS EventIngest

Tokens == {"meters", "events", ">", "t", "u", "sum", "x", "s", "a:b", "a-b", "1", "2"}

Dashes == [x \in Tokens |-> IF x = "a:b" THEN "a-b" ELSE x]

t == <<"t">>
tu == <<"t", "u">>

mx == [type |-> t, agg |-> "sum", id |-> <<"x">>, groups |-> {}]
mu == [type |-> tu, agg |-> "sum", id |-> <<"x">>, groups |-> {<<"a:b">>}]

e1 == [type |-> t, subject |-> "s", id |-> <<"1">>, form |-> "good"]
e2 == [type |-> tu, subject |-> "s", id |-> <<"1">>, form |-> "good"]
e3 == [type |-> t, subject |-> "s", id |-> <<"2">>, form |-> "unencodable"]

SomeMeters == {mx, mu}
ThreeEvents == {e1, e2, e3}
=============================================================================
