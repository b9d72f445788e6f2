---------------------------- MODULE MCChannelTurn -----------------------------
(* ChannelTurn on small instances.                                             *)
EXTENDS ChannelTurn

Case(platform, kind, f, s) == [platform |-> platform, kind |-> kind, faults |-> f, silences |-> s]

Twice  == <<"turn", "turn">>
Talk   == {Case("poll", Twice, 1, 0), Case("poll", Twice, 0, 1), Case("push", Twice, 0, 0),
           Case("poll", <<"off", "turn">>, 1, 0), Case("push", <<"off", "turn">>, 0, 0)}
=============================================================================
