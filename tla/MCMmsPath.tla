----------------------------- MODULE MCMmsPath -----------------------------
(* MmsPath on a small instance. *)
EXTENDS MmsPath, TLC

CONSTANTS t1, t2, t3, t4

\* Two ids that are the same once they are sanitized and cut short, and none at all.
Messages == {t1, t2, t3, t4}
Ids == t1 :> <<"a", "/">> @@ t2 :> <<"a", "?", "b">> @@ t3 :> <<>> @@ t4 :> <<"b">>
Letters == {"a", "b", "p", "r", "t", "x", "_"}

\* Two parts of one name, a part beyond the end, a message that is too large.
Part(kind, id, last) == [kind |-> kind, id |-> id, last |-> last]
PartsOfMessage ==
  t1 :> <<Part("text", <<>>, 1), Part("binary", <<"x">>, 1), Part("smil", <<>>, 1),
          Part("binary", <<"x">>, 2), Part("text", <<>>, 2)>> @@
  t2 :> <<Part("binary", <<"x">>, 1), Part("binary", <<>>, 2)>> @@
  t3 :> <<Part("binary", <<"x">>, 1)>> @@
  t4 :> <<Part("text", <<>>, 1), Part("binary", <<"x">>, 3)>>
ChunksOfMessage == t1 :> 2 @@ t2 :> 1 @@ t3 :> 1 @@ t4 :> 3

Element(iei, data) == [iei |-> iei, data |-> data]
Ours   == Element(5, <<11, 132, 0, 0>>)
Theirs == Element(5, <<0, 1, 0, 0>>)
Concat == Element(0, <<7, 2, 1>>)
Narrow == Element(4, <<11, 0>>)
Headed == {<<>>, <<Ours>>, <<Concat>>, <<Concat, Ours>>, <<Ours, Concat>>, <<Theirs>>,
           <<Theirs, Ours>>, <<Ours, Theirs>>, <<Ours, Narrow>>}

Types == {<<190>>, <<97, 0>>, <<1, 190>>, <<31, 1, 190>>, <<31, 128, 1, 190>>}
AllPushes ==
  [udh : Headed \cup {None}, tid : {1, 64}, type : {6, 7}, length : {"minimal"},
   media : {<<190>>, <<1, 190>>, <<174>>}, headers : {<<>>, <<175, 132>>},
   body : {<<140, 130, 152>>}, cut : 0 .. 4]
  \cup
  [udh : {None, <<Ours>>}, tid : {0, 64}, type : {5, 6},
   length : {"minimal", "padded", "wrapped"},
   media : Types \cup {<<>>, <<0>>, <<98, 0>>, <<31>>, <<4, 190>>, <<97>>},
   headers : {<<>>, <<175, 132>>}, body : {<<140, 130, 152>>, <<140, 132>>, <<>>}, cut : {0}]
TestPush == [udh |-> <<Ours>>, tid |-> 1, type |-> 6, length |-> "minimal", media |-> <<190>>,
             headers |-> <<175, 132>>, body |-> <<140, 130, 152>>, cut |-> 0]
OnePush == {TestPush}
=============================================================================
