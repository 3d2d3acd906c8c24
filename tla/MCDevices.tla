----------------------------- MODULE MCDevices -----------------------------
(* Devices on a small instance. *)
EXTENDS Devices

ThreePorts == <<[name |-> "net", at |-> FALSE], [name |-> "main", at |-> TRUE],
                [name |-> "a", at |-> TRUE], [name |-> "b", at |-> TRUE]>>
NoneOrSet == {None, "a"}

\* An unasked line that ends like an answer.
OneUrc == {<<"u", "O", "K">>}

\* Devices in a row, side by side and on another bus.
SomeDevices == [bus : {"1", "2"}, ports : {<<"1">>, <<"1", "1">>, <<"1", "2">>, <<"2">>,
                                           <<"1", "1", "1">>}]
SomeInterfaces == {<<>>, <<"1", ".", "4">>}
=============================================================================
