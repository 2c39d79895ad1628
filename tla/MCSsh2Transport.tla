---------------------------- MODULE MCSsh2Transport ----------------------------
(* An instance of Ssh2Transport: a server that offers group exchange, a     *)
(* wrong guess and weak algorithms, or nothing that can be agreed on.       *)
EXTENDS Ssh2Transport

Awkward == [agree |-> TRUE, gex |-> TRUE, follows |-> TRUE, warns |-> 1]
Useless == [agree |-> FALSE, gex |-> FALSE, follows |-> FALSE, warns |-> 0]

HardOffers == {Awkward, Useless}

Unlimited == [cipher |-> "stream", ssh_rekey_time |-> 0, max_data_size |-> 0]
Cbc == [cipher |-> "cbc", ssh_rekey_time |-> 1, max_data_size |-> 2]

TwoConfigs == {Unlimited, Cbc}
===============================================================================
