--------------------------- MODULE MCUtxoCommands ---------------------------
(* A small UTXO wallet: five addresses a branch, windows of two probed by two
   workers, a gap limit of three, and three outputs, two at one address behind
   a gap of two; and the transactions a user may ask to bump. *)
EXTENDS UtxoCommands, TLC

CONSTANTS o1, o2, o3

MCOuts == {o1, o2, o3}

MCAddrOf == (o1 :> <<0, 1>>) @@ (o2 :> <<0, 4>>) @@ (o3 :> <<0, 4>>)
MCWorth  == (o1 :> 2) @@ (o2 :> 1) @@ (o3 :> 3)

Plain == [signals |-> TRUE, ourInputs |-> TRUE, memo |-> "text", fee |-> 4,
          size |-> 2, owned |-> {"change"}, internal |-> {"change"},
          val |-> [change |-> 14, payee |-> 9]]

MCShapes ==
    {[Plain EXCEPT !.val = [change |-> c, payee |-> 9], !.fee = f]
        : c \in {3, 7, 11, 14}, f \in {2, 4}}
    \cup {[Plain EXCEPT !.signals = FALSE], [Plain EXCEPT !.ourInputs = FALSE],
          [Plain EXCEPT !.memo = "unreadable"], [Plain EXCEPT !.memo = "two"],
          [Plain EXCEPT !.owned = {"change", "payee"}],
          [Plain EXCEPT !.owned = {"change", "payee"},
                        !.internal = {"change", "payee"}],
          [Plain EXCEPT !.owned = {}, !.internal = {},
                        !.val = [payee |-> 9]],
          [Plain EXCEPT !.val = [change |-> 14, payee |-> 9, other |-> 5]]}

\* A rate that is asked for, and one that is suggested.
MCOvershoot == {<<2, 5>>, <<2, 8>>}
=============================================================================
