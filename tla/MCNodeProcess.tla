---------------------------- MODULE MCNodeProcess ----------------------------
(* A small instance of one process: command lines with every kind of key, and *)
(* lines that take every path through the prompt.                            *)
EXTENDS NodeProcess

CONSTANTS Own, Other        \* the wallet of the process and of another one

Text(prefixed, hex, len, value) ==
    [prefixed |-> prefixed, hex |-> hex, len |-> len, value |-> value]

\* A new wallet; a restored one, with a peer to dial; a key with a prefix; a key of
\* another length.
OneCliEach ==
    {[secret_key |-> None, balance |-> 2, peer |-> {}],
     [secret_key |-> Text(FALSE, TRUE, SECRET_KEY_LENGTH, Own), balance |-> 1, peer |-> Peers],
     [secret_key |-> Text(TRUE, TRUE, SECRET_KEY_LENGTH, Own), balance |-> 2, peer |-> {}],
     [secret_key |-> Text(FALSE, TRUE, 0, Own), balance |-> 2, peer |-> {}]}

OtherHex == AddressHex(WalletOf(Other))

\* Empty, a read-only command, an unknown one, and of send: too few words, a short
\* address, too large an amount, nothing, to itself, and transfers.
OneLineEach ==
    {<<>>, <<"send">>, <<"bal">>, <<"quit">>,
     <<"send", [OtherHex EXCEPT !.len = ADDRESS_LEN - 1, !.value = None], 1>>,
     <<"send", OtherHex, U64>>, <<"send", OtherHex, 0>>, <<"send", OtherHex, 1>>,
     <<"send", AddressHex(WalletOf(Own)), 1>>,
     <<"transfer", [OtherHex EXCEPT !.prefixed = FALSE], U64 - 1>>}
=============================================================================
